---------------------------------- MODULE MCBoot ----------------------------------
(* From reset to traps: the firmware and boot loaders, the kernel's early start,   *)
(* and the trap entries it installs.  A run takes one of them at Init; the others  *)
(* rest.                                                                           *)
(*                                                                                 *)
(* Kernel: a small address space, 64 MB with KERN_BASE in the middle and a direct  *)
(* map of 24 MB.  Loaders: disks of eight blocks of four units, with kernels whose *)
(* segments begin and end within blocks.  Traps: one vector of each kind on the    *)
(* PC, handlers that trap again.                                                   *)
EXTENDS Boot

VARIABLES part,
          machine, img, lpc, seg, rd, disk, mem,   \* Loader
          card, data, host, sdram, drv,              \* SdHost, below it
          arch, ready, cpu, store, nest, im, end   \* Traps
loader == <<machine, img, lpc, seg, rd, disk, mem, card, data, host, sdram, drv>>
traps == <<arch, ready, cpu, store, nest, im, end>>

Range1(s, n) == [start |-> s, size |-> n]
Machine(p, ram) == [plat |-> p, ram |-> ram]

(* A PC has conventional memory and RAM from 1 MB; its RAM ends on a large page.
   The third kind also lists conventional memory in so many pieces, last, that
   the queue cannot hold them all. *)
Pcs ==
  {Machine("i386", <<Range1(0, 1), Range1(1, 4 * k - 1)>>) : k \in 1 .. 6}
    \cup {Machine("i386", <<Range1(0, 1), Range1(1, 7), Range1(8 + 4 * k, 4)>>) : k \in 0 .. 3}
    \cup {Machine("i386", <<Range1(1, 4 * k - 1)>> \o [i \in 1 .. 5 |-> Range1(0, 1)]) : k \in 1 .. 6}

(* The others have one range from 0. *)
Boards == {Machine(p, <<Range1(0, n)>>) : p \in {"zynq", "loongson", "msim"}, n \in {4, 16, 24}}

MCMachines == Pcs \cup Boards

(* A disk whose partition starts at block lba, with a kernel of two segments to
   load, at a and b in the file, and one that is not loaded. *)
Segment(load, off, pa, sz) == [load |-> load, off |-> off, pa |-> pa, sz |-> sz]
Disks == {[signed |-> s, lba |-> l, phoff |-> 2,
           segs |-> <<Segment(TRUE, a, 4, n), Segment(FALSE, 0, 0, 3), Segment(TRUE, b, 12, m)>>] :
          s \in BOOLEAN, l \in {1, 2}, a \in {6, 8}, n \in {0, 2, 5}, b \in {11, 13}, m \in {1, 4}}

Load == INSTANCE Loader WITH
  Kinds <- {"SDHC", "none"}, Block <- 4, Units <- 32, Bufs <- {"sector_buf", "mbr"},
  Machines <- {"zynq", "msim", "pc"}, Images <- Disks,
  EhSize <- 2, PhSize <- 1, HeadSize <- 8, MemSize <- 20, pc <- lpc, ram <- sdram
Trap == INSTANCE Traps WITH
  Arches <- {"armv7a", "i386", "mips"}, Irqs <- FALSE, Vectors <- {0, 8, 13, 17, 64},
  Depth <- 3, Steps <- 2

MCInit ==
  /\ part \in {"kernel", "loader", "traps"}
  /\ Init /\ (part # "kernel" => mach = Machine("msim", <<Range1(0, 4)>>))
  /\ Load!Init
  /\ (part # "loader" => machine = "pc" /\ card.kind = "none" /\ img = CHOOSE d \in Disks : d.signed)
  /\ Trap!TrapsInit /\ (part # "traps" => arch = "mips" /\ im = 0)

MCNext == \/ part = "kernel" /\ Next           /\ UNCHANGED <<part, loader, traps>>
          \/ part = "loader" /\ Load!Next      /\ UNCHANGED <<part, vars, traps>>
          \/ part = "traps"  /\ Trap!TrapsNext /\ UNCHANGED <<part, vars, loader>>

\* The fairness of Boot and of Loader for the one that runs.
MCSpec ==
  /\ MCInit /\ [][MCNext]_<<part, vars, loader, traps>>
  /\ WF_vars(part = "kernel" /\ Next)
  /\ part = "loader" => Load!Fairness

\* No message, instruction or bus access of the early start goes through a pointer
\* that means nothing in the current address space, after the jump handlers no low
\* pointer is left, and the mapping queue stays within its array.
PointersValid == TypeOK /\ BootSafe /\ LowPointersGone

\* When a kernel is entered, every PT_LOAD segment is in memory as it is in the
\* file; no loader uses a header that is not the one on the disk.
KernelLoaded == Load!KernelLoaded

\* Firmware and loader enter the kernel or stop, also when cards and disks fail;
\* and the kernel gets to the end of master_init().
StartupEnds == /\ part = "kernel" => BootCompletes
               /\ part = "loader" => Load!FirmwareEnds

\* What a trap's handler is shown is the interrupted flow: its registers, where it
\* goes on, and the vector.
FrameTrue == Trap!FrameTrue

\* A return from a trap gives the interrupted flow its registers back.
ContextRestored == Trap!ContextRestored
===============================================================================
