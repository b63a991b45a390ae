--------------------------------- MODULE Loader ----------------------------------
(***************************************************************************)
(* From reset to the kernel: the firmware of Zynq and of MSIM with the     *)
(* boot loaders they start, and the boot loader of the PC, which its BIOS  *)
(* starts.  On Zynq blocks come through SdHost; MSIM's disk and the IDE    *)
(* disk of the PC are modelled here.                                       *)
(*                                                                         *)
(* Unit u of the disk holds the value u, so that what is in memory tells   *)
(* where on the disk it came from.  The kernel's file starts at block lba  *)
(* with the ELF header; sizes and addresses are counted in units.          *)
(***************************************************************************)
EXTENDS SdHost, Sequences

CONSTANTS
  Machines,  \* among "zynq", "msim" and "pc"
  Images,    \* the disks: [signed, lba, phoff, segs], segs being [load, off, pa, sz]
  EhSize,    \* sizeof(struct elf32hdr)
  PhSize,    \* sizeof(struct elf32_phdr) and e_phentsize
  HeadSize,  \* PGSIZE, what the loader of the PC reads for all the headers
  MemSize    \* the memory that kernels are loaded to: 0 .. MemSize - 1

VARIABLES
  machine, img,
  pc,        \* where the firmware or loader is
  seg,       \* i: the program header at work
  rd,        \* the readdisk() or readseg() in progress
  disk,      \* the controller of MSIM's disk or of IDE
  mem        \* mem[a]: main memory, with the buffers of the headers

vars == <<machine, img, pc, seg, rd, disk, mem, sdvars>>
ldvars == <<machine, img, pc, seg, rd, disk, mem>>

EhAt == 1000          \* where eh, or all headers on the PC, are read to
PhAt == 2000          \* where ph is read to
NoRead == [at |-> "none"]

Init ==
  /\ SdInit
  /\ machine \in Machines /\ img \in Images
  /\ pc = "start" /\ seg = 1
  /\ rd = NoRead
  /\ disk = [busy |-> FALSE, intr |-> FALSE, err |-> FALSE, sector |-> 0]
  /\ mem = [a \in (0 .. MemSize - 1) \cup (EhAt .. EhAt + HeadSize - 1)
                  \cup (PhAt .. PhAt + PhSize - 1) |-> Junk]

Go(where) == pc' = where

-------------------------------------------------------------------------------
(* Mutant: the offset is not reduced to one within the first block. *)
readdiskWhole(sector, off, buf, len) ==
  rd' = [at |-> "ask", sector |-> sector, offset |-> off % Block, buf |-> buf, end |-> buf + len]

readdisk(sector, off, buf, len) ==
  rd' = [at |-> "ask", sector |-> sector + (off \div Block), offset |-> off % Block,
         buf |-> buf, end |-> buf + len]

(* The loader of the PC: whole blocks, from before the first unit asked for. *)
readseg(pa, count, off) ==
  rd' = [at |-> "ask", sector |-> off \div Block, offset |-> 0, buf |-> pa - (off % Block),
         end |-> pa + count]

Asking == rd.at = "ask" /\ rd.buf < rd.end
ReadDone == rd.at = "ask" /\ rd.buf >= rd.end

(* Mutant: the length of a piece forgets the offset. *)
PieceNoOffset == IF rd.end - rd.buf < Block THEN rd.end - rd.buf ELSE Block

(* min2(len, SECTOR_SIZE - offset); readsect() always takes a whole block. *)
Piece ==
  IF machine = "pc" \/ rd.end - rd.buf > Block - rd.offset THEN Block - rd.offset
  ELSE rd.end - rd.buf

(* memcpy() of a piece from the block buffer, and on to the next block. *)
Copy(block) ==
  /\ mem' = [a \in DOMAIN mem |-> IF a - rd.buf \in 0 .. Piece - 1
                                  THEN block[(rd.offset + (a - rd.buf)) % Block] ELSE mem[a]]
  /\ rd' = [rd EXCEPT !.at = "ask", !.sector = @ + 1, !.offset = 0, !.buf = @ + Piece]

ZynqAsk ==
  /\ machine = "zynq" /\ Asking /\ sd_read("sector_buf", rd.sector)
  /\ rd' = [rd EXCEPT !.at = "wait"]
  /\ UNCHANGED <<machine, img, pc, seg, disk, mem>>

ZynqCopy ==
  /\ machine = "zynq" /\ rd.at = "wait" /\ Idle /\ drv.ret = 0
  /\ Copy(ram["sector_buf"])
  /\ UNCHANGED <<machine, img, pc, seg, disk, sdvars>>

(* fwpanic(): "read disk error" *)
ZynqPanic ==
  /\ machine = "zynq" /\ rd.at = "wait" /\ Idle /\ drv.ret # 0
  /\ Go("spin") /\ rd' = NoRead
  /\ UNCHANGED <<machine, img, seg, disk, mem, sdvars>>

(* msim_dd_read_sector() and readsect() start the disk, which takes its time. *)
DiskAsk ==
  /\ machine \in {"msim", "pc"} /\ Asking /\ ~disk.busy
  /\ disk' = [disk EXCEPT !.busy = TRUE, !.sector = rd.sector]
  /\ rd' = [rd EXCEPT !.at = "wait"]
  /\ UNCHANGED <<machine, img, pc, seg, mem, sdvars>>

(* The disk of MSIM may report an error. *)
DiskWorks ==
  /\ disk.busy
  /\ \E e \in IF machine = "msim" THEN BOOLEAN ELSE {FALSE} :
       disk' = [disk EXCEPT !.busy = FALSE, !.intr = TRUE, !.err = e]
  /\ UNCHANGED <<machine, img, pc, seg, rd, mem, sdvars>>

(* Mutant: the disk is not waited for. *)
DiskReadyAtOnce == TRUE

(* msim_dd_check_interrupt(); waitdisk() *)
DiskReady == IF machine = "msim" THEN disk.intr ELSE ~disk.busy

DiskBlock ==
  [i \in 0 .. Block - 1 |-> IF disk.busy THEN Junk ELSE data[disk.sector * Block + i]]

(* The interrupt is acknowledged before the status is read. *)
DiskCopy ==
  /\ machine \in {"msim", "pc"} /\ rd.at = "wait" /\ DiskReady /\ ~disk.err
  /\ disk' = [disk EXCEPT !.intr = FALSE]
  /\ Copy(DiskBlock)
  /\ UNCHANGED <<machine, img, pc, seg, sdvars>>

DiskPanic ==
  /\ machine = "msim" /\ rd.at = "wait" /\ DiskReady /\ disk.err
  /\ disk' = [disk EXCEPT !.intr = FALSE]
  /\ Go("spin") /\ rd' = NoRead
  /\ UNCHANGED <<machine, img, seg, mem, sdvars>>

-------------------------------------------------------------------------------
(* fw_main() *)
fw_main ==
  /\ machine = "zynq" /\ Idle
  /\ \/ pc = "start" /\ sd_init /\ Go("sd")
     \/ pc = "sd" /\ sd_init_cardCall /\ Go("card")
     \/ pc = "card" /\ drv.ret \in {0, 1} /\ sd_read("mbr", 0) /\ Go("mbr")
  /\ UNCHANGED <<machine, img, seg, rd, disk, mem>>

(* Mutant: the answer of sd_read() is not looked at. *)
MbrGoodUnread == img.signed

(* The signature is there if the block is. *)
MbrGood == drv.ret = 0 /\ img.signed

FwGivesUp ==
  /\ machine = "zynq" /\ Idle
  /\ \/ pc = "card" /\ drv.ret \notin {0, 1}
     \/ pc = "mbr" /\ ~MbrGood
  /\ Go("spin")
  /\ UNCHANGED <<machine, img, seg, rd, disk, mem, sdvars>>

(* boot_main(): the partition is found in the MBR. *)
boot_main ==
  /\ machine = "zynq" /\ pc = "mbr" /\ Idle /\ MbrGood
  /\ IF ram["mbr"][0] = 0
     THEN readdisk(img.lba, 0, EhAt, EhSize) /\ Go("eh")
     ELSE UNCHANGED rd /\ Go("lost")
  /\ UNCHANGED <<machine, img, seg, disk, mem, sdvars>>

(* main() of MSIM's firmware reads the MBR as any other block, into mbr. *)
main ==
  /\ machine = "msim" /\ pc = "start"
  /\ readdisk(0, 0, EhAt, Block) /\ Go("mbr")
  /\ UNCHANGED <<machine, img, seg, disk, mem, sdvars>>

boot ==
  /\ machine = "msim" /\ pc = "mbr" /\ ReadDone
  /\ readdisk(img.lba, 0, EhAt, EhSize) /\ Go("eh")
  /\ UNCHANGED <<machine, img, seg, disk, mem, sdvars>>

bootmain ==
  /\ machine = "pc" /\ pc = "start"
  /\ readseg(EhAt, HeadSize, img.lba * Block) /\ Go("eh")
  /\ UNCHANGED <<machine, img, seg, disk, mem, sdvars>>

(* The units from `at` on hold what the file has from `off` on. *)
Holds(at, off, n) == \A i \in 0 .. n - 1 : at + i \in DOMAIN mem /\ mem[at + i] = img.lba * Block + off + i

PhOff == img.phoff + (seg - 1) * PhSize

(* The ELF header is in memory: e_phoff, e_phnum and e_entry can be used. *)
HeaderRead ==
  /\ pc = "eh" /\ ReadDone
  /\ rd' = NoRead
  /\ Go(IF Holds(EhAt, 0, EhSize) THEN "next" ELSE "lost")
  /\ UNCHANGED <<machine, img, seg, disk, mem, sdvars>>

(* The loop over the program headers. *)
NextHeader ==
  /\ pc = "next" /\ seg <= Len(img.segs)
  /\ IF machine = "pc" THEN UNCHANGED rd ELSE readdisk(img.lba, PhOff, PhAt, PhSize)
  /\ Go("ph")
  /\ UNCHANGED <<machine, img, seg, disk, mem, sdvars>>

Jump ==
  /\ pc = "next" /\ seg > Len(img.segs)
  /\ Go("kernel")
  /\ UNCHANGED <<machine, img, seg, rd, disk, mem, sdvars>>

HaveHeader == IF machine = "pc" THEN Holds(EhAt + PhOff, PhOff, PhSize) ELSE Holds(PhAt, PhOff, PhSize)

(* A PT_LOAD segment is read to p_paddr, on MSIM to p_vaddr, the kseg0 address of
   the same memory. *)
LoadSegment ==
  /\ pc = "ph" /\ (machine = "pc" \/ ReadDone)
  /\ LET s == img.segs[seg]
     IN  CASE ~HaveHeader -> rd' = NoRead /\ Go("lost") /\ UNCHANGED seg
           [] HaveHeader /\ ~s.load -> rd' = NoRead /\ Go("next") /\ seg' = seg + 1
           [] HaveHeader /\ s.load ->
                /\ IF machine = "pc" THEN readseg(s.pa, s.sz, img.lba * Block + s.off)
                   ELSE readdisk(img.lba, s.off, s.pa, s.sz)
                /\ Go("seg") /\ UNCHANGED seg
  /\ UNCHANGED <<machine, img, disk, mem, sdvars>>

SegmentRead ==
  /\ pc = "seg" /\ ReadDone
  /\ rd' = NoRead /\ Go("next") /\ seg' = seg + 1
  /\ UNCHANGED <<machine, img, disk, mem, sdvars>>

Processor ==
  \/ ZynqAsk \/ ZynqCopy \/ ZynqPanic \/ DiskAsk \/ DiskCopy \/ DiskPanic
  \/ fw_main \/ FwGivesUp \/ boot_main \/ main \/ boot \/ bootmain
  \/ HeaderRead \/ NextHeader \/ Jump \/ LoadSegment \/ SegmentRead

Sd == (Driver \/ Controller \/ Pull) /\ UNCHANGED ldvars

Next == Processor \/ DiskWorks \/ Sd

Spec == Init /\ [][Next]_vars

(* The processor goes on and the disks finish what they are asked for. *)
Fairness == WF_vars(Processor) /\ WF_vars(DiskWorks) /\ SdFairness

-------------------------------------------------------------------------------
(* When the kernel is entered, every PT_LOAD segment is in memory as it is in the
   file, whatever its alignment on the disk and whatever was read before it; and
   no header is used that is not the one on the disk. *)
KernelLoaded ==
  /\ pc # "lost"
  /\ pc = "kernel" =>
       \A k \in 1 .. Len(img.segs) :
         img.segs[k].load => Holds(img.segs[k].pa, img.segs[k].off, img.segs[k].sz)

(* The firmware enters the kernel or stops, with failing cards and disks, too. *)
FirmwareEnds == <>(pc \in {"kernel", "spin", "lost"})
===============================================================================
