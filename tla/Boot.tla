----------------------------------- MODULE Boot -----------------------------------
(***************************************************************************)
(* The master processor from the kernel's entry to the end of master_init()*)
(* on Zynq (ARM), i386, Loongson 3A and MSIM (MIPS): kern/init, the early  *)
(* mappings and handler queues of kern/mm/mmu.c, the early console and the *)
(* buses it writes through.                                                *)
(*                                                                         *)
(* The kernel is linked at KERN_BASE and is position independent.  On ARM  *)
(* and i386 it starts at its physical, low, addresses, builds a page index *)
(* from a queue of mappings, turns the MMU on and jumps to the high        *)
(* addresses; every pointer stored before the jump is low.  On MIPS all    *)
(* addresses are high from the start and the mapping is in the hardware.   *)
(*                                                                         *)
(* Addresses and sizes are in megabytes of a small address space.  The     *)
(* allocators are those of KernelHeap, PageAlloc and Slab; here only the   *)
(* order in which they come to life and the memory they get matter.        *)
(***************************************************************************)
EXTENDS Integers, SequencesExt, FiniteSetsExt, TLC

CONSTANTS
  Machines,       \* the machines: [plat, ram], ram a sequence of [start, size]
  KERN_BASE, KMMAP_BASE, RESERVED_BASE,
  KernEnd,        \* physical end of the kernel, which starts at HIGHMEM_BASE
  UartPhys,       \* where the memory-mapped UART is
  QueueLength,    \* EARLY_MAPPING_QUEUE_LENGTH
  XPage           \* XPAGE_SIZE, the page size of the early i386 mappings

HIGHMEM_BASE == 1

ASSUME BootAssumption ==
  /\ KERN_BASE < KMMAP_BASE /\ KMMAP_BASE < RESERVED_BASE
  /\ KernEnd > HIGHMEM_BASE /\ QueueLength \in Nat /\ XPage \in Nat \ {0}

VARIABLES
  mach,                      \* the machine
  pc,                        \* where master_early_init() or master_init() is
  space,                     \* get_addr_space(): "low" or "high"
  queue, memTop, kmmapTop,   \* the early mapping queue
  mmuHandlers, jumpHandlers, \* the handler queues
  index,                     \* the boot page index, a function on mapped addresses
  mmu,                       \* the MMU is on
  console,                   \* __putchar: "none", "low" or "high"
  bus,                       \* get_read_fp, get_write_fp of the console's bus
  uart,                      \* [bus, base, mapped], mapped is __early_mapped_base
  pool,                      \* the memory given to the page allocator
  caching, devices,          \* the caching allocator, device index are set
  fault                      \* why the kernel stopped

vars == <<mach, pc, space, queue, memTop, kmmapTop, mmuHandlers, jumpHandlers, index,
          mmu, console, bus, uart, pool, caching, devices, fault>>
queues == <<queue, memTop, kmmapTop, mmuHandlers, jumpHandlers>>
devs == <<console, bus, uart>>

Mips == mach.plat \in {"loongson", "msim"}
Ram == UNION {r.start .. (r.start + r.size - 1) : r \in Range(mach.ram)}
AlignBelow(a) == a - (a % XPage)
AlignAbove(a) == AlignBelow(a + XPage - 1)

(* The entry code has cleared .bss. *)
Init ==
  /\ mach \in Machines
  /\ pc = "master_early_init"
  /\ space = IF Mips THEN "high" ELSE "low"
  /\ queue = <<>> /\ memTop = 0 /\ kmmapTop = 0
  /\ mmuHandlers = <<>> /\ jumpHandlers = <<>>
  /\ index = <<>> /\ mmu = FALSE
  /\ console = "none" /\ bus = "none" /\ uart = [bus |-> "none", base |-> 0, mapped |-> 0]
  /\ pool = {} /\ caching = FALSE /\ devices = FALSE
  /\ fault = "none"

-------------------------------------------------------------------------------
(* What the processor can reach. *)
Maps(va, pa) == IF mmu THEN va \in DOMAIN index /\ index[va] = pa ELSE va = pa
LowAlive == Mips \/ Maps(HIGHMEM_BASE, HIGHMEM_BASE)
HighAlive == Mips \/ (mmu /\ Maps(KERN_BASE + HIGHMEM_BASE, HIGHMEM_BASE))
Alive(where) == IF where = "low" THEN LowAlive ELSE HighAlive

(* The console's function pointer is converted to the current address space before
   the call; there is one after early_console_init(). *)
__get_kputs == console # "none"

(* The pointer to the bus in the UART is not converted: the bus functions compare
   it with the address of the bus as they see it, and answer NULL when the two
   differ. *)
__get_write_fp == bus # "none" /\ Alive(bus) /\ uart.bus = bus

(* Ports and the devices of MIPS are where they are whatever the mapping. *)
__uart_putchar == mach.plat = "zynq" => Maps(uart.base, UartPhys)

(* A message gets out. *)
Printable == __get_kputs /\ __get_write_fp /\ __uart_putchar

At(here) == fault = "none" /\ pc = here
Goto(there) == pc' = there

-------------------------------------------------------------------------------
(* Mutant: one entry more than the array has. *)
HasRoomOneMore(q) == Len(q) <= QueueLength

HasRoom(q) == Len(q) < QueueLength

Mapping(pa, va, n, t) == [paddr |-> pa, vaddr |-> va, size |-> n, type |-> t]
early_mapping_add(q, m) == IF HasRoom(q) THEN Append(q, m) ELSE q

(* An entry for memory ends before KMMAP_BASE. *)
early_mapping_add_memory(q, top, base, size) ==
  early_mapping_add(q, Mapping(base, top, Min({size, KMMAP_BASE - top}), "memory"))

(* An entry of the kmmap area, and the address answered for it: EOF is -1, no room
   in the queue is 0. *)
early_mapping_add_kmmap(base, size) ==
  IF kmmapTop >= RESERVED_BASE THEN queue
  ELSE early_mapping_add(queue, Mapping(base, kmmapTop, size, "kmmap"))
KmmapAddress ==
  CASE kmmapTop >= RESERVED_BASE -> -1
    [] ~HasRoom(queue) -> 0
    [] OTHER -> kmmapTop

(* The memory of ARM twice, at its own addresses and at KERN_BASE. *)
ArmQueue ==
  LET r == mach.ram[1]
  IN  early_mapping_add_memory(
        early_mapping_add(queue, Mapping(r.start, r.start, r.size, "temp")),
        memTop, r.start, r.size)

(* i386: two entries for every range of RAM, rounded to large pages; the end is
   computed from the rounded start and the size.  The loop ends with the range
   that reaches KMMAP_BASE.  Entries that find the queue full are dropped. *)
probe_memory ==
  LET Va(r)   == KERN_BASE + AlignBelow(r.start)
      End(r)  == AlignAbove(Va(r) + r.size)
      Size(r) == Min({KMMAP_BASE, End(r)}) - Va(r)
      stops   == {i \in 1 .. Len(mach.ram) : End(mach.ram[i]) > KMMAP_BASE}
      last    == Min(stops \cup {Len(mach.ram)})
      Entry(i) == LET r == mach.ram[(i + 1) \div 2]
                  IN  Mapping(AlignBelow(r.start),
                              IF i % 2 = 1 THEN Va(r) ELSE AlignBelow(r.start), Size(r), "memory")
      wanted  == [i \in 1 .. 2 * last |-> Entry(i)]
      fit     == {i \in 1 .. 2 * last : HasRoom(queue \o SubSeq(wanted, 1, i - 1))}
  IN  queue \o SubSeq(wanted, 1, Cardinality(fit))

(* Clears the mapping queue and the MMU handlers, and not the jump handlers. *)
early_mapping_clear ==
  /\ At("master_early_init")
  /\ queue' = <<>> /\ memTop' = KERN_BASE /\ kmmapTop' = KMMAP_BASE
  /\ mmuHandlers' = <<>>
  /\ Goto("early_arch_init")
  /\ UNCHANGED <<mach, space, jumpHandlers, index, mmu, devs, pool, caching, devices, fault>>

(* Mutant: the bus registers no handler. *)
BusHandlerNone(q) == q

BusHandler(q) == Append(q, "bus")

(* The bus gets its functions; then the mappings. *)
EarlyArch(plats, q, top) ==
  /\ At("early_arch_init") /\ mach.plat \in plats
  /\ bus' = space
  /\ jumpHandlers' = BusHandler(jumpHandlers)
  /\ queue' = q
  /\ memTop' = top
  /\ Goto("early_console_init")
  /\ UNCHANGED <<mach, space, kmmapTop, mmuHandlers, index, mmu, console, uart, pool,
                 caching, devices, fault>>

early_arch_initArm ==
  EarlyArch({"zynq"}, ArmQueue,
            IF Len(ArmQueue) = Len(queue) + 2 THEN memTop + Last(ArmQueue).size ELSE memTop)
early_arch_initI386 == EarlyArch({"i386"}, probe_memory, memTop)
early_arch_initMips == EarlyArch({"loongson", "msim"}, queue, memTop)

(* The UART is initialised through its bus, becomes the console and registers its
   handlers. *)
EarlyConsole(base, mapped) ==
  /\ At("early_console_init")
  /\ uart' = [bus |-> space, base |-> base, mapped |-> mapped]
  /\ console' = space
  /\ mmuHandlers' = Append(mmuHandlers, "uart")
  /\ jumpHandlers' = Append(jumpHandlers, "uart")
  /\ Goto("hello")
  /\ UNCHANGED <<mach, space, memTop, index, mmu, bus, pool, caching, devices>>

(* The UART of Zynq needs a mapping, and panics when the queue has no room. *)
early_console_initZynq ==
  /\ mach.plat = "zynq"
  /\ EarlyConsole(UartPhys, KmmapAddress)
  /\ queue' = early_mapping_add_kmmap(UartPhys, 1)
  /\ kmmapTop' = kmmapTop + (Len(queue') - Len(queue))
  /\ fault' = IF KmmapAddress = 0 THEN "panic" ELSE "none"

early_console_initNs16550 ==
  /\ mach.plat \in {"i386", "loongson"}
  /\ EarlyConsole(0, 0)
  /\ UNCHANGED <<queue, kmmapTop, fault>>

early_console_initMsim ==
  /\ mach.plat = "msim"
  /\ EarlyConsole(0, 0)
  /\ UNCHANGED <<queue, kmmapTop, fault>>

(* kputs(), kprintf(): to the step there. *)
Say(here, there) ==
  /\ At(here)
  /\ Goto(there)
  /\ fault' = IF Printable THEN "none" ELSE "console"
  /\ UNCHANGED <<mach, space, queues, index, mmu, devs, pool, caching, devices>>

(* What an entry maps.  On i386 an unaligned entry ends page_index_init(). *)
page_index_early_map(m) ==
  [va \in m.vaddr .. (m.vaddr + m.size - 1) |-> m.paddr + va - m.vaddr]
Refused(m) == mach.plat = "i386" /\ \E a \in {m.paddr, m.vaddr, m.size} : a % XPage # 0

(* The entries in order, a later one replacing what an earlier one mapped. *)
page_index_init ==
  LET last == Min({i \in 1 .. Len(queue) : Refused(queue[i])} \cup {Len(queue) + 1}) - 1
      Map(i) == page_index_early_map(queue[i])
      Mapped(va) == {i \in 1 .. last : va \in DOMAIN Map(i)}
  IN  [va \in UNION {DOMAIN Map(i) : i \in 1 .. last} |-> Map(Max(Mapped(va)))[va]]

(* early_mm_init() up to mmu_init().  The next instruction is at a low address. *)
mmu_init ==
  /\ At("mmu_init")
  /\ mmu' = ~Mips
  /\ index' = IF Mips THEN <<>> ELSE page_index_init
  /\ Goto("mmu_handlers_apply")
  /\ UNCHANGED <<mach, space, queues, devs, pool, caching, devices>>
  /\ fault' = IF LowAlive' THEN "none" ELSE "fetch"

(* Mutant: the UART's handler leaves the base alone. *)
BaseAfterMmuPhys(u) == u.base

(* Only Zynq's UART moves, to its mapping. *)
BaseAfterMmu(u) == IF mach.plat = "zynq" THEN u.mapped ELSE u.base

mmu_handlers_apply ==
  /\ At("mmu_handlers_apply")
  /\ uart' = IF "uart" \in Range(mmuHandlers)
             THEN [uart EXCEPT !.base = BaseAfterMmu(uart)] ELSE uart
  /\ Goto("MMU is now on")
  /\ UNCHANGED <<mach, space, queues, index, mmu, console, bus, pool, caching, devices, fault>>

abs_jump ==
  /\ At("abs_jump")
  /\ space' = "high"
  /\ fault' = IF HighAlive THEN "none" ELSE "fetch"
  /\ Goto("jump_handlers_apply")
  /\ UNCHANGED <<mach, queues, index, mmu, devs, pool, caching, devices>>

(* The handlers of the bus and of the UART replace their low pointers. *)
jump_handlers_apply ==
  /\ At("jump_handlers_apply")
  /\ bus' = IF "bus" \in Range(jumpHandlers) THEN space ELSE bus
  /\ uart' = IF "uart" \in Range(jumpHandlers) THEN [uart EXCEPT !.bus = space] ELSE uart
  /\ console' = IF "uart" \in Range(jumpHandlers) THEN space ELSE console
  /\ Goto("in high address")
  /\ UNCHANGED <<mach, space, queues, index, mmu, pool, caching, devices, fault>>

-------------------------------------------------------------------------------
(* Mutant: the range that holds the kernel is given away whole. *)
ReservedNot(r) == r.start .. (r.start + r.size - 1)

(* A range of RAM of i386, from the end of the kernel if that is in it. *)
Reserved(r) ==
  LET end == r.start + r.size
  IN  IF KernEnd >= r.start /\ KernEnd < end THEN KernEnd .. (end - 1)
      ELSE r.start .. (end - 1)

(* i386 takes high memory only; the others have one range, with the kernel in it. *)
PoolI386 == UNION {Reserved(r) : r \in {q \in Range(mach.ram) : q.start >= HIGHMEM_BASE}}
PoolOneRange == KernEnd .. (mach.ram[1].start + mach.ram[1].size - 1)

(* arch_init(), the bootstrap allocator, the page allocator, add_memory_pages(),
   the allocators moved, trap_init(). *)
add_memory_pages ==
  /\ At("arch_init")
  /\ pool' = IF mach.plat = "i386" THEN PoolI386 ELSE PoolOneRange
  /\ Goto("Pages added")
  /\ UNCHANGED <<mach, space, queues, index, mmu, devs, caching, devices, fault>>

(* Mutant: the caching allocator registers for the later initcalls. *)
EarlyInitcallsNone == FALSE

(* <slab> is the early initcall. *)
EarlyInitcalls == TRUE

do_early_initcalls ==
  /\ At("do_early_initcalls")
  /\ caching' = EarlyInitcalls
  /\ Goto("mm_init")
  /\ UNCHANGED <<mach, space, queues, index, mmu, devs, pool, devices, fault>>

(* ARM creates caches for its page tables and asserts success, which the dummy
   caching allocator does not give.  mm_test() then needs memory. *)
mm_init ==
  /\ At("mm_init")
  /\ fault' = IF (mach.plat = "zynq" /\ ~caching) \/ pool = {} THEN "assertion" ELSE "none"
  /\ Goto("mm_test")
  /\ UNCHANGED <<mach, space, queues, index, mmu, devs, pool, caching, devices>>

(* By stages: <devlist>, of the core, before the drivers. *)
do_initcalls ==
  /\ At("do_initcalls")
  /\ devices' = TRUE
  /\ Goto("Test done")
  /\ UNCHANGED <<mach, space, queues, index, mmu, devs, pool, caching, fault>>

Next ==
  \/ early_mapping_clear
  \/ early_arch_initArm \/ early_arch_initI386 \/ early_arch_initMips
  \/ early_console_initZynq \/ early_console_initNs16550 \/ early_console_initMsim
  \/ Say("hello", "mmu_init") \/ mmu_init \/ mmu_handlers_apply
  \/ Say("MMU is now on", "abs_jump") \/ abs_jump \/ jump_handlers_apply
  \/ Say("in high address", "arch_init") \/ add_memory_pages
  \/ Say("Pages added", "do_early_initcalls") \/ do_early_initcalls
  \/ mm_init \/ Say("mm_test", "do_initcalls") \/ do_initcalls
  \/ Say("Test done", "halted")

Spec == Init /\ [][Next]_vars
FairSpec == Spec /\ WF_vars(Next)

-------------------------------------------------------------------------------
(* Types of the variables; the queue fits its array. *)
TypeOK ==
  /\ space \in {"low", "high"} /\ mmu \in BOOLEAN /\ caching \in BOOLEAN /\ devices \in BOOLEAN
  /\ {console, bus, uart.bus} \subseteq {"none", "low", "high"}
  /\ Len(queue) <= QueueLength
  /\ pool \subseteq Nat

(* Every message gets out and every instruction is fetched: through the MMU being
   turned on, the jump and both sets of handlers, no pointer is used in a state of
   the address space in which it means nothing, and no assertion fails. *)
BootSafe == fault = "none"

(* All memory given to the page allocator is RAM outside the kernel, and the heap
   and the page tables can reach it where pa2kva() says it is. *)
PoolMapped ==
  /\ pool \subseteq Ram \ (HIGHMEM_BASE .. (KernEnd - 1))
  /\ ~Mips => \A pa \in pool : Maps(KERN_BASE + pa, pa)

(* Once the jump handlers have run, no low pointer is left in the console, the
   UART or the bus: from then on output does not depend on the temporary mapping
   of the low addresses. *)
LowPointersGone ==
  pc \in {"in high address", "arch_init", "Pages added", "do_early_initcalls", "mm_init",
          "mm_test", "do_initcalls", "Test done", "halted"} =>
    {console, bus, uart.bus} = {"high"}

(* The master processor gets to the end of master_init(), as far as the address
   space, the console and the order of initialisation go. *)
BootCompletes == <>(pc = "halted" /\ fault = "none")
===============================================================================
