-------------------------------- MODULE Traps -------------------------------
(* Exceptions taken in kernel mode: vector.S and trap.c of ARMv7-A, vectors  *)
(* and trapentry.S of i386, trapentry.S and tlbex.S of MIPS.  A register     *)
(* holds an opaque value that names it and the flow of control it belongs    *)
(* to; only the program counter of ARM is a number, as the entries correct   *)
(* it.  Nothing runs in user mode yet.                                       *)
EXTENDS Integers, Sequences, SequencesExt

CONSTANTS
  Arches,   \* subset of {"armv7a", "i386", "mips"}
  Irqs,     \* whether ARM takes interrupts: the kernel runs with them masked
  Vectors,  \* i386: the interrupt numbers that may occur, below 256
  Depth,    \* most flows of control: the first one and nested handlers
  Steps     \* ARM: most instructions that a flow skips or completes by trapping

VARIABLES
  arch,
  ready,   \* trap_init has run
  cpu,     \* the registers of the running flow
  store,   \* ARM: the struct regs at the stack pointer of each mode
  nest,    \* the exceptions being handled, innermost last
  im,      \* MIPS: the interrupt mask in the status register
  end      \* "", or why the CPU stopped
trapvars == <<arch, ready, cpu, store, nest, im, end>>

-----------------------------------------------------------------------------
(* Registers, in the order in which each architecture pushes them.           *)
Arm == <<"pc", "r12", "r11", "r10", "r9", "r8", "r7", "r6", "r5", "r4", "r3",
         "r2", "r1", "r0", "psr", "lr", "sp">>

\* struct regs of armv7a/regs.h, lowest address first.
ArmStruct == <<"sp", "lr", "psr", "r0", "r1", "r2", "r3", "r4", "r5", "r6", "r7",
               "r8", "r9", "r10", "r11", "r12", "pc">>

\* The processor's part, the stub's part, and trapentry with PUSHAL.
I386Push(n) ==
  <<"eflags", "cs", "eip">>
  \o (IF n = 8 \/ n \in 10 .. 14 \/ n = 17 THEN <<"err">> ELSE <<"0">>) \o <<"trapno">>
  \o <<"ds", "es", "fs", "gs", "eax", "ecx", "edx", "ebx", "oesp", "ebp", "esi", "edi">>

\* struct trapframe of i386/regs.h, as far as an exception in the kernel fills it.
TrapFrame == <<"edi", "esi", "ebp", "oesp", "ebx", "edx", "ecx", "eax", "gs", "fs",
               "es", "ds", "trapno", "err", "eip", "cs", "eflags">>

\* PUSHCOPR, the single PUSHes, and PUSHAL with its three parts.
MipsPush ==
  <<"badvaddr", "epc", "cause", "status", "hi", "lo">>
  \o <<"ra", "s8", "sp", "gp", "k1", "k0", "t9", "t8">>
  \o <<"s7", "s6", "s5", "s4", "s3", "s2", "s1", "s0">>
  \o <<"t7", "t6", "t5", "t4", "t3", "t2", "t1", "t0">>
  \o <<"a3", "a2", "a1", "a0", "v1", "v0", "at", "zero">>

\* struct regs of mips/regs.h; gpr[] by the numbers of mipsregs.h.
MipsStruct ==
  <<"zero", "at", "v0", "v1", "a0", "a1", "a2", "a3",
    "t0", "t1", "t2", "t3", "t4", "t5", "t6", "t7",
    "s0", "s1", "s2", "s3", "s4", "s5", "s6", "s7",
    "t8", "t9", "k0", "k1", "gp", "sp", "s8", "ra",
    "lo", "hi", "status", "cause", "epc", "badvaddr">>

\* Mutant: trap_exit takes s8 and ra in the wrong order.
MipsPopSwapped ==
  <<"at", "at", "v0", "v1", "a0", "a1", "a2", "a3">>
  \o SubSeq(MipsStruct, 9, 28) \o <<"gp", "sp", "ra", "s8", "lo", "hi", "status", "cause", "epc">>

\* POPAL, which drops the stored zero, the single POPs, and POPCOPR, which
\* drops badvaddr.
MipsPop ==
  <<"at", "at", "v0", "v1", "a0", "a1", "a2", "a3">>
  \o SubSeq(MipsStruct, 9, 28) \o <<"gp", "sp", "s8", "ra", "lo", "hi", "status", "cause", "epc">>

Struct == CASE arch = "armv7a" -> ArmStruct
            [] arch = "i386" -> TrapFrame
            [] OTHER -> MipsStruct

\* The registers of a flow of control in the kernel.
Flow(n) == [r \in Range(Struct) |-> IF r = "pc" THEN 100 * n
                                    ELSE IF r = "status" THEN <<r, n, im>> ELSE <<r, n>>]

\* A frame is the pushed values; the C code sees it from its lowest address.
Frame(push, regs) == [i \in 1 .. Len(push) |-> regs[push[i]]]
Seen(frame, r) == Reverse(frame)[CHOOSE i \in 1 .. Len(Struct) : Struct[i] = r]

TrapsInit == /\ arch \in Arches /\ ready = {} /\ im \in {0, 1}
             /\ cpu = Flow(0) /\ store = <<>> /\ nest = <<>> /\ end = ""

Running == end = ""

-----------------------------------------------------------------------------
(* ARMv7-A.                                                                  *)
Types == {"undef", "svc", "pref_abt", "data_abt"} \cup IF Irqs THEN {"irq"} ELSE {}

ModeOf(t) == CASE t = "undef" -> "UND" [] t = "svc" -> "SVC"
               [] t = "irq" -> "IRQ" [] OTHER -> "ABT"

\* The mode that a psr_c value selects.
Mode(psr_c) == CASE psr_c = 209 -> "FIQ" [] psr_c = 210 -> "IRQ" [] psr_c = 211 -> "SVC"
                 [] psr_c = 215 -> "ABT" [] psr_c = 219 -> "UND"

\* The four calls of arm_init_mode, with 0xD1, 0xD3, 0xD7 and 0xDB: each gives
\* the mode a struct regs of its own and leaves its stack pointer at the end.
\* On the other machines: the IDT, or the code copied to the two entries.
trap_init ==
  /\ Running /\ ready = {}
  /\ ready' = IF arch = "armv7a" THEN {Mode(209), Mode(211), Mode(215), Mode(219)}
              ELSE {"vectors"}
  /\ UNCHANGED <<arch, cpu, store, nest, im, end>>

\* What the processor leaves in the mode's LR, relative to the instruction:
\* the one that trapped, or for an interrupt the next to be executed.
LinkOffset(t) == IF t = "data_abt" THEN 8 ELSE 4

\* Mutant: the data abort entry corrects LR as if it were a prefetch abort.
AdjustSame(t) == CASE t \in {"pref_abt", "data_abt"} -> 4 [] OTHER -> 0

\* What the entries in vector.S subtract from it.
Adjust(t) == CASE t = "pref_abt" -> 4 [] t = "data_abt" -> 8 [] OTHER -> 0

\* Where the interrupted flow goes on, by the comments at the entries: a
\* trapping instruction is "SKIPPED" or "DONE", an aborted one "NOT RAN".
ResumeAt(t, pc) == IF t \in {"undef", "svc"} THEN pc + 4 ELSE pc

\* An exception in mode m overwrites the storage of m.  The handler must have
\* copied it before another one of the same mode; the present handler does not
\* copy it, so this model has it cause only exceptions of other modes.
ArmTrap(t) ==
  LET m      == ModeOf(t)
      pushed == [cpu EXCEPT !["pc"] = @ + LinkOffset(t) - Adjust(t)]
      want   == [cpu EXCEPT !["pc"] = ResumeAt(t, @)]
  IN  /\ Running /\ arch = "armv7a" /\ ready # {}
      /\ Len(nest) + 1 < Depth
      /\ cpu["pc"] < 100 * Len(nest) + 4 * Steps
      /\ m \notin {ModeOf(nest[i].type) : i \in 1 .. Len(nest)}
      /\ IF m \in ready
         THEN /\ store' = [x \in DOMAIN store \cup {m} |->
                             IF x = m THEN Frame(Arm, pushed) ELSE store[x]]
              /\ nest' = Append(nest, [type |-> t, want |-> want, frame |-> <<>>])
              /\ cpu' = Flow(Len(nest) + 1)
              /\ UNCHANGED end
         ELSE end' = "no stack" /\ UNCHANGED <<store, nest, cpu>>
      /\ UNCHANGED <<arch, ready, im>>

\* The frame that the innermost handler was given.
Given == IF arch = "armv7a" THEN store[ModeOf(Last(nest).type)] ELSE Last(nest).frame

\* arm_handle_trap prints the registers and calls trap_return, which loads
\* every register from the storage.
ArmReturn ==
  /\ Running /\ arch = "armv7a" /\ nest # <<>>
  /\ cpu' = [r \in DOMAIN cpu |-> Seen(Given, r)]
  /\ nest' = Front(nest)
  /\ UNCHANGED <<arch, ready, store, im, end>>

-----------------------------------------------------------------------------
(* i386 and MIPS: the frame is on the kernel stack.                          *)
Push(t, want, frame) ==
  /\ nest' = Append(nest, [type |-> t, want |-> want, frame |-> frame])
  /\ cpu' = Flow(Len(nest) + 1)
  /\ UNCHANGED <<arch, ready, store, im, end>>

CanTrap(a) == Running /\ arch = a /\ ready # {} /\ Len(nest) + 1 < Depth

I386Trap(n) ==
  /\ CanTrap("i386")
  /\ LET regs == [r \in Range(I386Push(n)) |->
                    CASE r = "trapno" -> <<"number", n>> [] r = "0" -> <<"number", 0>> [] OTHER -> cpu[r]]
     IN  Push("interrupt", [cpu EXCEPT !["trapno"] = <<"number", n>>], Frame(I386Push(n), regs))

\* By way of the refill entry the general one is reached with "jalr k0", which
\* leaves its own return address in ra.  k0 and k1 are the handler's own.
MipsTrap(refill) ==
  /\ CanTrap("mips")
  /\ LET regs == [cpu EXCEPT !["ra"] = IF refill THEN "tlbex" ELSE @]
     IN  Push(IF refill THEN "refill" ELSE "general", cpu, Frame(MipsPush, regs))

\* trap_handler of both: print the frame and panic.
HandlerPanics ==
  /\ Running /\ arch \in {"i386", "mips"} /\ nest # <<>>
  /\ end' = "panic"
  /\ UNCHANGED <<arch, ready, cpu, store, nest, im>>

\* A driver changes the interrupt mask while a trap is handled.
SetMask ==
  /\ Running /\ arch = "mips" /\ nest # <<>>
  /\ im' = 1 - im
  /\ UNCHANGED <<arch, ready, cpu, store, nest, end>>

\* MIPS trap_return, for whoever leaves a trap by it: the present mask goes
\* into the frame, then trap_exit pops the registers.
MipsReturn ==
  /\ Running /\ arch = "mips" /\ nest # <<>>
  /\ LET up == Reverse(Given)
         Value(i) == IF MipsPop[i] = "status" THEN <<up[i][1], up[i][2], im>> ELSE up[i]
     IN  cpu' = [r \in DOMAIN cpu |->
                   LET at == {i \in 1 .. Len(MipsPop) : MipsPop[i] = r}
                   IN  IF at = {} THEN cpu[r] ELSE Value(CHOOSE i \in at : \A j \in at : j <= i)]
  /\ nest' = Front(nest)
  /\ UNCHANGED <<arch, ready, store, im, end>>

TrapsNext ==
  \/ trap_init
  \/ \E t \in Types : ArmTrap(t)
  \/ ArmReturn
  \/ \E n \in Vectors : I386Trap(n)
  \/ \E refill \in BOOLEAN : MipsTrap(refill)
  \/ HandlerPanics \/ SetMask \/ MipsReturn

Spec == TrapsInit /\ [][TrapsNext]_trapvars

-----------------------------------------------------------------------------
\* Registers whose stored value the kernel does not claim to be the old one.
Own(t) == {"k0", "k1"} \cup (IF t = "refill" THEN {"ra"} ELSE {})
          \cup IF arch = "i386" THEN {"err"} ELSE {}

\* While an exception is handled, the struct given to the C handler describes
\* the interrupted flow field by field, with the program counter where it is to
\* go on and the right interrupt number, also after nested exceptions came and
\* went.  (Except ra after a failed TLB refill.)
FrameTrue ==
  Running /\ nest # <<>> =>
    \A r \in Range(Struct) \ Own(Last(nest).type) :
      Seen(Given, r) = Last(nest).want[r]

\* Leaving a trap puts back every register of the interrupted flow; the MIPS
\* status register keeps the interrupt mask of the moment.
ContextRestored ==
  [][ nest # <<>> /\ nest' = Front(nest) =>
        \A r \in DOMAIN cpu \ (Own(Last(nest).type) \cup {"zero", "badvaddr"}) :
          cpu'[r] = IF r = "status" THEN <<Last(nest).want[r][1], Last(nest).want[r][2], im>>
                    ELSE Last(nest).want[r] ]_trapvars
=============================================================================
