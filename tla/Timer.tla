---------------------------------- MODULE Timer ----------------------------------
(***************************************************************************)
(* The global timer of Zynq, drivers/timer/timer-a9.c: a counter that is   *)
(* read half by half while it runs, and sleep() and usleep() of the        *)
(* firmware, which wait on it.  Each read of a register is a step.  A half *)
(* counts to Half - 1; the counter stops at Bound so that there is an end. *)
(***************************************************************************)
EXTENDS Integers

CONSTANTS
  Half,      \* 2^32
  Bound,     \* the last value of the counter
  Delays     \* the ticks asked for: gt_get_tps() * s or gt_get_tpus() * us

VARIABLES
  counter,
  cpu        \* the sleep() in progress

vars == <<counter, cpu>>

Awake == [at |-> "awake", hi |-> 0, lo |-> 0, called |-> 0, delay |-> 0, until |-> 0]

Init == counter \in 0 .. Bound /\ cpu = Awake

Tick == counter < Bound /\ counter' = counter + 1 /\ UNCHANGED cpu

(* called is when the timer_read() at work was called, and until what the first one
   and the delay make; until = 0 means that the first one is at work. *)
sleep(d) ==
  /\ cpu.at = "awake" /\ counter + d < Bound
  /\ cpu' = [Awake EXCEPT !.at = "hi", !.called = counter, !.delay = d]
  /\ UNCHANGED counter

ReadHi ==
  /\ cpu.at = "hi"
  /\ cpu' = [cpu EXCEPT !.at = "lo", !.hi = counter \div Half]
  /\ UNCHANGED counter

ReadLo ==
  /\ cpu.at = "lo"
  /\ cpu' = [cpu EXCEPT !.at = "tmp", !.lo = counter % Half]
  /\ UNCHANGED counter

(* Mutant: the high half is not read again. *)
gt_readOnce == TRUE

gt_read == counter \div Half = cpu.hi

ReadAgain ==
  /\ cpu.at = "tmp" /\ ~gt_read
  /\ cpu' = [cpu EXCEPT !.at = "hi"]
  /\ UNCHANGED counter

(* timer_read() returns: the first one starts the wait, another may end it. *)
Time == cpu.hi * Half + cpu.lo

Return ==
  /\ cpu.at = "tmp" /\ gt_read
  /\ cpu' = IF cpu.until # 0 /\ Time >= cpu.until THEN Awake
            ELSE [cpu EXCEPT !.at = "hi", !.called = counter,
                             !.until = IF @ = 0 THEN Time + cpu.delay ELSE @]
  /\ UNCHANGED counter

Cpu == ReadHi \/ ReadLo \/ ReadAgain \/ Return
Next == Tick \/ (\E d \in Delays : sleep(d)) \/ Cpu

Spec == Init /\ [][Next]_vars

-------------------------------------------------------------------------------
(* A time that timer_read() returns is one that the counter had between the call
   and the return: the halves belong together although they are read apart, so
   that sleep() neither ends early nor waits for a time far ahead. *)
TimeNotTorn == cpu.at = "tmp" /\ gt_read => Time \in cpu.called .. counter

===============================================================================
