------------------------------ MODULE TimerProofs ------------------------------
(***************************************************************************)
(* Proofs about Timer, for halves of any size.                             *)
(***************************************************************************)
EXTENDS Timer, TLAPS

TypeOK ==
  /\ counter \in Nat
  /\ cpu \in [at : {"awake", "hi", "lo", "tmp"}, hi : Nat, lo : Nat, called : Nat,
              delay : Nat, until : Nat]

(* What the registers hold, in terms of when they were read: the high half at some
   time x since the call, and the low half at some y since x. *)
HalvesTrue ==
  /\ cpu.at # "awake" => cpu.called <= counter
  /\ cpu.at \in {"lo", "tmp"} =>
       \E x \in cpu.called .. counter :
         /\ cpu.hi = x \div Half
         /\ cpu.at = "tmp" => \E y \in x .. counter : cpu.lo = y % Half

ReadInv == TypeOK /\ HalvesTrue

(* A counter that has the same high half at two times has it in between. *)
LEMMA HighHalfBetween ==
  ASSUME NEW H \in Nat \ {0}, NEW x \in Nat, NEW y \in Nat, NEW z \in Nat,
         x <= y, y <= z, x \div H = z \div H
  PROVE  y = (x \div H) * H + (y % H)
<1> DEFINE q(n) == n \div H
<1>1. \A n \in Nat : q(n) \in Nat /\ q(n) * H <= n /\ n < (q(n) + 1) * H /\ n = q(n) * H + (n % H)
  OBVIOUS
<1>2. q(x) <= q(y)
  <2> SUFFICES ASSUME q(y) + 1 <= q(x) PROVE FALSE
    BY <1>1
  <2>1. (q(y) + 1) * H <= q(x) * H
    BY <1>1
  <2> QED
    BY <1>1, <2>1
<1>3. q(y) <= q(z)
  <2> SUFFICES ASSUME q(z) + 1 <= q(y) PROVE FALSE
    BY <1>1
  <2>1. (q(z) + 1) * H <= q(y) * H
    BY <1>1
  <2> QED
    BY <1>1, <2>1
<1> QED
  BY <1>1, <1>2, <1>3

(* Each step keeps the types and what the registers hold. *)
LEMMA ReadStep ==
  ASSUME Half \in Nat \ {0}, Delays \subseteq Nat, ReadInv, [Next]_vars
  PROVE  ReadInv'
<1>0. \A n \in Nat : n \div Half \in Nat /\ n % Half \in Nat
  OBVIOUS
<1>1. CASE Tick
  <2>1. counter \in Nat /\ counter' = counter + 1 /\ cpu' = cpu
    BY <1>1 DEF Tick, ReadInv, TypeOK
  <2>2. TypeOK'
    BY <2>1 DEF ReadInv, TypeOK
  <2>3. cpu.called \in Nat /\ (cpu.at # "awake" => cpu.called <= counter')
    BY <2>1 DEF ReadInv, TypeOK, HalvesTrue
  <2>4. ASSUME cpu.at \in {"lo", "tmp"}
        PROVE  \E x \in cpu.called .. counter' :
                 /\ cpu.hi = x \div Half
                 /\ cpu.at = "tmp" => \E y \in x .. counter' : cpu.lo = y % Half
    <3>1. PICK x \in cpu.called .. counter :
                 /\ cpu.hi = x \div Half
                 /\ cpu.at = "tmp" => \E y \in x .. counter : cpu.lo = y % Half
      BY <2>4 DEF ReadInv, HalvesTrue
    <3>2. x \in cpu.called .. counter' /\ x .. counter \subseteq x .. counter'
      BY <2>1, <2>3
    <3> QED
      BY <3>1, <3>2
  <2>5. HalvesTrue'
    BY <2>1, <2>3, <2>4 DEF HalvesTrue
  <2> QED
    BY <2>2, <2>5 DEF ReadInv
<1>2. ASSUME NEW d \in Delays, sleep(d) PROVE ReadInv'
  <2>1. d \in Nat
    OBVIOUS
  <2>2. cpu' = [at |-> "hi", hi |-> 0, lo |-> 0, called |-> counter, delay |-> d, until |-> 0]
    BY <1>2 DEF sleep, Awake
  <2> QED
    BY <1>2, <2>1, <2>2 DEF sleep, ReadInv, TypeOK, HalvesTrue
<1>3. CASE ReadHi
  <2>1. /\ counter \in Nat /\ counter' = counter
        /\ cpu' = [cpu EXCEPT !.at = "lo", !.hi = counter \div Half]
    BY <1>3 DEF ReadHi, ReadInv, TypeOK
  <2>2. TypeOK'
    BY <1>0, <2>1 DEF ReadInv, TypeOK
  <2>3. cpu'.at = "lo" /\ cpu'.hi = counter \div Half /\ cpu'.called = cpu.called
    BY <2>1 DEF ReadInv, TypeOK
  <2>4. cpu.called \in Nat /\ cpu.called <= counter
    BY <1>3 DEF ReadHi, ReadInv, TypeOK, HalvesTrue
  <2>5. HalvesTrue'
    BY <2>1, <2>3, <2>4 DEF HalvesTrue
  <2> QED
    BY <2>2, <2>5 DEF ReadInv
<1>4. CASE ReadLo
  <2>1. PICK x \in cpu.called .. counter : cpu.hi = x \div Half
    BY <1>4 DEF ReadLo, ReadInv, HalvesTrue
  <2>2. /\ counter \in Nat /\ counter' = counter
        /\ cpu' = [cpu EXCEPT !.at = "tmp", !.lo = counter % Half]
    BY <1>4 DEF ReadLo, ReadInv, TypeOK
  <2>3. TypeOK'
    BY <1>0, <2>2 DEF ReadInv, TypeOK
  <2>4. /\ cpu'.at = "tmp" /\ cpu'.hi = cpu.hi /\ cpu'.lo = counter % Half
        /\ cpu'.called = cpu.called
    BY <2>2 DEF ReadInv, TypeOK
  <2>5. cpu.called \in Nat /\ cpu.called <= counter /\ counter \in x .. counter
    BY <2>1, <2>2 DEF ReadInv, TypeOK
  <2>6. HalvesTrue'
    BY <2>1, <2>2, <2>4, <2>5 DEF HalvesTrue
  <2> QED
    BY <2>3, <2>6 DEF ReadInv
<1>5. CASE ReadAgain
  BY <1>5 DEF ReadAgain, ReadInv, TypeOK, HalvesTrue
<1>6. CASE Return
  <2>1. Time \in Nat /\ Time + cpu.delay \in Nat
    BY DEF Time, ReadInv, TypeOK
  <2>2. CASE cpu' = Awake
    BY <1>6, <2>2 DEF Return, Awake, ReadInv, TypeOK, HalvesTrue
  <2>3. CASE cpu' = [cpu EXCEPT !.at = "hi", !.called = counter,
                                !.until = IF @ = 0 THEN Time + cpu.delay ELSE @]
    <3>1. TypeOK'
      BY <1>6, <2>1, <2>3 DEF Return, ReadInv, TypeOK
    <3>2. cpu'.at = "hi" /\ cpu'.called = counter /\ counter' = counter
      BY <1>6, <2>3 DEF Return, ReadInv, TypeOK
    <3> QED
      BY <3>1, <3>2 DEF ReadInv, TypeOK, HalvesTrue
  <2> QED
    BY <1>6, <2>2, <2>3 DEF Return
<1>7. CASE UNCHANGED vars
  BY <1>7 DEF vars, ReadInv, TypeOK, HalvesTrue
<1> QED
  BY <1>1, <1>2, <1>3, <1>4, <1>5, <1>6, <1>7 DEF Next, Cpu

(* If the high half is the same again, the low half belongs to it. *)
LEMMA HalvesMatch ==
  ASSUME Half \in Nat \ {0}, ReadInv
  PROVE  TimeNotTorn
<1> SUFFICES ASSUME cpu.at = "tmp", gt_read PROVE Time \in cpu.called .. counter
  BY DEF TimeNotTorn
<1>0. PICK x \in cpu.called .. counter :
        cpu.hi = x \div Half /\ \E y \in x .. counter : cpu.lo = y % Half
  BY DEF ReadInv, HalvesTrue
<1>1. PICK y \in x .. counter : cpu.lo = y % Half
  BY <1>0
<1>2. x \div Half = counter \div Half
  BY <1>0 DEF gt_read
<1>3. counter \in Nat /\ x \in Nat /\ y \in Nat /\ x <= y /\ y <= counter /\ cpu.called <= y
  BY <1>0, <1>1 DEF ReadInv, TypeOK
<1>4. y = (x \div Half) * Half + (y % Half)
  BY <1>2, <1>3, HighHalfBetween
<1>5. Time = y
  BY <1>0, <1>1, <1>4 DEF Time
<1> QED
  BY <1>3, <1>5 DEF ReadInv, TypeOK

(* gt_read() of timer-a9.c: a time that it returns is one that the counter had
   between the call and the return, wherever the counter carries meanwhile. *)
THEOREM TimeIsNeverTorn ==
  ASSUME Half \in Nat \ {0}, Bound \in Nat, Delays \subseteq Nat
  PROVE  Spec => []TimeNotTorn
<1>1. Init => ReadInv
  BY DEF Init, Awake, ReadInv, TypeOK, HalvesTrue
<1>2. ReadInv /\ [Next]_vars => ReadInv'
  BY ReadStep
<1>3. ReadInv => TimeNotTorn
  BY HalvesMatch
<1> QED
  BY <1>1, <1>2, <1>3, PTL DEF Spec
===============================================================================
