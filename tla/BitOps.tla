------------------------------- MODULE BitOps -------------------------------
(* include/bitops.h with the arch-bitops.h of i386 and MIPS; ARMv7-A has no  *)
(* instructions of its own and uses the generic versions.  A word is the set *)
(* of the positions of its 1 bits.  Nothing is shared or kept: the state is  *)
(* one call, its argument and its answers.                                   *)
EXTENDS Integers, FiniteSets, FiniteSetsExt, SequencesExt

CONSTANTS
  Builds,  \* pairs <<architecture, BITS_PER_LONG>>
  Long(_), \* the words of that many bits to try
  Wide     \* the 64-bit words to try on machines with 32-bit longs

VARIABLES build, long, wide, ans
bitvars == <<build, long, wide, ans>>

-----------------------------------------------------------------------------
(* Words.                                                                    *)
Not(w, b) == (0 .. b - 1) \ w
Shr(w, n) == {i - n : i \in {j \in w : j >= n}}
Shl(w, n, b) == {i + n : i \in {j \in w : j + n < b}}
Trunc(w, b) == w \cap (0 .. b - 1)

\* A sum: bit i gets the carry of a place below it that has two ones, if no place
\* between them has two zeros.
Plus(v, w, b) ==
  LET Carry(i) == \E j \in v \cap w : j < i /\ (j + 1) .. (i - 1) \subseteq v \cup w
  IN  {i \in 0 .. b - 1 : Carry(i) = (i \in v <=> i \in w)}

Neg(w, b) == Plus(Not(w, b), {0}, b)

\* The masks 0x55..., 0x33... and 0x0F... with fields of n ones every 2n bits.
Fields(n, b) == {i \in 0 .. b - 1 : i % (2 * n) < n}

-----------------------------------------------------------------------------
(* The generic versions halve the part of the word that is searched.         *)
Halves(b) == IF b = 64 THEN <<32, 16, 8, 4, 2, 1>> ELSE <<16, 8, 4, 2, 1>>

__generic_ffs(w, b) ==
  IF w = {} THEN 0
  ELSE FoldLeft(LAMBDA a, n : IF Trunc(a.word, n) = {}
                              THEN [num |-> a.num + n, word |-> Shr(a.word, n)]
                              ELSE a,
                [num |-> 1, word |-> w], Halves(b)).num

\* Mutant: a search that tests the upper part one bit too short.
__generic_flsShort(w, b) ==
  IF w = {} THEN 0
  ELSE FoldLeft(LAMBDA a, n : IF a.word \cap ((b - n + 1) .. (b - 1)) = {}
                              THEN [num |-> a.num - n, word |-> Shl(a.word, n, b)]
                              ELSE a,
                [num |-> b, word |-> w], Halves(b)).num

__generic_fls(w, b) ==
  IF w = {} THEN 0
  ELSE FoldLeft(LAMBDA a, n : IF a.word \cap ((b - n) .. (b - 1)) = {}
                              THEN [num |-> a.num - n, word |-> Shl(a.word, n, b)]
                              ELSE a,
                [num |-> b, word |-> w], Halves(b)).num

\* The instructions: CLZ and CLO count from the top and give b for "none";
\* BSF and BSR give a 0-based position, which the code makes -1 for 0.
clz(w, b) == b - 1 - Max(w \cup {-1})
clo(w, b) == clz(Not(w, b), b)
bsf(w) == IF w = {} THEN -1 ELSE Min(w)
bsr(w) == Max(w \cup {-1})

fls(arch, w, b) ==
  CASE arch = "mips" -> b - clz(w, b)
    [] arch = "i386" -> bsr(w) + 1
    [] OTHER -> __generic_fls(w, b)

ffs(arch, w, b) ==
  CASE arch = "mips" -> fls(arch, w \cap Neg(w, b), b)
    [] arch = "i386" -> bsf(w) + 1
    [] OTHER -> __generic_ffs(w, b)

flz(arch, w, b) ==
  IF arch = "mips" THEN b - clo(w, b) ELSE fls(arch, Not(w, b), b)

ffz(arch, w, b) ==
  IF arch = "mips"
  THEN LET z == Not(w, b) IN flz(arch, Not(z \cap Neg(z, b), b), b)
  ELSE ffs(arch, Not(w, b), b)

\* 64-bit words on machines with 32-bit longs.  A longer test in
\* __generic_ffz64 is compiled out: it asks for "bits_per_long".
ffs64(arch, w) ==
  IF Trunc(w, 32) = {} THEN ffs(arch, Shr(w, 32), 32) + 32
                       ELSE ffs(arch, Trunc(w, 32), 32)
fls64(arch, w) ==
  IF Trunc(w, 32) = {} THEN fls(arch, Shr(w, 32), 32) + 32
                       ELSE fls(arch, Trunc(w, 32), 32)
ffz64(arch, w) == ffz(arch, Trunc(w, 32), 32)
flz64(arch, w) ==
  IF Trunc(w, 32) = {} THEN flz(arch, Shr(w, 32), 32) + 32
                       ELSE flz(arch, Trunc(w, 32), 32)

\* Sums of ever wider fields, in parallel.  The wide fields are added without
\* a mask; what spills over is cut off at the end.
hweight(w, b) ==
  LET AddUp(v, n) == Plus(v, Shr(v, n), b)
      two   == Plus(w, Neg(Shr(w, 1) \cap Fields(1, b), b), b)
      four  == Plus(two \cap Fields(2, b), Shr(two, 2) \cap Fields(2, b), b)
      eight == AddUp(four, 4) \cap Fields(4, b)
      all   == FoldLeft(AddUp, eight, IF b = 64 THEN <<8, 16, 32>> ELSE <<8, 16>>)
  IN  SumSet({2 ^ i : i \in Trunc(all, 8)})

hweight64(w) == hweight(Shr(w, 32), 32) + hweight(Trunc(w, 32), 32)

-----------------------------------------------------------------------------
BitInit == /\ build \in Builds
           /\ long \in Long(build[2])
           /\ wide \in IF build[2] = 32 THEN Wide ELSE {{}}
           /\ ans = <<>>

Call ==
  LET arch == build[1]  b == build[2]
  IN  /\ ans = <<>>
      /\ ans' = [ffs |-> ffs(arch, long, b), fls |-> fls(arch, long, b),
                 ffz |-> ffz(arch, long, b), flz |-> flz(arch, long, b),
                 hweight |-> hweight(long, b),
                 count_zero_bits |-> hweight(Not(long, b), b),
                 ffs64 |-> ffs64(arch, wide), fls64 |-> fls64(arch, wide),
                 ffz64 |-> ffz64(arch, wide), flz64 |-> flz64(arch, wide),
                 hweight64 |-> hweight64(wide)]
      /\ UNCHANGED <<build, long, wide>>

Spec == BitInit /\ [][Call]_bitvars

-----------------------------------------------------------------------------
FirstOf(w) == IF w = {} THEN 0 ELSE Min(w) + 1
LastOf(w)  == IF w = {} THEN 0 ELSE Max(w) + 1

\* What bitops.h says of its functions, for all three implementations: ffs and
\* fls find the least and the most significant 1, ffz and flz the 0, counting
\* from 1 and with 0 for "none", and hweight counts the ones.  The 64-bit
\* versions do so on 32-bit machines where one 32-bit half decides: ffs64
\* unless the word is 0, fls64 if only one half has ones, ffz64 if the lower
\* half has a zero, flz64 if the upper half is all ones, or the lower all zero
\* and the upper not all ones.
BitsFound ==
  ans # <<>> =>
    LET b == build[2]  low == Trunc(wide, 32)  high == Shr(wide, 32)
    IN  /\ ans.ffs = FirstOf(long) /\ ans.ffz = FirstOf(Not(long, b))
        /\ ans.fls = LastOf(long) /\ ans.flz = LastOf(Not(long, b))
        /\ ans.hweight = Cardinality(long)
        /\ ans.count_zero_bits = b - Cardinality(long)
        /\ b = 32 =>
             /\ ans.hweight64 = Cardinality(wide)
             /\ wide # {} => ans.ffs64 = FirstOf(wide)
             /\ (low = {}) # (high = {}) => ans.fls64 = LastOf(wide)
             /\ Not(low, 32) # {} => ans.ffz64 = FirstOf(Not(wide, 64))
             /\ (Not(high, 32) = {} /\ low # {})
                  \/ (low = {} /\ Not(high, 32) # {})
                => ans.flz64 = LastOf(Not(wide, 64))
=============================================================================
