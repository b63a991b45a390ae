------------------------------- MODULE LibCProofs -------------------------------
(***************************************************************************)
(* Proofs about LibC: memcpy() and memset() for memory and words of any    *)
(* size, at any alignment.                                                 *)
(***************************************************************************)
EXTENDS LibC, TLAPS

(* A memcpy() at work. *)
Copying == call.pc \in {"align", "head", "words", "tail"}

CopyCalls ==
  [pc : {"align", "head", "words", "tail"}, fn : {"memcpy"}, dst0 : Nat, src0 : Nat,
   n : Nat, dst : Nat, src : Nat, length : Nat, t : Nat, c : Nat]

(* The bytes that are still to be copied, by the loop at work and those after it. *)
Left(c) == CASE c.pc = "align" -> c.length
             [] c.pc = "head"  -> c.t + c.length
             [] c.pc = "words" -> c.t * wsize + (c.length % wsize)
             [] c.pc = "tail"  -> c.t

(* The arguments of a memcpy(), and where it is between them. *)
PlaceTrue(c) ==
  /\ c \in CopyCalls
  /\ c.dst0 + c.n <= Top /\ c.src0 + c.n <= Top
  /\ c.dst0 + c.n <= c.src0 \/ c.src0 + c.n <= c.dst0
  /\ c.dst0 <= c.dst /\ c.dst - c.dst0 = c.src - c.src0
  /\ c.dst + Left(c) = c.dst0 + c.n

(* Where words will be copied, the addresses are aligned then. *)
AlignTrue(c) ==
  /\ c.pc = "align" => c.length > 0
  /\ c.pc = "head" => c.t > 0 /\ (c.length > 0 => Aligned(c.dst + c.t) /\ Aligned(c.src + c.t))
  /\ c.pc = "words" /\ c.t > 0 => Aligned(c.dst) /\ Aligned(c.src)

(* In memory m the destination is written from d0 up to d, the rest is as it was. *)
CopiedSoFar(d0, s0, d, m) ==
  \A a \in Addresses :
    m[a] = IF a \in d0 .. d - 1 THEN old[s0 + (a - d0)] ELSE old[a]

CopyInv ==
  /\ ram \in [Addresses -> Int]
  /\ call.pc = "idle" => ram = old
  /\ Copying => PlaceTrue(call) /\ AlignTrue(call) /\ CopiedSoFar(call.dst0, call.src0, call.dst, ram)
  /\ AreasWritten

(* Division by the size of a word. *)
LEMMA Division ==
  ASSUME NEW w \in Nat \ {0}, NEW n \in Nat
  PROVE  /\ n \div w \in Nat /\ n % w \in 0 .. w - 1
         /\ n = (n \div w) * w + (n % w)
OBVIOUS

(* A whole number of words is aligned. *)
LEMMA MultipleAligned ==
  ASSUME NEW w \in Nat \ {0}, NEW k \in Nat
  PROVE  (k * w) % w = 0
<1> DEFINE q == (k * w) \div w
           r == (k * w) % w
<1>1. k * w \in Nat
  OBVIOUS
<1>2. q \in Nat /\ r \in 0 .. w - 1 /\ k * w = q * w + r
  BY <1>1, Division
<1>3. q \in Int /\ k - q \in Int /\ (k - q) * w = r
  BY <1>2
<1>4. CASE k - q >= 1
  <2>1. (k - q) * w >= w
    BY <1>3, <1>4
  <2> QED
    BY <1>2, <1>3, <2>1
<1>5. CASE k - q <= -1
  <2>1. (k - q) * w <= -w
    BY <1>3, <1>5
  <2> QED
    BY <1>2, <1>3, <2>1
<1>6. CASE k - q = 0
  BY <1>3, <1>6
<1> QED
  BY <1>3, <1>4, <1>5, <1>6

(* The next aligned address, and the one a word after an aligned one. *)
LEMMA NextAligned ==
  ASSUME NEW w \in Nat \ {0}, NEW a \in Nat
  PROVE  /\ (a + (w - (a % w))) % w = 0
         /\ a % w = 0 => (a + w) % w = 0
<1>1. a \div w \in Nat /\ a = (a \div w) * w + (a % w)
  BY Division
<1>2. a + (w - (a % w)) = ((a \div w) + 1) * w
  BY <1>1, Division
<1>3. a % w = 0 => a + w = ((a \div w) + 1) * w
  BY <1>1
<1>4. (((a \div w) + 1) * w) % w = 0
  BY <1>1, MultipleAligned
<1> QED
  BY <1>2, <1>3, <1>4

(* Of the fields of a memcpy() at work. *)
LEMMA CopyFacts ==
  ASSUME wsize \in Nat \ {0}, Top \in Nat, CopyInv, Copying
  PROVE  /\ call \in CopyCalls /\ PlaceTrue(call) /\ AlignTrue(call)
         /\ CopiedSoFar(call.dst0, call.src0, call.dst, ram)
         /\ call.dst0 \in Nat /\ call.src0 \in Nat /\ call.n \in Nat /\ call.dst \in Nat
         /\ call.src \in Nat /\ call.length \in Nat /\ call.t \in Nat
         /\ call.dst0 + call.n <= Top /\ call.src0 + call.n <= Top
         /\ call.dst0 + call.n <= call.src0 \/ call.src0 + call.n <= call.dst0
         /\ call.dst0 <= call.dst /\ call.dst - call.dst0 = call.src - call.src0
         /\ call.dst + Left(call) = call.dst0 + call.n
         /\ ram \in [Addresses -> Int]
<1>1. PlaceTrue(call) /\ AlignTrue(call) /\ CopiedSoFar(call.dst0, call.src0, call.dst, ram)
  BY DEF CopyInv
<1> QED
  BY <1>1 DEF PlaceTrue, CopyCalls, CopyInv

(* What copying the next k bytes does, one by one or as a word: the bytes that are
   read have not been written by this memcpy(). *)
LEMMA BytesCopied ==
  ASSUME wsize \in Nat \ {0}, Top \in Nat, CopyInv, Copying,
         NEW k \in Nat, call.dst + k <= call.dst0 + call.n,
         ram' = [a \in Addresses |-> IF a - call.dst \in 0 .. k - 1
                                     THEN ram[call.src + a - call.dst] ELSE ram[a]]
  PROVE  ram' \in [Addresses -> Int] /\ CopiedSoFar(call.dst0, call.src0, call.dst + k, ram')
<1> DEFINE d0 == call.dst0
           s0 == call.src0
           n == call.n
           d == call.dst
           s == call.src
<1>1. /\ d0 \in Nat /\ s0 \in Nat /\ n \in Nat /\ d \in Nat /\ s \in Nat
      /\ d0 + n <= Top /\ s0 + n <= Top /\ (d0 + n <= s0 \/ s0 + n <= d0)
      /\ d0 <= d /\ d - d0 = s - s0 /\ CopiedSoFar(d0, s0, d, ram) /\ ram \in [Addresses -> Int]
  BY CopyFacts
<1>2. /\ d + k <= d0 + n
      /\ ram' = [a \in Addresses |-> IF a - d \in 0 .. k - 1 THEN ram[s + a - d] ELSE ram[a]]
  OBVIOUS
<1> HIDE DEF d0, s0, n, d, s
<1>3. ASSUME NEW a \in Addresses, a - d \in 0 .. k - 1
      PROVE  a \in d0 .. (d + k) - 1 /\ ram'[a] = old[s0 + (a - d0)] /\ ram'[a] \in Int
  <2>1. s + a - d \in Addresses /\ s + a - d \notin d0 .. d - 1 /\ s + a - d = s0 + (a - d0)
    BY <1>1, <1>2, <1>3 DEF Addresses
  <2>2. ram[s + a - d] = old[s + a - d] /\ ram[s + a - d] \in Int
    BY <1>1, <2>1 DEF CopiedSoFar
  <2>3. ram'[a] = ram[s + a - d]
    BY <1>2, <1>3
  <2>4. a \in d0 .. (d + k) - 1
    BY <1>1, <1>2, <1>3 DEF Addresses
  <2> QED
    BY <2>1, <2>2, <2>3, <2>4
<1>4. ASSUME NEW a \in Addresses, a - d \notin 0 .. k - 1
      PROVE  /\ a \in d0 .. (d + k) - 1 <=> a \in d0 .. d - 1
             /\ ram'[a] = ram[a] /\ ram'[a] \in Int
  <2>1. a \in d0 .. (d + k) - 1 <=> a \in d0 .. d - 1
    BY <1>1, <1>4 DEF Addresses
  <2> QED
    BY <1>1, <1>2, <1>4, <2>1
<1>5. CopiedSoFar(d0, s0, d + k, ram')
  BY <1>1, <1>3, <1>4 DEF CopiedSoFar
<1>6. ram' \in [Addresses -> Int]
  BY <1>2, <1>3, <1>4
<1> QED
  BY <1>5, <1>6 DEF d0, s0, d

(* The call of memcpy() with its early return. *)
LEMMA CallStep ==
  ASSUME wsize \in Nat \ {0}, Top \in Nat, CopyInv, CallMemcpy
  PROVE  CopyInv'
<1>1. PICK d \in Addresses, s \in Addresses, n \in 0 .. Top :
        /\ d + n <= Top /\ s + n <= Top
        /\ d = s \/ d + n <= s \/ s + n <= d
        /\ call' = [pc |-> IF n = 0 \/ d = s THEN "done" ELSE "align", fn |-> "memcpy",
                    dst0 |-> d, src0 |-> s, n |-> n,
                    dst |-> d, src |-> s, length |-> n, t |-> 0, c |-> 0]
  BY DEF CallMemcpy
<1>2. d \in Nat /\ s \in Nat /\ n \in Nat
  BY <1>1 DEF Addresses
<1>3. ram \in [Addresses -> Int] /\ ram = old /\ ram' = ram /\ old' = old
  BY DEF CallMemcpy, CopyInv
<1>4. CASE n = 0 \/ d = s
  <2>1. call'.pc = "done" /\ call'.dst0 = d /\ call'.src0 = s /\ call'.n = n /\ call'.fn = "memcpy"
    BY <1>1, <1>4
  <2>2. ASSUME NEW a \in Addresses, a - d \in 0 .. n - 1 PROVE s + a - d = a
    BY <1>2, <1>4, <2>2 DEF Addresses
  <2>3. AreasWritten'
    BY <1>3, <2>1, <2>2 DEF AreasWritten, Addresses
  <2> QED
    BY <1>3, <2>1, <2>3 DEF CopyInv, Copying
<1>5. CASE ~(n = 0 \/ d = s)
  <2>1. call' = [pc |-> "align", fn |-> "memcpy", dst0 |-> d, src0 |-> s, n |-> n,
                 dst |-> d, src |-> s, length |-> n, t |-> 0, c |-> 0]
    BY <1>1, <1>5
  <2>2. PlaceTrue(call')
    BY <1>1, <1>2, <1>5, <2>1 DEF PlaceTrue, CopyCalls, Left
  <2>3. AlignTrue(call')
    BY <1>2, <1>5, <2>1 DEF AlignTrue
  <2>4. CopiedSoFar(call.dst0, call.src0, call.dst, ram)'
    BY <1>2, <1>3, <2>1 DEF CopiedSoFar
  <2>5. AreasWritten' /\ call'.pc # "idle"
    BY <2>1 DEF AreasWritten
  <2> QED
    BY <1>3, <2>2, <2>3, <2>4, <2>5 DEF CopyInv
<1> QED
  BY <1>4, <1>5

(* A step of a memcpy() that goes on: what there is to show. *)
LEMMA GoesOn ==
  ASSUME CopyInv, old' = old, ram' \in [Addresses -> Int],
         call'.pc \in {"align", "head", "words", "tail"},
         PlaceTrue(call'), AlignTrue(call'),
         CopiedSoFar(call'.dst0, call'.src0, call'.dst, ram')
  PROVE  CopyInv'
<1>1. AreasWritten'
  BY DEF AreasWritten
<1>2. CopiedSoFar(call.dst0, call.src0, call.dst, ram)'
  BY DEF CopiedSoFar
<1> QED
  BY <1>1, <1>2 DEF CopyInv, Copying

(* Counting the bytes up to the alignment. *)
LEMMA AlignStep ==
  ASSUME wsize \in Nat \ {0}, Top \in Nat, CopyInv, MemcpyAlign
  PROVE  CopyInv'
<1>1. call.pc = "align" /\ Copying /\ ram' = ram /\ old' = old
  BY DEF MemcpyAlign, Copying
<1> USE <1>1, CopyFacts
<1>2. call.dst + call.length = call.dst0 + call.n
  BY DEF Left
<1>3. CASE Aligned(call.src) /\ Aligned(call.dst)
  <2> DEFINE q == call.length \div wsize
  <2>1. call' = [call EXCEPT !.pc = "words", !.t = q]
    BY <1>3 DEF MemcpyAlign
  <2>2. q \in Nat /\ call.length = q * wsize + (call.length % wsize)
    BY Division
  <2> HIDE DEF q
  <2>3. call' \in CopyCalls /\ call'.pc = "words" /\ call'.t = q
    BY <2>1, <2>2 DEF CopyCalls
  <2>4. /\ call'.dst = call.dst /\ call'.src = call.src /\ call'.n = call.n
        /\ call'.dst0 = call.dst0 /\ call'.src0 = call.src0 /\ call'.length = call.length
    BY <2>1 DEF CopyCalls
  <2>5. Left(call') = q * wsize + (call.length % wsize)
    BY <2>3, <2>4 DEF Left
  <2>6. PlaceTrue(call')
    BY <1>2, <2>2, <2>3, <2>4, <2>5 DEF PlaceTrue
  <2>7. AlignTrue(call')
    BY <1>3, <2>3, <2>4 DEF AlignTrue
  <2> QED
    BY <2>3, <2>4, <2>6, <2>7, GoesOn
<1>4. CASE ~(Aligned(call.src) /\ Aligned(call.dst))
  <2> DEFINE l == Lead(call)
  <2>1. call' = [call EXCEPT !.pc = "head", !.t = l, !.length = call.length - l]
    BY <1>4 DEF MemcpyAlign
  <2>2. call.src % wsize \in 0 .. wsize - 1 /\ call.dst % wsize \in 0 .. wsize - 1
    BY Division
  <2>3. /\ l \in 1 .. call.length
        /\ call.length - l > 0 => Aligned(call.dst + l) /\ Aligned(call.src + l)
    <3>1. CASE call.dst % wsize # call.src % wsize \/ call.length < wsize
      BY <1>1, <3>1 DEF Lead, AlignTrue
    <3>2. CASE ~(call.dst % wsize # call.src % wsize \/ call.length < wsize)
      <4>1. l = wsize - (call.src % wsize) /\ l = wsize - (call.dst % wsize)
        BY <3>2 DEF Lead
      <4>2. l \in 1 .. call.length
        BY <2>2, <3>2, <4>1
      <4>3. Aligned(call.dst + l) /\ Aligned(call.src + l)
        BY <4>1, NextAligned DEF Aligned
      <4> QED
        BY <4>2, <4>3
    <3> QED
      BY <3>1, <3>2
  <2> HIDE DEF l
  <2>3a. l \in Nat /\ call.length - l \in Nat
    BY <2>3
  <2>4. call' \in CopyCalls /\ call'.pc = "head" /\ call'.t = l /\ call'.length = call.length - l
    BY <2>1, <2>3a DEF CopyCalls
  <2>5. /\ call'.dst = call.dst /\ call'.src = call.src /\ call'.n = call.n
        /\ call'.dst0 = call.dst0 /\ call'.src0 = call.src0
    BY <2>1 DEF CopyCalls
  <2>6. Left(call') = l + (call.length - l)
    BY <2>4 DEF Left
  <2>7. PlaceTrue(call')
    BY <1>2, <2>3, <2>4, <2>5, <2>6 DEF PlaceTrue
  <2>8. AlignTrue(call')
    BY <2>3, <2>4, <2>5 DEF AlignTrue
  <2> QED
    BY <2>4, <2>5, <2>7, <2>8, GoesOn
<1> QED
  BY <1>3, <1>4

(* A byte of the head or of the tail. *)
LEMMA ByteStep ==
  ASSUME wsize \in Nat \ {0}, Top \in Nat, CopyInv, Copying,
         call.dst + 1 <= call.dst0 + call.n,
         ram' = [ram EXCEPT ![call.dst] = ram[call.src]]
  PROVE  ram' \in [Addresses -> Int] /\ CopiedSoFar(call.dst0, call.src0, call.dst + 1, ram')
<1>1. /\ call.dst \in Nat /\ call.src \in Nat /\ call.dst0 + call.n <= Top
      /\ call.dst0 \in Nat /\ call.n \in Nat /\ ram \in [Addresses -> Int]
  BY CopyFacts
<1>2. call.dst \in Addresses
  BY <1>1 DEF Addresses
<1>3. \A a \in Addresses : a - call.dst \in 0 .. 1 - 1 <=> a = call.dst
  <2>1. ASSUME NEW d \in Nat PROVE \A a \in Int : a - d \in 0 .. 1 - 1 <=> a = d
    <3>1. \A a \in Int : a - d \in 0 .. 0 <=> a - d = 0
      OBVIOUS
    <3> QED
      BY <3>1
  <2>2. Addresses \subseteq Int
    BY DEF Addresses
  <2> QED
    BY <1>1, <2>1, <2>2
<1>4. call.src + call.dst - call.dst = call.src
  BY <1>1
<1>5. ram' = [a \in Addresses |-> IF a - call.dst \in 0 .. 1 - 1
                                  THEN ram[call.src + a - call.dst] ELSE ram[a]]
  BY <1>1, <1>2, <1>3, <1>4
<1>6. ASSUME NEW k \in Nat, k = 1
      PROVE  ram' \in [Addresses -> Int] /\ CopiedSoFar(call.dst0, call.src0, call.dst + k, ram')
  BY <1>5, <1>6, BytesCopied
<1> QED
  BY <1>6

(* A byte of the head; after the last one the words are counted. *)
LEMMA HeadStep ==
  ASSUME wsize \in Nat \ {0}, Top \in Nat, CopyInv, CopyHead
  PROVE  CopyInv'
<1>1. call.pc = "head" /\ Copying /\ old' = old /\ ram' = [ram EXCEPT ![call.dst] = ram[call.src]]
  BY DEF CopyHead, Copying
<1>2. /\ call \in CopyCalls /\ PlaceTrue(call) /\ AlignTrue(call)
      /\ call.dst \in Nat /\ call.src \in Nat /\ call.length \in Nat /\ call.t \in Nat
      /\ call.dst0 \in Nat /\ call.src0 \in Nat /\ call.n \in Nat
      /\ call.dst + Left(call) = call.dst0 + call.n
  BY <1>1, CopyFacts
<1>3. call.t > 0 /\ (call.length > 0 => Aligned(call.dst + call.t) /\ Aligned(call.src + call.t))
  BY <1>1, <1>2 DEF AlignTrue
<1>4. Left(call) = call.t + call.length
  BY <1>1 DEF Left
<1>5. call.dst + 1 <= call.dst0 + call.n
  BY <1>2, <1>3, <1>4
<1>6. ram' \in [Addresses -> Int] /\ CopiedSoFar(call.dst0, call.src0, call.dst + 1, ram')
  BY <1>1, <1>5, ByteStep
<1>7. CASE call.t = 1
  <2> DEFINE q == call.length \div wsize
  <2>1. call' = [call EXCEPT !.dst = call.dst + 1, !.src = call.src + 1, !.pc = "words", !.t = q]
    BY <1>7 DEF CopyHead
  <2>2. q \in Nat /\ call.length = q * wsize + (call.length % wsize)
    BY <1>2, Division
  <2>2a. call.length % wsize \in Nat /\ call.dst + 1 \in Nat /\ call.src + 1 \in Nat
    <3>1. call.length % wsize \in 0 .. wsize - 1
      BY <1>2, Division
    <3> QED
      BY <1>2, <3>1
  <2>3. q > 0 => call.length > 0
    <3>1. q > 0 => q * wsize > 0
      BY <2>2
    <3> QED
      BY <1>2, <2>2, <2>2a, <3>1
  <2> HIDE DEF q
  <2>4. call' \in CopyCalls /\ call'.pc = "words" /\ call'.t = q
    BY <1>2, <2>1, <2>2, <2>2a DEF CopyCalls
  <2>5. /\ call'.dst = call.dst + 1 /\ call'.src = call.src + 1 /\ call'.n = call.n
        /\ call'.dst0 = call.dst0 /\ call'.src0 = call.src0 /\ call'.length = call.length
    BY <1>2, <2>1 DEF CopyCalls
  <2>6. Left(call') = q * wsize + (call.length % wsize)
    BY <2>4, <2>5 DEF Left
  <2>7. call'.dst + Left(call') = call'.dst0 + call'.n
    BY <1>2, <1>4, <1>7, <2>2, <2>2a, <2>5, <2>6
  <2>8. PlaceTrue(call')
    BY <1>2, <2>4, <2>5, <2>7 DEF PlaceTrue
  <2>9. AlignTrue(call')
    BY <1>3, <1>7, <2>3, <2>4, <2>5 DEF AlignTrue
  <2> QED
    BY <1>1, <1>6, <2>4, <2>5, <2>8, <2>9, GoesOn
<1>8. CASE call.t # 1
  <2>1. call' = [call EXCEPT !.dst = call.dst + 1, !.src = call.src + 1, !.t = call.t - 1]
    BY <1>1, <1>2, <1>8 DEF CopyHead, CopyCalls
  <2>2. call.t - 1 \in Nat /\ call.t - 1 > 0 /\ call.dst + 1 \in Nat /\ call.src + 1 \in Nat
    BY <1>2, <1>3, <1>8
  <2>3. call' \in CopyCalls /\ call'.pc = "head" /\ call'.t = call.t - 1
    BY <1>1, <1>2, <2>1, <2>2 DEF CopyCalls
  <2>4. /\ call'.dst = call.dst + 1 /\ call'.src = call.src + 1 /\ call'.n = call.n
        /\ call'.dst0 = call.dst0 /\ call'.src0 = call.src0 /\ call'.length = call.length
    BY <1>2, <2>1 DEF CopyCalls
  <2>5. Left(call') = (call.t - 1) + call.length
    BY <2>3, <2>4 DEF Left
  <2>6. call'.dst + Left(call') = call'.dst0 + call'.n
    BY <1>2, <1>4, <2>4, <2>5
  <2>7. PlaceTrue(call')
    BY <1>2, <2>3, <2>4, <2>6 DEF PlaceTrue
  <2>8. /\ (call.dst + 1) + (call.t - 1) = call.dst + call.t
        /\ (call.src + 1) + (call.t - 1) = call.src + call.t
    BY <1>2
  <2>9. AlignTrue(call')
    BY <1>3, <2>2, <2>3, <2>4, <2>8 DEF AlignTrue
  <2> QED
    BY <1>1, <1>6, <2>3, <2>4, <2>7, <2>9, GoesOn
<1> QED
  BY <1>7, <1>8

(* A word. *)
LEMMA WordStep ==
  ASSUME wsize \in Nat \ {0}, Top \in Nat, CopyInv, CopyWord
  PROVE  CopyInv'
<1> DEFINE d0 == call.dst0
           s0 == call.src0
           n == call.n
           d == call.dst
           s == call.src
           t == call.t
           r == call.length % wsize
<1>1. /\ call.pc = "words" /\ Copying /\ old' = old /\ t > 0
      /\ call' = [call EXCEPT !.dst = d + wsize, !.src = s + wsize, !.t = t - 1]
      /\ ram' = [a \in Addresses |-> IF a - d \in 0 .. wsize - 1 THEN ram[s + a - d] ELSE ram[a]]
  BY DEF CopyWord, Copying
<1>2. call \in CopyCalls /\ PlaceTrue(call) /\ AlignTrue(call) /\ call.length \in Nat /\ t \in Nat
  BY <1>1, CopyFacts
<1>3. /\ d0 \in Nat /\ s0 \in Nat /\ n \in Nat /\ d \in Nat /\ s \in Nat
      /\ d0 + n <= Top /\ s0 + n <= Top /\ (d0 + n <= s0 \/ s0 + n <= d0)
      /\ d0 <= d /\ d - d0 = s - s0 /\ CopiedSoFar(d0, s0, d, ram) /\ ram \in [Addresses -> Int]
  BY <1>1, CopyFacts
<1>4. d + (t * wsize + r) = d0 + n
  BY <1>1, CopyFacts DEF Left
<1>5. r \in Nat
  BY <1>2, Division
<1>6. Aligned(d) /\ Aligned(s)
  BY <1>1, <1>2 DEF AlignTrue
<1>7. /\ call'.dst = d + wsize /\ call'.src = s + wsize /\ call'.n = n /\ call'.t = t - 1
      /\ call'.dst0 = d0 /\ call'.src0 = s0 /\ call'.length = call.length /\ call'.pc = "words"
  BY <1>1, <1>2 DEF CopyCalls
<1>8. t - 1 \in Nat /\ d + wsize \in Nat /\ s + wsize \in Nat
  BY <1>1, <1>2, <1>3
<1>9. call' \in CopyCalls
  BY <1>1, <1>2, <1>8 DEF CopyCalls
<1>10. Left(call') = (t - 1) * wsize + r
  BY <1>7 DEF Left
<1> HIDE DEF d0, s0, n, d, s, t, r
<1>11. t * wsize = (t - 1) * wsize + wsize /\ (t - 1) * wsize \in Nat
  BY <1>2, <1>8
<1>12. d + wsize <= d0 + n
  BY <1>3, <1>4, <1>5, <1>11
<1>13. ram' \in [Addresses -> Int] /\ CopiedSoFar(d0, s0, d + wsize, ram')
  <2>1. wsize \in Nat
    OBVIOUS
  <2> QED
    BY <1>1, <1>12, <2>1, BytesCopied DEF d, s, d0, s0, n
<1>14. call'.dst + Left(call') = call'.dst0 + call'.n
  BY <1>3, <1>4, <1>5, <1>7, <1>10, <1>11
<1>15. PlaceTrue(call')
  BY <1>3, <1>7, <1>9, <1>14 DEF PlaceTrue
<1>16. Aligned(d + wsize) /\ Aligned(s + wsize)
  BY <1>3, <1>6, NextAligned DEF Aligned
<1>17. AlignTrue(call')
  BY <1>7, <1>16 DEF AlignTrue
<1> QED
  BY <1>1, <1>7, <1>13, <1>15, <1>17, GoesOn

(* From the words to the tail. *)
LEMMA WordsOverStep ==
  ASSUME wsize \in Nat \ {0}, Top \in Nat, CopyInv, MemcpyWordsOver
  PROVE  CopyInv'
<1> DEFINE r == call.length % wsize
<1>1. /\ call.pc = "words" /\ Copying /\ old' = old /\ ram' = ram /\ call.t = 0
      /\ call' = [call EXCEPT !.pc = "tail", !.t = r]
  BY DEF MemcpyWordsOver, Copying
<1>2. /\ call \in CopyCalls /\ PlaceTrue(call) /\ call.length \in Nat /\ call.dst \in Nat
      /\ call.dst0 \in Nat /\ call.n \in Nat /\ call.dst + Left(call) = call.dst0 + call.n
      /\ CopiedSoFar(call.dst0, call.src0, call.dst, ram) /\ ram \in [Addresses -> Int]
  BY <1>1, CopyFacts
<1>3. r \in Nat
  BY <1>2, Division
<1>4. Left(call) = 0 * wsize + r
  BY <1>1 DEF Left
<1> HIDE DEF r
<1>5. call' \in CopyCalls /\ call'.pc = "tail" /\ call'.t = r
  BY <1>1, <1>2, <1>3 DEF CopyCalls
<1>6. /\ call'.dst = call.dst /\ call'.src = call.src /\ call'.n = call.n
      /\ call'.dst0 = call.dst0 /\ call'.src0 = call.src0 /\ call'.length = call.length
  BY <1>1, <1>2 DEF CopyCalls
<1>7. Left(call') = r
  BY <1>5 DEF Left
<1>8. PlaceTrue(call')
  BY <1>2, <1>3, <1>4, <1>5, <1>6, <1>7 DEF PlaceTrue
<1>9. AlignTrue(call')
  BY <1>5 DEF AlignTrue
<1> QED
  BY <1>1, <1>2, <1>5, <1>6, <1>8, <1>9, GoesOn

(* A byte of the tail. *)
LEMMA TailStep ==
  ASSUME wsize \in Nat \ {0}, Top \in Nat, CopyInv, CopyTail
  PROVE  CopyInv'
<1>1. /\ call.pc = "tail" /\ Copying /\ old' = old /\ call.t > 0
      /\ ram' = [ram EXCEPT ![call.dst] = ram[call.src]]
      /\ call' = [call EXCEPT !.dst = call.dst + 1, !.src = call.src + 1, !.t = call.t - 1]
  BY DEF CopyTail, Copying
<1>2. /\ call \in CopyCalls /\ PlaceTrue(call) /\ call.t \in Nat /\ call.dst \in Nat
      /\ call.src \in Nat /\ call.dst0 \in Nat /\ call.src0 \in Nat /\ call.n \in Nat
      /\ call.dst + Left(call) = call.dst0 + call.n
  BY <1>1, CopyFacts
<1>3. Left(call) = call.t
  BY <1>1 DEF Left
<1>4. call.dst + 1 <= call.dst0 + call.n /\ call.t - 1 \in Nat
      /\ call.dst + 1 \in Nat /\ call.src + 1 \in Nat
  BY <1>1, <1>2, <1>3
<1>5. ram' \in [Addresses -> Int] /\ CopiedSoFar(call.dst0, call.src0, call.dst + 1, ram')
  BY <1>1, <1>4, ByteStep
<1>6. call' \in CopyCalls /\ call'.pc = "tail" /\ call'.t = call.t - 1
  BY <1>1, <1>2, <1>4 DEF CopyCalls
<1>7. /\ call'.dst = call.dst + 1 /\ call'.src = call.src + 1 /\ call'.n = call.n
      /\ call'.dst0 = call.dst0 /\ call'.src0 = call.src0
  BY <1>1, <1>2 DEF CopyCalls
<1>8. Left(call') = call.t - 1
  BY <1>6 DEF Left
<1>9. PlaceTrue(call')
  BY <1>2, <1>3, <1>6, <1>7, <1>8 DEF PlaceTrue
<1>10. AlignTrue(call')
  BY <1>6 DEF AlignTrue
<1> QED
  BY <1>1, <1>5, <1>6, <1>7, <1>9, <1>10, GoesOn

(* The end of memcpy(): everything between the arguments has been copied. *)
LEMMA OverStep ==
  ASSUME wsize \in Nat \ {0}, Top \in Nat, CopyInv, MemcpyOver
  PROVE  CopyInv'
<1>1. /\ call.pc = "tail" /\ Copying /\ old' = old /\ ram' = ram /\ call.t = 0
      /\ call' = [call EXCEPT !.pc = "done"]
  BY DEF MemcpyOver, Copying
<1>2. /\ call \in CopyCalls /\ ram \in [Addresses -> Int]
      /\ call.dst \in Nat /\ call.dst0 \in Nat /\ call.src0 \in Nat /\ call.n \in Nat
      /\ call.dst + Left(call) = call.dst0 + call.n
      /\ CopiedSoFar(call.dst0, call.src0, call.dst, ram)
  BY <1>1, CopyFacts
<1>3. call.dst = call.dst0 + call.n
  BY <1>1, <1>2 DEF Left
<1>4. /\ call'.pc = "done" /\ call'.fn = "memcpy"
      /\ call'.dst0 = call.dst0 /\ call'.src0 = call.src0 /\ call'.n = call.n
  BY <1>1, <1>2 DEF CopyCalls
<1>5. ASSUME NEW a \in Addresses
      PROVE  /\ a \in call.dst0 .. call.dst - 1 <=> a - call.dst0 \in 0 .. call.n - 1
             /\ call.src0 + (a - call.dst0) = call.src0 + a - call.dst0
  <2>1. a \in Int
    BY DEF Addresses
  <2> QED
    BY <1>2, <1>3, <2>1
<1>6. AreasWritten'
  BY <1>1, <1>2, <1>4, <1>5 DEF AreasWritten, CopiedSoFar
<1> QED
  BY <1>1, <1>2, <1>4, <1>6 DEF CopyInv, Copying

(* memset() and strcmp(). *)
LEMMA OtherStep ==
  ASSUME Top \in Nat, CopyInv, CallMemset \/ CallStrcmp
  PROVE  CopyInv'
<1>1. ram \in [Addresses -> Int] /\ ram = old /\ old' = old
  BY DEF CopyInv, CallMemset, CallStrcmp
<1>2. CASE CallMemset
  <2>1. PICK d \in Addresses, n \in 0 .. Top, c \in {0, 1, 255, 256, 258} :
          /\ d + n <= Top
          /\ ram' = [a \in Addresses |-> IF a - d \in 0 .. n - 1 THEN c % 256 ELSE ram[a]]
          /\ call' = [pc |-> "done", fn |-> "memset", dst0 |-> d, n |-> n, c |-> c]
    BY <1>2 DEF CallMemset
  <2>2. c % 256 \in Int
    BY <2>1
  <2>3. /\ call'.pc = "done" /\ call'.fn = "memset" /\ call'.dst0 = d /\ call'.n = n /\ call'.c = c
        /\ ram' \in [Addresses -> Int]
    BY <1>1, <2>1, <2>2
  <2>4. AreasWritten'
    BY <1>1, <2>1, <2>3 DEF AreasWritten
  <2> QED
    BY <2>3, <2>4 DEF CopyInv, Copying
<1>3. CASE CallStrcmp
  <2>1. call'.pc = "done" /\ call'.fn = "strcmp" /\ ram' = ram
    BY <1>3 DEF CallStrcmp
  <2> QED
    BY <1>1, <2>1 DEF CopyInv, Copying, AreasWritten
<1> QED
  BY <1>2, <1>3

(* What the invariant says of words and loops. *)
LEMMA InvWords ==
  ASSUME wsize \in Nat \ {0}, Top \in Nat, CopyInv
  PROVE  WordsAligned
<1> SUFFICES ASSUME call.pc \in {"words", "tail"}, call.t > 0 PROVE WordsAligned
  BY DEF WordsAligned
<1>1. /\ Copying /\ AlignTrue(call) /\ call.dst \in Nat /\ call.t \in Nat /\ call.length \in Nat
      /\ call.dst0 \in Nat /\ call.n \in Nat /\ call.dst + Left(call) = call.dst0 + call.n
  BY CopyFacts DEF Copying
<1>2. call.length % wsize \in Nat
  BY <1>1, Division
<1>2a. call.t * wsize \in Nat /\ call.t * 1 = call.t
  BY <1>1
<1>3. CASE call.pc = "words"
  <2>1. Left(call) = call.t * wsize + (call.length % wsize)
    BY <1>3 DEF Left
  <2>2. call.dst + call.t * wsize <= call.dst0 + call.n
    BY <1>1, <1>2, <1>2a, <2>1
  <2> QED
    BY <1>1, <1>3, <2>2 DEF WordsAligned, AlignTrue
<1>4. CASE call.pc = "tail"
  <2>1. call.dst + call.t * 1 <= call.dst0 + call.n
    BY <1>1, <1>2a, <1>4 DEF Left
  <2> QED
    BY <1>4, <2>1 DEF WordsAligned
<1> QED
  BY <1>3, <1>4

(* For words of any size, memory of any size and any two areas that do not overlap,
   memcpy() of lib/libc/memcpy.c copies all bytes, memset() of memset.c sets them,
   neither touches another byte, and every word access is aligned and inside the areas. *)
THEOREM AreasAreWritten ==
  ASSUME wsize \in Nat \ {0}, Top \in Nat
  PROVE  Spec => [](AreasWritten /\ WordsAligned)
<1>1. LibcInit => CopyInv
  BY DEF LibcInit, CopyInv, Idle, Copying, AreasWritten, Addresses
<1>2. CopyInv /\ [LibcNext]_libcvars => CopyInv'
  <2> SUFFICES ASSUME CopyInv, [LibcNext]_libcvars PROVE CopyInv'
    OBVIOUS
  <2>1. CASE UNCHANGED libcvars
    BY <2>1 DEF libcvars, CopyInv, Copying, PlaceTrue, AlignTrue, CopiedSoFar, Left, AreasWritten
  <2>2. CASE LibcNext
    BY <2>2, CallStep, AlignStep, HeadStep, WordStep, WordsOverStep, TailStep, OverStep, OtherStep
       DEF LibcNext
  <2> QED
    BY <2>1, <2>2
<1>3. CopyInv => AreasWritten /\ WordsAligned
  BY InvWords DEF CopyInv
<1> QED
  BY <1>1, <1>2, <1>3, PTL DEF Spec
===============================================================================
