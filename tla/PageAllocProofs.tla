---------------------------- MODULE PageAllocProofs ----------------------------
(***************************************************************************)
(* Proofs about PageAlloc, for every memory map and every request size.    *)
(***************************************************************************)
EXTENDS PageAlloc, ListLemmas, FiniteSetTheorems

(* In address order, without empty blocks; neighbours may touch.  This is what
   holds between the insertion and the merges of __free(). *)
Ordered(s) ==
  /\ \A i \in 1 .. Len(s) : s[i].size > 0
  /\ \A i, j \in 1 .. Len(s) : i < j => s[i].paddr + s[i].size <= s[j].paddr

(* ListCoalesced, of any list. *)
Coalesced(s) ==
  /\ \A i \in 1 .. Len(s) : s[i].size > 0
  /\ \A i, j \in 1 .. Len(s) : i < j => s[i].paddr + s[i].size < s[j].paddr

(* A list of blocks; named so that the provers see Seq only where it matters. *)
BlockList(s) == s \in Seq(Block)

-------------------------------------------------------------------------------
(* The fields of the blocks of a list. *)
LEMMA BlockFields ==
  ASSUME NEW s, BlockList(s)
  PROVE  /\ Len(s) \in Nat
         /\ DOMAIN s = 1 .. Len(s)
         /\ \A i \in 1 .. Len(s) : s[i] \in Block /\ s[i].paddr \in Nat /\ s[i].size \in Nat
<1>1. Len(s) \in Nat /\ DOMAIN s = 1 .. Len(s)
  BY LenProperties DEF BlockList
<1>2. ASSUME NEW i \in 1 .. Len(s)
      PROVE  s[i] \in Block /\ s[i].paddr \in Nat /\ s[i].size \in Nat
  <2>1. s[i] \in Block
    BY ElementOfSeq DEF BlockList
  <2> QED
    BY <2>1 DEF Block
<1> QED
  BY <1>1, <1>2

(* When a frame belongs to one of the blocks of a list. *)
LEMMA ListFramesMember ==
  ASSUME NEW s, BlockList(s), NEW f
  PROVE  f \in ListFrames(s) <=>
           /\ f \in Int
           /\ \E i \in 1 .. Len(s) : s[i].paddr <= f /\ f < s[i].paddr + s[i].size
<1>1. DOMAIN s = 1 .. Len(s) /\ \A i \in 1 .. Len(s) : s[i].paddr \in Nat /\ s[i].size \in Nat
  BY BlockFields
<1>2. f \in ListFrames(s) <=> \E i \in 1 .. Len(s) : f \in Frames(s[i].paddr, s[i].size)
  BY <1>1 DEF ListFrames
<1> QED
  BY <1>1, <1>2 DEF Frames

(* An ordered list in which no two neighbours touch has a gap between any two
   blocks. *)
LEMMA OrderedCoalesced ==
  ASSUME NEW s, BlockList(s)
  PROVE  Coalesced(s) <=> Ordered(s) /\ \A i \in Int : ~Touching(s, i)
<1>1. /\ Len(s) \in Nat
      /\ \A i \in 1 .. Len(s) : s[i].paddr \in Nat /\ s[i].size \in Nat
  BY BlockFields
<1>2. ASSUME Coalesced(s) PROVE Ordered(s) /\ \A i \in Int : ~Touching(s, i)
  <2>1. ASSUME NEW i \in Int, Touching(s, i) PROVE FALSE
    <3>1. i \in 1 .. Len(s) /\ i + 1 \in 1 .. Len(s) /\ i < i + 1
      BY <1>1, <2>1 DEF Touching
    <3>2. s[i].paddr + s[i].size < s[i + 1].paddr
      BY <1>2, <3>1 DEF Coalesced
    <3> QED
      BY <1>1, <2>1, <3>1, <3>2 DEF Touching
  <2>2. Ordered(s)
    BY <1>1, <1>2 DEF Coalesced, Ordered
  <2> QED
    BY <2>1, <2>2
<1>3. ASSUME Ordered(s), \A i \in Int : ~Touching(s, i),
             NEW i \in 1 .. Len(s), NEW j \in 1 .. Len(s), i < j
      PROVE  s[i].paddr + s[i].size < s[j].paddr
  <2>1. i + 1 \in 1 .. Len(s) /\ i \in 1 .. (Len(s) - 1)
    BY <1>3
  <2>2. s[i].paddr + s[i].size < s[i + 1].paddr
    <3>1. s[i].paddr + s[i].size <= s[i + 1].paddr
      BY <1>3, <2>1 DEF Ordered
    <3>2. s[i].paddr + s[i].size # s[i + 1].paddr
      BY <1>3, <2>1 DEF Touching
    <3>3. /\ s[i].paddr \in Nat /\ s[i].size \in Nat /\ s[i + 1].paddr \in Nat
      BY <1>1, <2>1
    <3> QED
      BY <3>1, <3>2, <3>3
  <2>3. CASE j = i + 1
    BY <2>2, <2>3
  <2>4. CASE i + 1 < j
    <3>1. s[i + 1].paddr + s[i + 1].size <= s[j].paddr /\ s[i + 1].size > 0
      BY <1>3, <2>1, <2>4 DEF Ordered
    <3>2. /\ s[i].paddr \in Nat /\ s[i].size \in Nat /\ s[j].paddr \in Nat
          /\ s[i + 1].paddr \in Nat /\ s[i + 1].size \in Nat
      BY <1>1, <2>1
    <3> QED
      BY SMTT(30), <2>2, <3>1, <3>2
  <2> QED
    BY <1>3, <2>3, <2>4
<1> QED
  BY <1>2, <1>3 DEF Coalesced, Ordered

(* Merging block i with its successor keeps the order and the frames, and moves
   the neighbours after it one place down. *)
LEMMA MergeProperties ==
  ASSUME NEW s, BlockList(s), NEW i \in Int, Ordered(s)
  PROVE  /\ BlockList(Merge(s, i))
         /\ Ordered(Merge(s, i))
         /\ ListFrames(Merge(s, i)) = ListFrames(s)
         /\ ~Touching(s, i) => Merge(s, i) = s
         /\ Touching(s, i) =>
              \A j \in Int : Touching(Merge(s, i), j) =>
                               IF j < i THEN Touching(s, j) ELSE Touching(s, j + 1)
<1>1. CASE ~Touching(s, i)
  BY <1>1 DEF Merge
<1>2. CASE Touching(s, i)
  <2> DEFINE b == [paddr |-> s[i].paddr, size |-> s[i].size + s[i + 1].size]
             t == ReplaceAt(s, i, b)
             m == RemoveAt(t, i + 1)
  <2>1. /\ i \in 1 .. (Len(s) - 1) /\ i \in 1 .. Len(s) /\ i + 1 \in 1 .. Len(s)
        /\ Len(s) \in Nat
        /\ s[i].paddr + s[i].size = s[i + 1].paddr
    BY <1>2 DEF Touching
  <2>2. \A j \in 1 .. Len(s) : s[j].paddr \in Nat /\ s[j].size \in Nat
    BY BlockFields
  <2>3. b \in Block /\ b.paddr = s[i].paddr /\ b.size = s[i].size + s[i + 1].size
    BY <2>1, <2>2 DEF Block
  <2> HIDE DEF b
  <2>4. /\ BlockList(t) /\ Len(t) = Len(s)
        /\ \A j \in 1 .. Len(s) : t[j] = IF j = i THEN b ELSE s[j]
    BY <2>1, <2>3, ExceptSeq DEF ReplaceAt, BlockList
  <2> HIDE DEF t
  <2>5. /\ BlockList(m) /\ Len(m) = Len(s) - 1
        /\ \A j \in 1 .. i : m[j] = t[j]
        /\ \A j \in (i + 1) .. (Len(s) - 1) : m[j] = t[j + 1]
    BY <2>1, <2>4, RemoveAtProperties DEF BlockList
  <2>6. Merge(s, i) = m
    BY <1>2 DEF Merge, m, t, b
  <2> HIDE DEF m
  <2>7. \A j \in 1 .. (Len(s) - 1) :
          m[j] = IF j < i THEN s[j] ELSE IF j = i THEN b ELSE s[j + 1]
    BY <2>1, <2>4, <2>5
  <2>8. Ordered(m)
    <3>1. ASSUME NEW j \in 1 .. Len(m) PROVE m[j].size > 0
      <4>1. \A l \in 1 .. Len(s) : s[l].size > 0
        BY DEF Ordered
      <4>2. CASE j = i
        BY SMTT(30), <2>1, <2>2, <2>3, <2>5, <2>7, <4>1, <4>2
      <4>3. CASE j # i
        <5>1. \E l \in 1 .. Len(s) : m[j] = s[l]
          BY <2>1, <2>5, <2>7, <4>3
        <5> QED
          BY <4>1, <5>1
      <4> QED
        BY <4>2, <4>3
    <3>2. ASSUME NEW j \in 1 .. Len(m), NEW l \in 1 .. Len(m), j < l
          PROVE  m[j].paddr + m[j].size <= m[l].paddr
      <4> DEFINE jj == IF j < i THEN j ELSE j + 1
                 ll == IF l <= i THEN l ELSE l + 1
      <4>1. jj \in 1 .. Len(s) /\ ll \in 1 .. Len(s) /\ jj <= ll
        BY <2>1, <2>5, <3>2
      <4>2. /\ s[jj].paddr \in Nat /\ s[jj].size \in Nat
            /\ s[ll].paddr \in Nat /\ s[ll].size \in Nat
        BY Zenon, <2>2, <4>1
      <4>3. m[j].paddr + m[j].size = s[jj].paddr + s[jj].size
        <5>1. CASE j = i
          <6>1. m[j].paddr = s[i].paddr /\ m[j].size = s[i].size + s[i + 1].size
            BY <2>3, <2>5, <2>7, <5>1
          <6>2. jj = i + 1
            BY <5>1, <2>1
          <6>3. s[i].paddr \in Nat /\ s[i].size \in Nat /\ s[i + 1].size \in Nat
            BY <2>1, <2>2
          <6> QED
            BY SMTT(30), <2>1, <6>1, <6>2, <6>3
        <5>2. CASE j # i
          BY SMTT(30), <2>1, <2>5, <2>7, <5>2
        <5> QED
          BY <5>1, <5>2
      <4>4. m[l].paddr = s[ll].paddr
        BY SMTT(30), <2>1, <2>3, <2>5, <2>7
      <4>5. jj < ll
        BY <2>1, <2>5, <3>2
      <4>6. s[jj].paddr + s[jj].size <= s[ll].paddr
        BY <4>1, <4>5 DEF Ordered
      <4> QED
        BY <4>3, <4>4, <4>6
    <3> QED
      BY <3>1, <3>2 DEF Ordered
  <2>9. ListFrames(m) = ListFrames(s)
    <3>1. ASSUME NEW f \in Int, NEW j \in 1 .. Len(m),
                 m[j].paddr <= f, f < m[j].paddr + m[j].size
          PROVE  \E l \in 1 .. Len(s) : s[l].paddr <= f /\ f < s[l].paddr + s[l].size
      <4>1. CASE j < i
        BY SMTT(30), <2>1, <2>5, <2>7, <3>1, <4>1
      <4>2. CASE j = i
        <5>1. s[i].paddr <= f /\ f < s[i].paddr + s[i].size + s[i + 1].size
          BY SMTT(30), <2>1, <2>2, <2>3, <2>5, <2>7, <3>1, <4>2
        <5> QED
          BY <2>1, <2>2, <5>1
      <4>3. CASE j > i
        <5>1. j + 1 \in 1 .. Len(s) /\ m[j] = s[j + 1]
          BY <2>1, <2>5, <2>7, <4>3
        <5> QED
          BY <3>1, <5>1
      <4> QED
        BY SMTT(30), <2>1, <2>5, <4>1, <4>2, <4>3
    <3>2. ASSUME NEW f \in Int, NEW l \in 1 .. Len(s),
                 s[l].paddr <= f, f < s[l].paddr + s[l].size
          PROVE  \E j \in 1 .. Len(m) : m[j].paddr <= f /\ f < m[j].paddr + m[j].size
      <4>1. CASE l < i
        BY SMTT(30), <2>1, <2>5, <2>7, <3>2, <4>1
      <4>2. CASE l = i \/ l = i + 1
        <5>1. m[i].paddr = s[i].paddr /\ m[i].size = s[i].size + s[i + 1].size
          BY SMTT(30), <2>1, <2>3, <2>7
        <5> QED
          <6>1. /\ s[i].paddr \in Nat /\ s[i].size \in Nat /\ s[i + 1].size \in Nat
                /\ s[i + 1].paddr = s[i].paddr + s[i].size
            BY <2>1, <2>2
          <6>2. s[i].paddr <= f /\ f < s[i].paddr + (s[i].size + s[i + 1].size)
            <7>1. CASE l = i
              BY <3>2, <6>1, <7>1
            <7>2. CASE l = i + 1
              <8>1. s[i + 1].paddr <= f /\ f < s[i + 1].paddr + s[i + 1].size
                BY <3>2, <7>2
              <8> QED
                BY SMTT(30), <6>1, <8>1
            <7> QED
              BY <4>2, <7>1, <7>2
          <6>3. i \in 1 .. Len(m)
            BY <2>1, <2>5
          <6> QED
            BY <5>1, <6>2, <6>3
      <4>3. CASE l > i + 1
        <5>1. l - 1 \in 1 .. Len(m) /\ m[l - 1] = s[(l - 1) + 1] /\ (l - 1) + 1 = l
          BY <2>1, <2>5, <2>7, <4>3
        <5> QED
          BY <3>2, <5>1
      <4> QED
        BY SMTT(30), <2>1, <4>1, <4>2, <4>3
    <3> QED
      <4>1. ASSUME NEW f PROVE f \in ListFrames(m) <=> f \in ListFrames(s)
        <5>1. f \in ListFrames(m) <=>
                /\ f \in Int
                /\ \E j \in 1 .. Len(m) : m[j].paddr <= f /\ f < m[j].paddr + m[j].size
          BY <2>5, ListFramesMember
        <5>2. f \in ListFrames(s) <=>
                /\ f \in Int
                /\ \E j \in 1 .. Len(s) : s[j].paddr <= f /\ f < s[j].paddr + s[j].size
          BY ListFramesMember
        <5> QED
          BY SMTT(30), <3>1, <3>2, <5>1, <5>2
      <4> QED
        BY <4>1
  <2>10. ASSUME NEW j \in Int, Touching(m, j)
         PROVE  IF j < i THEN Touching(s, j) ELSE Touching(s, j + 1)
    <3>1. /\ j \in 1 .. (Len(s) - 2) /\ m[j].paddr + m[j].size = m[j + 1].paddr
          /\ j \in 1 .. (Len(s) - 1) /\ j + 1 \in 1 .. (Len(s) - 1)
      BY <2>10, <2>5 DEF Touching
    <3>2. CASE j < i
      BY SMTT(30), <2>1, <2>3, <2>7, <3>1, <3>2 DEF Touching
    <3>3. CASE j = i
      <4>1. /\ m[i].paddr = s[i].paddr /\ m[i].size = s[i].size + s[i + 1].size
            /\ m[i + 1] = s[(i + 1) + 1] /\ i + 1 \in 1 .. (Len(s) - 1)
        BY SMTT(30), <2>1, <2>3, <2>7, <3>1, <3>3
      <4>2. s[i].paddr \in Nat /\ s[i].size \in Nat /\ s[i + 1].size \in Nat
        BY <2>1, <2>2
      <4>3. s[i + 1].paddr + s[i + 1].size = s[(i + 1) + 1].paddr
        BY SMTT(30), <2>1, <3>1, <3>3, <4>1, <4>2
      <4> QED
        BY SMTT(30), <3>3, <4>1, <4>3 DEF Touching
    <3>4. CASE j > i
      <4>1. m[j] = s[j + 1] /\ m[j + 1] = s[(j + 1) + 1]
        BY SMTT(30), <2>1, <2>7, <3>1, <3>4
      <4>2. j + 1 \in 1 .. (Len(s) - 1)
        BY <2>1, <3>1
      <4> QED
        BY SMTT(30), <3>1, <3>4, <4>1, <4>2 DEF Touching
    <3> QED
      BY <3>2, <3>3, <3>4
  <2> QED
    BY SMTT(30), <1>2, <2>5, <2>6, <2>8, <2>9, <2>10
<1> QED
  BY <1>1, <1>2
-------------------------------------------------------------------------------
(* The least element of a set of naturals is one of them. *)
LEMMA MinProperties ==
  ASSUME NEW S \in SUBSET Nat, S # {}
  PROVE  Min(S) \in S /\ \A x \in S : Min(S) <= x
<1>1. \E m \in S : \A x \in S : ~(<<x, m>> \in OpToRel(<, Nat))
  BY Zenon, NatLessThanWellFounded, WFMin
<1>2. PICK m \in S : \A x \in S : ~(<<x, m>> \in OpToRel(<, Nat))
  BY Zenon, <1>1
<1>3. \A x \in S : m <= x
  <2>1. ASSUME NEW x \in S, x < m PROVE FALSE
    BY Zenon, <1>2, <2>1 DEF OpToRel
  <2> QED
    BY <2>1
<1> QED
  BY Zenon, <1>3 DEF Min

(* Cutting size frames off block i removes exactly those from the list. *)
LEMMA CutProperties ==
  ASSUME BlockList(blocks), Coalesced(blocks),
         NEW i \in 1 .. Len(blocks), NEW size \in Nat, size <= blocks[i].size
  PROVE  /\ BlockList(Cut(i, size))
         /\ Coalesced(Cut(i, size))
         /\ Frames(blocks[i].paddr, size) \subseteq ListFrames(blocks)
         /\ ListFrames(Cut(i, size)) = ListFrames(blocks) \ Frames(blocks[i].paddr, size)
<1> DEFINE p == blocks[i].paddr
           c == Cut(i, size)
<1>1. /\ Len(blocks) \in Nat
      /\ \A j \in 1 .. Len(blocks) : blocks[j].paddr \in Nat /\ blocks[j].size \in Nat
  BY BlockFields
<1>2. /\ \A j \in 1 .. Len(blocks) : blocks[j].size > 0
      /\ \A j, l \in 1 .. Len(blocks) :
           j < l => blocks[j].paddr + blocks[j].size < blocks[l].paddr
  BY DEF Coalesced
<1>3. p \in Nat /\ blocks[i].size \in Nat
  BY <1>1
<1>4. Frames(p, size) = {f \in Int : p <= f /\ f < p + size}
  BY SMTT(30), <1>3 DEF Frames
<1>5. ASSUME NEW f \in Int, p <= f, f < p + size
      PROVE  p <= f /\ f < p + blocks[i].size
  BY <1>3, <1>5
<1>6. Frames(p, size) \subseteq ListFrames(blocks)
  BY <1>4, <1>5, ListFramesMember
(* A frame of another block is not one of those cut off. *)
<1>7. ASSUME NEW j \in 1 .. Len(blocks), j # i, NEW f \in Int,
             blocks[j].paddr <= f, f < blocks[j].paddr + blocks[j].size
      PROVE  ~(p <= f /\ f < p + size)
  <2>1. /\ blocks[j].paddr \in Nat /\ blocks[j].size \in Nat
    BY <1>1
  <2>2. CASE j < i
    <3>1. blocks[j].paddr + blocks[j].size < p
      BY <1>2, <2>2
    <3> QED
      BY SMTT(30), <1>3, <1>7, <2>1, <3>1
  <2>3. CASE i < j
    <3>1. p + blocks[i].size < blocks[j].paddr
      BY <1>2, <2>3
    <3> QED
      BY SMTT(30), <1>3, <1>7, <2>1, <3>1
  <2> QED
    BY <1>7, <2>2, <2>3
<1>8. CASE blocks[i].size = size
  <2>1. c = RemoveAt(blocks, i)
    BY <1>8 DEF Cut
  <2>2. /\ BlockList(c) /\ Len(c) = Len(blocks) - 1
        /\ \A j \in 1 .. (i - 1) : c[j] = blocks[j]
        /\ \A j \in i .. (Len(blocks) - 1) : c[j] = blocks[j + 1]
    BY Zenon, <2>1, RemoveAtProperties DEF BlockList
  <2> HIDE DEF c
  <2>3. ASSUME NEW j \in 1 .. Len(c)
        PROVE  \E l \in 1 .. Len(blocks) : l # i /\ c[j] = blocks[l]
                                           /\ l = IF j < i THEN j ELSE j + 1
    <3>1. CASE j < i
      BY <1>1, <2>2, <3>1
    <3>2. CASE ~(j < i)
      <4>1. j + 1 \in 1 .. Len(blocks) /\ c[j] = blocks[j + 1] /\ j + 1 # i
        BY <1>1, <2>2, <3>2
      <4> QED
        BY <3>2, <4>1
    <3> QED
      BY <3>1, <3>2
  <2>4. Coalesced(c)
    <3>1. ASSUME NEW j \in 1 .. Len(c) PROVE c[j].size > 0
      BY <1>2, <2>3
    <3>2. ASSUME NEW j \in 1 .. Len(c), NEW l \in 1 .. Len(c), j < l
          PROVE  c[j].paddr + c[j].size < c[l].paddr
      <4>1. PICK jj \in 1 .. Len(blocks) :
              c[j] = blocks[jj] /\ jj = IF j < i THEN j ELSE j + 1
        BY <2>3
      <4>2. PICK ll \in 1 .. Len(blocks) :
              c[l] = blocks[ll] /\ ll = IF l < i THEN l ELSE l + 1
        BY <2>3
      <4>3. jj < ll
        BY SMTT(30), <3>2, <4>1, <4>2
      <4> QED
        BY SMTT(30), <1>2, <4>1, <4>2, <4>3
    <3> QED
      BY <3>1, <3>2 DEF Coalesced
  <2>5. ASSUME NEW f
        PROVE  f \in ListFrames(c) <=> f \in ListFrames(blocks) \ Frames(p, size)
    <3>1. f \in ListFrames(c) <=>
            /\ f \in Int
            /\ \E j \in 1 .. Len(c) : c[j].paddr <= f /\ f < c[j].paddr + c[j].size
      BY <2>2, ListFramesMember
    <3>2. f \in ListFrames(blocks) <=>
            /\ f \in Int
            /\ \E j \in 1 .. Len(blocks) :
                 blocks[j].paddr <= f /\ f < blocks[j].paddr + blocks[j].size
      BY ListFramesMember
    <3>3. ASSUME f \in ListFrames(c)
          PROVE  f \in ListFrames(blocks) \ Frames(p, size)
      <4>1. PICK j \in 1 .. Len(c) : c[j].paddr <= f /\ f < c[j].paddr + c[j].size
        BY <3>1, <3>3
      <4>2. PICK l \in 1 .. Len(blocks) : l # i /\ c[j] = blocks[l]
        BY <2>3
      <4> QED
        BY SMTT(30), <1>4, <1>7, <3>1, <3>2, <3>3, <4>1, <4>2
    <3>4. ASSUME f \in ListFrames(blocks) \ Frames(p, size)
          PROVE  f \in ListFrames(c)
      <4>1. PICK l \in 1 .. Len(blocks) :
              blocks[l].paddr <= f /\ f < blocks[l].paddr + blocks[l].size
        BY <3>2, <3>4
      <4>2. l # i
        BY SMTT(30), <1>4, <1>8, <3>2, <3>4, <4>1
      <4>3. \E j \in 1 .. Len(c) : c[j] = blocks[l]
        <5>1. CASE l < i
          BY <1>1, <2>2, <5>1
        <5>2. CASE l > i
          <6>1. l - 1 \in i .. (Len(blocks) - 1) /\ (l - 1) + 1 = l /\ l - 1 \in 1 .. Len(c)
            BY <1>1, <2>2, <5>2
          <6> QED
            BY Zenon, <2>2, <6>1
        <5> QED
          BY <4>2, <5>1, <5>2
      <4> QED
        BY SMTT(30), <3>1, <3>2, <3>4, <4>1, <4>3
    <3> QED
      BY <3>3, <3>4
  <2> QED
    BY SMTT(30), <1>6, <2>2, <2>4, <2>5 DEF c
<1>9. CASE blocks[i].size # size
  <2> DEFINE b == [paddr |-> p + size, size |-> blocks[i].size - size]
  <2>1. c = ReplaceAt(blocks, i, b)
    BY <1>9 DEF Cut
  <2>2. b \in Block /\ b.paddr = p + size /\ b.size = blocks[i].size - size
    BY <1>3 DEF Block
  <2> HIDE DEF b
  <2>3. /\ BlockList(c) /\ Len(c) = Len(blocks)
        /\ \A j \in 1 .. Len(blocks) : c[j] = IF j = i THEN b ELSE blocks[j]
    BY SMTT(30), <2>1, <2>2, ExceptSeq DEF ReplaceAt, BlockList
  <2> HIDE DEF c
  <2>4. Coalesced(c)
    <3>1. ASSUME NEW j \in 1 .. Len(c) PROVE c[j].size > 0
      <4>1. CASE j = i
        BY SMTT(30), <1>3, <1>9, <2>2, <2>3, <4>1
      <4>2. CASE j # i
        BY <1>2, <2>3, <4>2
      <4> QED
        BY <4>1, <4>2
    <3>2. ASSUME NEW j \in 1 .. Len(c), NEW l \in 1 .. Len(c), j < l
          PROVE  c[j].paddr + c[j].size < c[l].paddr
      <4>1. blocks[j].paddr + blocks[j].size < blocks[l].paddr
        BY <1>2, <2>3, <3>2
      <4>2. /\ blocks[j].paddr \in Nat /\ blocks[j].size \in Nat
            /\ blocks[l].paddr \in Nat
        BY <1>1, <2>3
      <4>3. c[j].paddr + c[j].size = blocks[j].paddr + blocks[j].size
        <5>1. CASE j = i
          BY SMTT(30), <1>3, <2>2, <2>3, <5>1
        <5>2. CASE j # i
          BY <2>3, <5>2
        <5> QED
          BY <5>1, <5>2
      <4>4. c[l].paddr \in Nat /\ c[l].paddr >= blocks[l].paddr
        <5>1. CASE l = i
          BY SMTT(30), <1>3, <2>2, <2>3, <5>1
        <5>2. CASE l # i
          BY SMTT(30), <2>3, <4>2, <5>2
        <5> QED
          BY <5>1, <5>2
      <4> QED
        BY SMTT(30), <4>1, <4>2, <4>3, <4>4
    <3> QED
      BY <3>1, <3>2 DEF Coalesced
  <2>5. ASSUME NEW f
        PROVE  f \in ListFrames(c) <=> f \in ListFrames(blocks) \ Frames(p, size)
    <3>1. f \in ListFrames(c) <=>
            /\ f \in Int
            /\ \E j \in 1 .. Len(c) : c[j].paddr <= f /\ f < c[j].paddr + c[j].size
      BY SMTT(30), <2>3, ListFramesMember
    <3>2. f \in ListFrames(blocks) <=>
            /\ f \in Int
            /\ \E j \in 1 .. Len(blocks) :
                 blocks[j].paddr <= f /\ f < blocks[j].paddr + blocks[j].size
      BY ListFramesMember
    <3>3. ASSUME f \in ListFrames(c)
          PROVE  f \in ListFrames(blocks) \ Frames(p, size)
      <4>1. PICK j \in 1 .. Len(c) : c[j].paddr <= f /\ f < c[j].paddr + c[j].size
        BY <3>1, <3>3
      <4>2. f \in Int
        BY <3>1, <3>3
      <4>3. CASE j = i
        <5>1. p + size <= f /\ f < p + size + (blocks[i].size - size)
          BY SMTT(30), <2>2, <2>3, <4>1, <4>3
        <5>2. p <= f /\ f < p + blocks[i].size /\ ~(f < p + size)
          BY <1>3, <4>2, <5>1
        <5> QED
          BY SMTT(30), <1>4, <3>2, <4>2, <5>2
      <4>4. CASE j # i
        <5>1. blocks[j].paddr <= f /\ f < blocks[j].paddr + blocks[j].size /\ j \in 1 .. Len(blocks)
          BY <2>3, <4>1, <4>4
        <5> QED
          BY SMTT(30), <1>4, <1>7, <3>2, <4>2, <4>4, <5>1
      <4> QED
        BY SMTT(30), <4>3, <4>4
    <3>4. ASSUME f \in ListFrames(blocks) \ Frames(p, size)
          PROVE  f \in ListFrames(c)
      <4>1. PICK l \in 1 .. Len(blocks) :
              blocks[l].paddr <= f /\ f < blocks[l].paddr + blocks[l].size
        BY <3>2, <3>4
      <4>2. f \in Int
        BY <3>2, <3>4
      <4>3. CASE l = i
        <5>1. ~(p <= f /\ f < p + size)
          BY <1>4, <3>4, <4>2
        <5>2. c[l].paddr = p + size /\ c[l].size = blocks[i].size - size
          BY <2>2, <2>3, <4>3
        <5>3. c[l].paddr <= f /\ f < c[l].paddr + c[l].size
          BY SMTT(30), <1>3, <4>1, <4>2, <4>3, <5>1, <5>2
        <5> QED
          BY <2>3, <3>1, <4>2, <5>3
      <4>4. CASE l # i
        <5>1. c[l] = blocks[l] /\ l \in 1 .. Len(c)
          BY <2>3, <4>4
        <5> QED
          BY SMTT(30), <3>1, <4>1, <4>2, <5>1
      <4> QED
        BY SMTT(30), <4>3, <4>4
    <3> QED
      BY <3>3, <3>4
  <2> QED
    BY <1>6, <2>3, <2>4, <2>5 DEF c
<1> QED
  BY <1>8, <1>9

(* The search of __free() passes exactly the blocks that start below p. *)
LEMMA BeforeProperties ==
  ASSUME BlockList(blocks), Coalesced(blocks), NEW p \in Nat
  PROVE  /\ Before(p) \in 0 .. Len(blocks)
         /\ \A i \in 1 .. Len(blocks) : i <= Before(p) => blocks[i].paddr < p
         /\ \A i \in 1 .. Len(blocks) : i > Before(p) => blocks[i].paddr >= p
<1> DEFINE later == {i \in 1 .. Len(blocks) : blocks[i].paddr >= p}
<1>1. /\ Len(blocks) \in Nat
      /\ DOMAIN blocks = 1 .. Len(blocks)
      /\ \A j \in 1 .. Len(blocks) : blocks[j].paddr \in Nat /\ blocks[j].size \in Nat
  BY BlockFields
<1>2. Before(p) = IF later = {} THEN Len(blocks) ELSE Min(later) - 1
  BY <1>1 DEF Before
<1>3. CASE later = {}
  BY SMTT(30), <1>1, <1>2, <1>3
<1>4. CASE later # {}
  <2>1. later \in SUBSET Nat
    BY <1>1
  <2>2. Min(later) \in later /\ \A x \in later : Min(later) <= x
    BY Zenon, <1>4, <2>1, MinProperties
  <2>3. PICK m \in 1 .. Len(blocks) : /\ m = Min(later) /\ blocks[m].paddr >= p
                                      /\ \A x \in later : m <= x
    BY Zenon, <2>2
  <2>4. Before(p) = m - 1
    BY <1>2, <1>4, <2>3
  <2>5. ASSUME NEW i \in 1 .. Len(blocks), i <= m - 1
        PROVE  blocks[i].paddr < p
    <3>1. i \notin later
      BY <1>1, <2>3, <2>5
    <3> QED
      BY <1>1, <3>1
  <2>6. ASSUME NEW i \in 1 .. Len(blocks), i > m - 1
        PROVE  blocks[i].paddr >= p
    <3>1. CASE i = m
      BY <2>3, <3>1
    <3>2. CASE i > m
      <4>1. blocks[m].paddr + blocks[m].size < blocks[i].paddr
        BY <3>2 DEF Coalesced
      <4>2. /\ blocks[m].paddr \in Nat /\ blocks[m].size \in Nat
            /\ blocks[i].paddr \in Nat
        BY <1>1
      <4> QED
        BY SMTT(30), <2>3, <4>1, <4>2
    <3> QED
      BY <2>6, <3>1, <3>2
  <2>7. m - 1 \in 0 .. Len(blocks)
    BY <1>1
  <2> QED
    BY <2>4, <2>5, <2>6, <2>7
<1> QED
  BY <1>3, <1>4

(* The list after the insertion of __free(), before its merges. *)
Listed(p, n) == InsertAt(blocks, Before(p) + 1, [paddr |-> p, size |-> n])

(* The insertion keeps the order, adds the frames given back, and can only make
   the new block touch one of its neighbours. *)
LEMMA ListedProperties ==
  ASSUME BlockList(blocks), Coalesced(blocks),
         NEW p \in Nat, NEW n \in Nat, n > 0,
         Frames(p, n) \cap ListFrames(blocks) = {}
  PROVE  /\ BlockList(Listed(p, n))
         /\ Ordered(Listed(p, n))
         /\ ListFrames(Listed(p, n)) = ListFrames(blocks) \cup Frames(p, n)
         /\ Before(p) \in Nat
         /\ \A i \in Int : Touching(Listed(p, n), i) => i \in {Before(p), Before(p) + 1}
<1> DEFINE k == Before(p)
           b == [paddr |-> p, size |-> n]
           s == Listed(p, n)
           L == Len(blocks)
<1>1. /\ L \in Nat
      /\ \A j \in 1 .. L : blocks[j].paddr \in Nat /\ blocks[j].size \in Nat
  BY BlockFields
<1>2. /\ \A j \in 1 .. L : blocks[j].size > 0
      /\ \A j, l \in 1 .. L : j < l => blocks[j].paddr + blocks[j].size < blocks[l].paddr
  BY DEF Coalesced
<1>3. /\ k \in 0 .. L
      /\ \A i \in 1 .. L : i <= k => blocks[i].paddr < p
      /\ \A i \in 1 .. L : i > k => blocks[i].paddr >= p
  BY BeforeProperties
<1> HIDE DEF k
<1>4. b \in Block /\ b.paddr = p /\ b.size = n
  BY DEF Block
<1>5. s = InsertAt(blocks, k + 1, b)
  BY DEF Listed, k
<1> HIDE DEF b
<1>6. k + 1 \in 1 .. (L + 1)
  BY <1>1, <1>3
<1>7. /\ BlockList(s) /\ Len(s) = L + 1
      /\ \A j \in 1 .. ((k + 1) - 1) : s[j] = blocks[j]
      /\ s[k + 1] = b
      /\ \A j \in ((k + 1) + 1) .. (L + 1) : s[j] = blocks[j - 1]
  <2>1. blocks \in Seq(Block)
    BY DEF BlockList
  <2>2. PICK i \in 1 .. (Len(blocks) + 1) : i = k + 1
    BY <1>6
  <2>3. b \in Block
    BY <1>4
  <2>4. /\ InsertAt(blocks, i, b) \in Seq(Block)
        /\ Len(InsertAt(blocks, i, b)) = Len(blocks) + 1
        /\ \A j \in 1 .. (i - 1) : InsertAt(blocks, i, b)[j] = blocks[j]
        /\ InsertAt(blocks, i, b)[i] = b
        /\ \A j \in (i + 1) .. (Len(blocks) + 1) : InsertAt(blocks, i, b)[j] = blocks[j - 1]
    BY SMTT(30), <2>1, <2>2, <2>3, InsertAtProperties
  <2> QED
    BY <1>5, <2>2, <2>4 DEF BlockList
<1> HIDE DEF s
<1>8. /\ \A j \in 1 .. (L + 1) : j <= k => j \in 1 .. L /\ s[j] = blocks[j]
      /\ \A j \in 1 .. (L + 1) : j > k + 1 => j - 1 \in 1 .. L /\ s[j] = blocks[j - 1]
  <2>1. ASSUME NEW j \in 1 .. (L + 1), j <= k PROVE j \in 1 .. L /\ s[j] = blocks[j]
    <3>1. j \in 1 .. L /\ j \in 1 .. ((k + 1) - 1)
      BY SMTT(30), <1>1, <1>3, <2>1
    <3> QED
      BY <1>7, <3>1
  <2>2. ASSUME NEW j \in 1 .. (L + 1), j > k + 1
        PROVE  j - 1 \in 1 .. L /\ s[j] = blocks[j - 1]
    <3>1. j - 1 \in 1 .. L /\ j \in ((k + 1) + 1) .. (L + 1)
      BY SMTT(30), <1>1, <1>3, <2>2
    <3> QED
      BY <1>7, <3>1
  <2> QED
    BY <2>1, <2>2
(* The frames given back were not listed, so the new block fits in the gap. *)
<1>9. ASSUME NEW j \in 1 .. L, j <= k
      PROVE  blocks[j].paddr + blocks[j].size <= p
  <2>1. blocks[j].paddr \in Nat /\ blocks[j].size \in Nat /\ blocks[j].paddr < p
    BY <1>1, <1>3, <1>9
  <2>2. p \in Frames(p, n)
    BY DEF Frames
  <2>3. p \notin ListFrames(blocks)
    BY <2>2
  <2>4. ~(blocks[j].paddr <= p /\ p < blocks[j].paddr + blocks[j].size)
    BY <2>3, ListFramesMember
  <2> QED
    BY <2>1, <2>4
<1>10. ASSUME NEW j \in 1 .. L, j > k
       PROVE  p + n <= blocks[j].paddr
  <2>1. blocks[j].paddr \in Nat /\ blocks[j].size \in Nat /\ blocks[j].paddr >= p
    BY SMTT(30), <1>1, <1>3, <1>10
  <2>2. blocks[j].size > 0
    BY <1>2
  <2>3. blocks[j].paddr \in ListFrames(blocks)
    <3>1. /\ blocks[j].paddr \in Int /\ blocks[j].paddr <= blocks[j].paddr
          /\ blocks[j].paddr < blocks[j].paddr + blocks[j].size
      BY <2>1, <2>2
    <3> QED
      BY <3>1, ListFramesMember
  <2>4. blocks[j].paddr \notin Frames(p, n)
    BY <2>3
  <2> QED
    BY <2>1, <2>4 DEF Frames
<1>11. Ordered(s)
  <2>1. ASSUME NEW j \in 1 .. Len(s) PROVE s[j].size > 0
    <3>1. j <= k \/ j = k + 1 \/ j > k + 1
      BY <1>3, <1>7
    <3> QED
      BY SMTT(30), <1>2, <1>4, <1>7, <1>8, <2>1, <3>1
  <2>2. ASSUME NEW j \in 1 .. Len(s), NEW l \in 1 .. Len(s), j < l
        PROVE  s[j].paddr + s[j].size <= s[l].paddr
    <3>1. CASE l <= k
      <4>1. /\ j \in 1 .. L /\ l \in 1 .. L /\ s[j] = blocks[j] /\ s[l] = blocks[l]
        BY SMTT(30), <1>3, <1>7, <1>8, <2>2, <3>1
      <4> QED
        BY SMTT(30), <1>1, <1>2, <2>2, <4>1
    <3>2. CASE l = k + 1
      <4>1. j \in 1 .. L /\ j <= k /\ s[j] = blocks[j] /\ s[l].paddr = p
        BY SMTT(30), <1>3, <1>4, <1>7, <1>8, <2>2, <3>2
      <4> QED
        BY <1>9, <4>1
    <3>3. CASE l > k + 1 /\ j = k + 1
      <4>1. l - 1 \in 1 .. L /\ l - 1 > k /\ s[l] = blocks[l - 1] /\ s[j].paddr = p /\ s[j].size = n
        BY SMTT(30), <1>3, <1>4, <1>7, <1>8, <2>2, <3>3
      <4> QED
        BY <1>10, <4>1
    <3>4. CASE l > k + 1 /\ j <= k
      <4>1. j \in 1 .. L /\ l - 1 \in 1 .. L /\ s[l] = blocks[l - 1] /\ s[j] = blocks[j] /\ j < l - 1
        BY <1>3, <1>7, <1>8, <2>2, <3>4
      <4> QED
        BY SMTT(30), <1>1, <1>2, <4>1
    <3>5. CASE l > k + 1 /\ j > k + 1
      <4>1. /\ j - 1 \in 1 .. L /\ l - 1 \in 1 .. L
            /\ s[l] = blocks[l - 1] /\ s[j] = blocks[j - 1] /\ j - 1 < l - 1
        BY <1>3, <1>7, <1>8, <2>2, <3>5
      <4>2. blocks[j - 1].paddr + blocks[j - 1].size < blocks[l - 1].paddr
        BY <1>2, <4>1
      <4>3. /\ blocks[j - 1].paddr \in Nat /\ blocks[j - 1].size \in Nat
            /\ blocks[l - 1].paddr \in Nat
        BY <1>1, <4>1
      <4> QED
        BY SMTT(30), <4>1, <4>2, <4>3
    <3> QED
      BY SMTT(30), <1>3, <1>7, <3>1, <3>2, <3>3, <3>4, <3>5
  <2> QED
    BY <2>1, <2>2 DEF Ordered
<1>12. ASSUME NEW i \in Int, Touching(s, i), i # k, i # k + 1
       PROVE  FALSE
  <2>1. /\ i \in 1 .. L /\ i \in 1 .. (L + 1) /\ i + 1 \in 1 .. (L + 1)
        /\ s[i].paddr + s[i].size = s[i + 1].paddr
    BY SMTT(30), <1>1, <1>7, <1>12 DEF Touching
  <2>2. CASE i < k
    <3>1. /\ i + 1 \in 1 .. L /\ s[i] = blocks[i] /\ s[i + 1] = blocks[i + 1] /\ i < i + 1
      BY SMTT(30), <1>3, <1>8, <2>1, <2>2
    <3>2. blocks[i].paddr + blocks[i].size < blocks[i + 1].paddr
      BY SMTT(30), <1>2, <2>1, <3>1
    <3>3. /\ blocks[i].paddr \in Nat /\ blocks[i].size \in Nat /\ blocks[i + 1].paddr \in Nat
      BY SMTT(30), <1>1, <2>1, <3>1
    <3> QED
      BY SMTT(30), <2>1, <3>1, <3>2, <3>3
  <2>3. CASE i > k + 1
    <3>1. /\ i - 1 \in 1 .. L /\ s[i] = blocks[i - 1]
          /\ s[i + 1] = blocks[(i + 1) - 1] /\ (i + 1) - 1 = i
      BY SMTT(30), <1>3, <1>8, <2>1, <2>3
    <3>2. blocks[i - 1].paddr + blocks[i - 1].size < blocks[i].paddr
      BY <1>2, <2>1, <3>1
    <3>3. /\ blocks[i].paddr \in Nat /\ blocks[i - 1].size \in Nat /\ blocks[i - 1].paddr \in Nat
      BY <1>1, <2>1, <3>1
    <3> QED
      BY SMTT(30), <2>1, <3>1, <3>2, <3>3
  <2> QED
    BY SMTT(30), <1>3, <1>12, <2>2, <2>3
<1>13. ASSUME NEW f
       PROVE  f \in ListFrames(s) <=> f \in ListFrames(blocks) \cup Frames(p, n)
  <2>1. f \in ListFrames(s) <=>
          /\ f \in Int
          /\ \E j \in 1 .. Len(s) : s[j].paddr <= f /\ f < s[j].paddr + s[j].size
    BY <1>7, ListFramesMember
  <2>2. f \in ListFrames(blocks) <=>
          /\ f \in Int
          /\ \E j \in 1 .. L : blocks[j].paddr <= f /\ f < blocks[j].paddr + blocks[j].size
    BY ListFramesMember
  <2>3. f \in Frames(p, n) <=> f \in Int /\ p <= f /\ f < p + n
    BY DEF Frames
  <2>4. ASSUME f \in ListFrames(s)
        PROVE  f \in ListFrames(blocks) \cup Frames(p, n)
    <3>1. PICK j \in 1 .. (L + 1) : s[j].paddr <= f /\ f < s[j].paddr + s[j].size
      BY <1>7, <2>1, <2>4
    <3>2. j <= k \/ j = k + 1 \/ j > k + 1
      BY <1>3
    <3> QED
      BY Zenon, <1>4, <1>7, <1>8, <2>1, <2>2, <2>3, <2>4, <3>1, <3>2
  <2>5. ASSUME f \in Frames(p, n)
        PROVE  f \in ListFrames(s)
    BY SMTT(30), <1>4, <1>6, <1>7, <2>1, <2>3, <2>5
  <2>6. ASSUME f \in ListFrames(blocks)
        PROVE  f \in ListFrames(s)
    <3>1. PICK j \in 1 .. L : blocks[j].paddr <= f /\ f < blocks[j].paddr + blocks[j].size
      BY <2>2, <2>6
    <3>2. \E l \in 1 .. Len(s) : s[l] = blocks[j]
      <4>1. CASE j <= k
        BY SMTT(30), <1>1, <1>7, <1>8, <4>1
      <4>2. CASE j > k
        <5>1. j + 1 \in 1 .. (L + 1) /\ j + 1 > k + 1 /\ (j + 1) - 1 = j
          BY <1>1, <1>3, <4>2
        <5> QED
          BY <1>7, <1>8, <5>1
      <4> QED
        BY SMTT(30), <1>3, <4>1, <4>2
    <3> QED
      BY SMTT(30), <2>1, <2>2, <2>6, <3>1, <3>2
  <2> QED
    BY <2>4, <2>5, <2>6
<1> QED
  BY SMTT(30), <1>3, <1>7, <1>11, <1>12, <1>13 DEF k, s

(* __free() lists exactly the frames given back and leaves no two blocks that
   should be one. *)
LEMMA InsertProperties ==
  ASSUME BlockList(blocks), Coalesced(blocks),
         NEW p \in Nat, NEW n \in Nat, n > 0,
         Frames(p, n) \cap ListFrames(blocks) = {}
  PROVE  /\ BlockList(Insert(p, n))
         /\ Coalesced(Insert(p, n))
         /\ ListFrames(Insert(p, n)) = ListFrames(blocks) \cup Frames(p, n)
<1> DEFINE k == Before(p)
           s == Listed(p, n)
           down == Merge(s, k)
           this == IF Touching(s, k) THEN k ELSE k + 1
           up == Merge(down, this)
<1>1. Insert(p, n) = up
  BY DEF Insert, Listed
<1>2. /\ BlockList(s) /\ Ordered(s)
      /\ ListFrames(s) = ListFrames(blocks) \cup Frames(p, n)
      /\ k \in Nat
      /\ \A i \in Int : Touching(s, i) => i = k \/ i = k + 1
  BY ListedProperties
<1> HIDE DEF s, k
<1>3. k \in Int /\ this \in Int
  BY <1>2
<1>4. /\ BlockList(down) /\ Ordered(down) /\ ListFrames(down) = ListFrames(s)
      /\ ~Touching(s, k) => down = s
      /\ Touching(s, k) =>
           \A j \in Int : Touching(down, j) =>
                            IF j < k THEN Touching(s, j) ELSE Touching(s, j + 1)
  BY <1>2, <1>3, MergeProperties
<1> HIDE DEF down, this
<1>5. /\ BlockList(up) /\ Ordered(up) /\ ListFrames(up) = ListFrames(down)
      /\ ~Touching(down, this) => up = down
      /\ Touching(down, this) =>
           \A j \in Int : Touching(up, j) =>
                            IF j < this THEN Touching(down, j) ELSE Touching(down, j + 1)
  BY <1>3, <1>4, MergeProperties
<1> HIDE DEF up
(* After the downward merge only the block that holds the pages may touch. *)
<1>6. ASSUME NEW j \in Int, Touching(down, j)
      PROVE  j = this
  <2>1. CASE Touching(s, k)
    <3>1. IF j < k THEN Touching(s, j) ELSE Touching(s, j + 1)
      BY <1>4, <1>6, <2>1
    <3>2. this = k
      BY <2>1 DEF this
    <3>3. CASE j < k
      BY <1>2, <1>3, <3>1, <3>3
    <3>4. CASE ~(j < k)
      <4>1. j + 1 \in Int /\ Touching(s, j + 1)
        BY <3>1, <3>4
      <4>2. j + 1 = k \/ j + 1 = k + 1
        BY <1>2, <4>1
      <4> QED
        BY <1>3, <3>2, <3>4, <4>2
    <3> QED
      BY <3>3, <3>4
  <2>2. CASE ~Touching(s, k)
    <3>1. down = s /\ this = k + 1
      BY <1>4, <2>2 DEF this
    <3> QED
      BY <1>2, <1>6, <2>2, <3>1
  <2> QED
    BY <2>1, <2>2
<1>7. ASSUME NEW j \in Int, Touching(up, j)
      PROVE  FALSE
  <2>1. CASE Touching(down, this)
    <3>1. IF j < this THEN Touching(down, j) ELSE Touching(down, j + 1)
      BY <1>5, <1>7, <2>1
    <3>2. CASE j < this
      BY <1>3, <1>6, <3>1, <3>2
    <3>3. CASE ~(j < this)
      <4>1. j + 1 \in Int /\ Touching(down, j + 1)
        BY <3>1, <3>3
      <4>2. j + 1 = this
        BY <1>6, <4>1
      <4> QED
        BY <1>3, <3>3, <4>2
    <3> QED
      BY <3>2, <3>3
  <2>2. CASE ~Touching(down, this)
    BY <1>5, <1>6, <1>7, <2>2
  <2> QED
    BY <2>1, <2>2
<1>8. Coalesced(up)
  BY <1>5, <1>7, OrderedCoalesced
<1> QED
  BY <1>1, <1>2, <1>4, <1>5, <1>8

(* A run of free frames lies within one block: the frame after the end of a
   block of a coalesced list is not free. *)
LEMMA RunInBlock ==
  ASSUME BlockList(blocks), Coalesced(blocks), NEW q, NEW n \in Nat,
         q \in ListFrames(blocks), Frames(q, n) \subseteq ListFrames(blocks)
  PROVE  /\ q \in Int
         /\ \E j \in 1 .. Len(blocks) :
              /\ blocks[j].paddr <= q /\ blocks[j].size >= n
              /\ q + n <= blocks[j].paddr + blocks[j].size
<1>1. /\ Len(blocks) \in Nat
      /\ \A j \in 1 .. Len(blocks) : blocks[j].paddr \in Nat /\ blocks[j].size \in Nat
  BY BlockFields
<1>2. /\ \A j \in 1 .. Len(blocks) : blocks[j].size > 0
      /\ \A j, l \in 1 .. Len(blocks) :
           j < l => blocks[j].paddr + blocks[j].size < blocks[l].paddr
  BY DEF Coalesced
<1>3. q \in Int /\ \E j \in 1 .. Len(blocks) :
                     blocks[j].paddr <= q /\ q < blocks[j].paddr + blocks[j].size
  BY ListFramesMember
<1>4. PICK j \in 1 .. Len(blocks) :
        blocks[j].paddr <= q /\ q < blocks[j].paddr + blocks[j].size
  BY <1>3
<1> DEFINE e == blocks[j].paddr + blocks[j].size
<1>5. e \in Int /\ blocks[j].paddr \in Nat /\ blocks[j].size \in Nat
  BY <1>1
<1>6. ASSUME e < q + n PROVE FALSE
  <2>1. e \in Frames(q, n)
    BY <1>3, <1>4, <1>5, <1>6 DEF Frames
  <2>2. PICK l \in 1 .. Len(blocks) :
          blocks[l].paddr <= e /\ e < blocks[l].paddr + blocks[l].size
    BY <2>1, ListFramesMember
  <2>3. blocks[l].paddr \in Nat /\ blocks[l].size \in Nat
    BY <1>1
  <2>4. CASE l < j
    <3>1. blocks[l].paddr + blocks[l].size < blocks[j].paddr
      BY <1>2, <2>4
    <3> QED
      BY <1>5, <2>2, <2>3, <3>1
  <2>5. CASE l = j
    BY <1>5, <2>2, <2>5
  <2>6. CASE l > j
    <3>1. e < blocks[l].paddr
      BY <1>2, <2>6
    <3> QED
      BY SMTT(30), <1>5, <2>2, <2>3, <3>1
  <2> QED
    BY <2>4, <2>5, <2>6
<1>7. q + n <= e /\ blocks[j].size >= n
  BY <1>3, <1>4, <1>5, <1>6
<1> QED
  BY <1>3, <1>4, <1>7

(* First fit takes the first block that is large enough, and that is the lowest
   run of free frames of that length. *)
LEMMA FirstFit ==
  ASSUME BlockList(blocks), Coalesced(blocks), NEW n \in Nat, Fits(n) # {}
  PROVE  /\ Min(Fits(n)) \in 1 .. Len(blocks)
         /\ blocks[Min(Fits(n))].size >= n
         /\ blocks[Min(Fits(n))].paddr \in ListFrames(blocks)
         /\ \A q \in ListFrames(blocks) :
              Frames(q, n) \subseteq ListFrames(blocks) => blocks[Min(Fits(n))].paddr <= q
<1> DEFINE i == Min(Fits(n))
<1>1. /\ Len(blocks) \in Nat /\ DOMAIN blocks = 1 .. Len(blocks)
      /\ \A j \in 1 .. Len(blocks) : blocks[j].paddr \in Nat /\ blocks[j].size \in Nat
  BY BlockFields
<1>2. /\ \A j \in 1 .. Len(blocks) : blocks[j].size > 0
      /\ \A j, l \in 1 .. Len(blocks) :
           j < l => blocks[j].paddr + blocks[j].size < blocks[l].paddr
  BY DEF Coalesced
<1>3. Fits(n) \in SUBSET Nat /\ Fits(n) = {j \in 1 .. Len(blocks) : blocks[j].size >= n}
  BY <1>1 DEF Fits
<1>4. i \in Fits(n) /\ \A j \in Fits(n) : i <= j
  BY SMTT(30), <1>3, MinProperties
<1> HIDE DEF i
<1>5. i \in 1 .. Len(blocks) /\ blocks[i].size >= n
  BY <1>3, <1>4
<1>6. blocks[i].paddr \in Nat /\ blocks[i].size \in Nat /\ blocks[i].size > 0
  BY <1>1, <1>2, <1>5
<1>7. blocks[i].paddr \in ListFrames(blocks)
  <2>1. /\ blocks[i].paddr \in Int /\ blocks[i].paddr <= blocks[i].paddr
        /\ blocks[i].paddr < blocks[i].paddr + blocks[i].size
    BY <1>6
  <2> QED
    BY <1>5, <2>1, ListFramesMember
<1>8. ASSUME NEW q \in ListFrames(blocks), Frames(q, n) \subseteq ListFrames(blocks)
      PROVE  blocks[i].paddr <= q
  <2>1. q \in Int
    BY <1>8, RunInBlock
  <2>2. PICK j \in 1 .. Len(blocks) : blocks[j].paddr <= q /\ blocks[j].size >= n
    BY <1>8, RunInBlock
  <2>3. i <= j
    BY <1>3, <1>4, <2>2
  <2>4. CASE i = j
    BY <2>2, <2>4
  <2>5. CASE i < j
    <3>1. blocks[i].paddr + blocks[i].size < blocks[j].paddr
      BY <1>2, <1>5, <2>5
    <3>2. blocks[j].paddr \in Nat
      BY <1>1
    <3> QED
      BY SMTT(30), <1>6, <2>1, <2>2, <3>1, <3>2
  <2> QED
    BY <1>5, <2>3, <2>4, <2>5
<1> QED
  BY <1>5, <1>7, <1>8 DEF i

(* When no block is large enough there is no run of free frames either. *)
LEMMA NoFit ==
  ASSUME BlockList(blocks), Coalesced(blocks), NEW n \in Nat, Fits(n) = {},
         NEW q \in ListFrames(blocks)
  PROVE  ~(Frames(q, n) \subseteq ListFrames(blocks))
<1>1. SUFFICES ASSUME Frames(q, n) \subseteq ListFrames(blocks) PROVE FALSE
  OBVIOUS
<1>2. \E j \in 1 .. Len(blocks) : blocks[j].size >= n
  BY Zenon, <1>1, RunInBlock
<1>3. DOMAIN blocks = 1 .. Len(blocks)
  BY BlockFields
<1> QED
  BY <1>2, <1>3 DEF Fits

(* How many frames a run has. *)
LEMMA FramesCardinality ==
  ASSUME NEW p \in Nat, NEW n \in Nat
  PROVE  IsFiniteSet(Frames(p, n)) /\ Cardinality(Frames(p, n)) = n
<1>1. p + n - 1 \in Int
  OBVIOUS
<1>2. /\ IsFiniteSet(p .. (p + n - 1))
      /\ Cardinality(p .. (p + n - 1)) =
           IF p > p + n - 1 THEN 0 ELSE (p + n - 1) - p + 1
  BY <1>1, FS_Interval
<1> QED
  BY <1>2 DEF Frames

-------------------------------------------------------------------------------
(* The inductive invariant.  No part of it is inductive alone: that a cut or an
   insertion keeps the frames partitioned needs the order of the list, that the
   insertion keeps the order needs the frames given back to be disjoint from the
   listed ones, and the count needs both. *)
IInv ==
  /\ TypeOK
  /\ ListCoalesced
  /\ FramesPartitioned
  /\ AccountExact
  /\ EOFMeansNoRun

(* What the invariant says of the list and the free frames. *)
LEMMA InvariantFacts ==
  ASSUME IInv
  PROVE  /\ BlockList(blocks) /\ Coalesced(blocks)
         /\ ListFrames(blocks) \subseteq RAM /\ ListFrames(blocks) \cap owned = {}
         /\ ListFrames(blocks) \cup owned = RAM
         /\ IsFiniteSet(ListFrames(blocks))
         /\ free_space \in Nat /\ free_space = Cardinality(ListFrames(blocks))
<1>1. BlockList(blocks) /\ free_space \in Nat
  BY DEF IInv, TypeOK, BlockList
<1>2. DOMAIN blocks = 1 .. Len(blocks)
  BY <1>1, BlockFields
<1>3. Coalesced(blocks)
  BY <1>2 DEF IInv, ListCoalesced, Coalesced
<1>4. /\ ListFrames(blocks) \subseteq RAM /\ ListFrames(blocks) \cap owned = {}
      /\ ListFrames(blocks) \cup owned = RAM
  BY DEF IInv, FramesPartitioned, FreeFrames
<1>5. IsFiniteSet(ListFrames(blocks))
  BY <1>4, RAMAssumption, FS_Subset
<1>6. free_space = Cardinality(ListFrames(blocks))
  BY DEF IInv, AccountExact, get_free_memory, FreeFrames
<1> QED
  BY <1>1, <1>3, <1>4, <1>5, <1>6

(* A new list with its count and owners satisfies the list part of the
   invariant. *)
LEMMA NewList ==
  ASSUME BlockList(blocks'), Coalesced(blocks')
  PROVE  ListCoalesced' /\ FreeFrames' = ListFrames(blocks') /\ blocks' \in Seq(Block)
<1>1. DOMAIN blocks' = 1 .. Len(blocks')
  BY BlockFields
<1> QED
  BY <1>1 DEF ListCoalesced, Coalesced, FreeFrames, BlockList

(* The empty list of page_allocator_init(), with all RAM still outside, is sound. *)
LEMMA InitIInv ==
  Init => IInv
<1> SUFFICES ASSUME Init PROVE IInv
  OBVIOUS
<1>1. blocks = <<>> /\ free_space = 0 /\ owned = RAM /\ panicked = FALSE
  BY DEF Init
<1>2. FreeFrames = {}
  BY <1>1 DEF FreeFrames, ListFrames
<1>3. TypeOK
  <2>1. blocks \in Seq(Block)
    BY <1>1
  <2>2. reply \in [op : {"init", "alloc", "free", "misaligned"}, ret : {0, EOF},
                   paddr : Nat, size : Nat]
    BY DEF Init
  <2> QED
    BY Zenon, <1>1, <2>1, <2>2 DEF TypeOK
<1>4. ListCoalesced
  BY <1>1 DEF ListCoalesced
<1>5. FramesPartitioned
  BY <1>1, <1>2 DEF FramesPartitioned
<1>6. AccountExact
  BY <1>1, <1>2, FS_EmptySet DEF AccountExact, get_free_memory
<1>7. EOFMeansNoRun
  BY <1>2 DEF EOFMeansNoRun
<1> QED
  BY SMTT(30), <1>3, <1>4, <1>5, <1>6, <1>7 DEF IInv

(* Handing out frames, the last branch of __alloc(). *)
LEMMA GrantIInv ==
  ASSUME IInv, NEW n \in Nat, n <= free_space, Fits(n) # {},
         blocks' = Cut(Min(Fits(n)), n),
         owned' = owned \cup Frames(blocks[Min(Fits(n))].paddr, n),
         reply' = [op |-> "alloc", ret |-> 0,
                   paddr |-> blocks[Min(Fits(n))].paddr, size |-> n],
         free_space' = free_space - n, panicked' = panicked
  PROVE  IInv'
<1>1. /\ BlockList(blocks) /\ Coalesced(blocks)
      /\ ListFrames(blocks) \subseteq RAM /\ ListFrames(blocks) \cap owned = {}
      /\ ListFrames(blocks) \cup owned = RAM
      /\ IsFiniteSet(ListFrames(blocks))
      /\ free_space \in Nat /\ free_space = Cardinality(ListFrames(blocks))
  BY InvariantFacts
<1>2. PICK i \in 1 .. Len(blocks) : i = Min(Fits(n)) /\ blocks[i].size >= n
  BY <1>1, FirstFit
<1> DEFINE F == Frames(blocks[i].paddr, n)
<1>3. blocks[i].paddr \in Nat /\ blocks[i].size \in Nat
  BY SMTT(30), <1>1, <1>2, BlockFields
<1>4. n <= blocks[i].size
  BY <1>2, <1>3
<1>5. /\ BlockList(blocks') /\ Coalesced(blocks')
      /\ F \subseteq ListFrames(blocks) /\ ListFrames(blocks') = ListFrames(blocks) \ F
  BY <1>1, <1>2, <1>4, CutProperties
<1>6. ListCoalesced' /\ FreeFrames' = ListFrames(blocks) \ F /\ blocks' \in Seq(Block)
  BY <1>5, NewList
<1>7. owned' = owned \cup F
  BY <1>2
<1>8. FramesPartitioned'
  BY <1>1, <1>5, <1>6, <1>7 DEF FramesPartitioned
<1>9. AccountExact'
  <2>1. ListFrames(blocks) \cap F = F
    BY <1>5
  <2>2. Cardinality(F) = n
    BY <1>3, FramesCardinality
  <2>3. Cardinality(ListFrames(blocks) \ F) = Cardinality(ListFrames(blocks)) - n
    <3>1. Cardinality(ListFrames(blocks) \ F) =
            Cardinality(ListFrames(blocks)) - Cardinality(ListFrames(blocks) \cap F)
      BY ZenonT(30), <1>1, FS_Difference
    <3> QED
      BY Zenon, <2>1, <2>2, <3>1
  <2> QED
    BY <1>1, <1>6, <2>3 DEF AccountExact, get_free_memory
<1>10. TypeOK'
  <2>1. free_space' \in Nat
    BY <1>1
  <2>2. owned' \in SUBSET RAM
    BY SMTT(30), <1>1, <1>5, <1>7
  <2>3. reply' \in [op : {"init", "alloc", "free", "misaligned"}, ret : {0, EOF},
                    paddr : Nat, size : Nat]
    BY <1>2, <1>3
  <2>4. panicked' \in BOOLEAN
    BY DEF IInv, TypeOK
  <2> QED
    BY <1>6, <2>1, <2>2, <2>3, <2>4 DEF TypeOK
<1>11. EOFMeansNoRun'
  BY DEF EOFMeansNoRun, EOF
<1> QED
  BY SMTT(30), <1>6, <1>8, <1>9, <1>10, <1>11 DEF IInv

(* Taking frames back, the last branch of __free(). *)
LEMMA ReleaseIInv ==
  ASSUME IInv, NEW p \in RAM, NEW n \in Nat, n > 0, Frames(p, n) \subseteq owned,
         blocks' = Insert(p, n), free_space' = free_space + n,
         owned' = owned \ Frames(p, n),
         reply' = [op |-> "free", ret |-> 0, paddr |-> p, size |-> n],
         panicked' = panicked
  PROVE  IInv'
<1>1. /\ BlockList(blocks) /\ Coalesced(blocks)
      /\ ListFrames(blocks) \subseteq RAM /\ ListFrames(blocks) \cap owned = {}
      /\ ListFrames(blocks) \cup owned = RAM
      /\ IsFiniteSet(ListFrames(blocks))
      /\ free_space \in Nat /\ free_space = Cardinality(ListFrames(blocks))
  BY InvariantFacts
<1> DEFINE F == Frames(p, n)
<1>2. p \in Nat
  BY RAMAssumption
<1>3. F \cap ListFrames(blocks) = {}
  BY <1>1
<1>4. /\ BlockList(blocks') /\ Coalesced(blocks')
      /\ ListFrames(blocks') = ListFrames(blocks) \cup F
  BY <1>1, <1>2, <1>3, InsertProperties
<1>5. ListCoalesced' /\ FreeFrames' = ListFrames(blocks) \cup F /\ blocks' \in Seq(Block)
  BY <1>4, NewList
<1>6. FramesPartitioned'
  BY <1>1, <1>3, <1>5 DEF FramesPartitioned
<1>7. AccountExact'
  <2>1. IsFiniteSet(F) /\ Cardinality(F) = n
    BY <1>2, FramesCardinality
  <2>2. Cardinality(ListFrames(blocks) \cap F) = 0
    BY <1>3, FS_EmptySet
  <2>3. Cardinality(ListFrames(blocks) \cup F) =
          Cardinality(ListFrames(blocks)) + Cardinality(F) - Cardinality(ListFrames(blocks) \cap F)
    BY SMTT(30), <1>1, <2>1, FS_Union
  <2> QED
    BY SMTT(30), <1>1, <1>5, <2>1, <2>2, <2>3 DEF AccountExact, get_free_memory
<1>8. TypeOK'
  <2>1. free_space' \in Nat
    BY <1>1
  <2>2. owned' \in SUBSET RAM
    BY DEF IInv, TypeOK
  <2>3. reply' \in [op : {"init", "alloc", "free", "misaligned"}, ret : {0, EOF},
                    paddr : Nat, size : Nat]
    BY <1>2
  <2>4. panicked' \in BOOLEAN
    BY DEF IInv, TypeOK
  <2> QED
    BY SMTT(30), <1>5, <2>1, <2>2, <2>3, <2>4 DEF TypeOK
<1>9. EOFMeansNoRun'
  BY DEF EOFMeansNoRun
<1> QED
  BY SMTT(30), <1>5, <1>6, <1>7, <1>8, <1>9 DEF IInv

(* A call that leaves the memory as it was keeps the invariant if what it
   replies is right. *)
LEMMA UntouchedIInv ==
  ASSUME IInv, UNCHANGED <<blocks, free_space, owned>>,
         reply' \in [op : {"init", "alloc", "free", "misaligned"}, ret : {0, EOF},
                     paddr : Nat, size : Nat],
         panicked' \in BOOLEAN,
         EOFMeansNoRun'
  PROVE  IInv'
BY DEF IInv, TypeOK, ListCoalesced, FramesPartitioned, AccountExact, FreeFrames,
       get_free_memory

(* alloc_pages(), free_pages() and get_free_memory() keep the list sound. *)
LEMMA NextIInv ==
  IInv /\ [Next]_vars => IInv'
<1> SUFFICES ASSUME IInv, [Next]_vars PROVE IInv'
  OBVIOUS
<1>1. /\ BlockList(blocks) /\ Coalesced(blocks) /\ free_space \in Nat
  BY InvariantFacts
<1>2. /\ panicked \in BOOLEAN
      /\ reply \in [op : {"init", "alloc", "free", "misaligned"}, ret : {0, EOF},
                    paddr : Nat, size : Nat]
  BY DEF IInv, TypeOK
<1>3. ASSUME NEW n \in 0 .. MaxSize, NEW aligned \in BOOLEAN, NEW p \in InPaddr,
             Alloc(n, aligned, p)
      PROVE  IInv'
  <2>1. n \in Nat /\ p \in Nat
    BY MaxSizeAssumption, InPaddrAssumption
  <2>2. panicked' = panicked
    BY <1>3 DEF Alloc
  <2>3. CASE ~aligned /\ Reply("misaligned", 0, 0, 0) /\ UNCHANGED <<blocks, free_space, owned>>
    <3>1. reply' = [op |-> "misaligned", ret |-> 0, paddr |-> 0, size |-> 0]
      BY <2>3 DEF Reply
    <3>2. EOFMeansNoRun'
      BY <3>1 DEF EOFMeansNoRun
    <3> QED
      BY SMTT(30), <1>2, <2>2, <2>3, <3>1, <3>2, UntouchedIInv
  <2>4. CASE Reply("alloc", 0, p, n) /\ UNCHANGED <<blocks, free_space, owned>>
    <3>1. reply' = [op |-> "alloc", ret |-> 0, paddr |-> p, size |-> n]
      BY <2>4 DEF Reply
    <3>2. EOFMeansNoRun'
      BY <3>1 DEF EOFMeansNoRun, EOF
    <3> QED
      BY SMTT(30), <1>2, <2>1, <2>2, <2>4, <3>1, <3>2, UntouchedIInv
  <2>5. CASE /\ Fits(n) = {} /\ Reply("alloc", EOF, p, n)
             /\ UNCHANGED <<blocks, free_space, owned>>
    <3>1. reply' = [op |-> "alloc", ret |-> EOF, paddr |-> p, size |-> n]
      BY <2>5 DEF Reply
    <3>2. \A q \in ListFrames(blocks) : ~(Frames(q, n) \subseteq ListFrames(blocks))
      BY <1>1, <2>1, <2>5, NoFit
    <3>3. FreeFrames' = ListFrames(blocks)
      BY <2>5 DEF FreeFrames
    <3>4. EOFMeansNoRun'
      BY <3>1, <3>2, <3>3 DEF EOFMeansNoRun
    <3>5. EOF \in {0, EOF}
      OBVIOUS
    <3> QED
      BY SMTT(30), <1>2, <2>1, <2>2, <2>5, <3>1, <3>4, <3>5, UntouchedIInv
  <2>6. CASE /\ n <= free_space /\ Fits(n) # {}
             /\ blocks' = Cut(Min(Fits(n)), n)
             /\ owned' = owned \cup Frames(blocks[Min(Fits(n))].paddr, n)
             /\ Reply("alloc", 0, blocks[Min(Fits(n))].paddr, n)
             /\ free_space' = free_space - n
    BY SMTT(30), <2>1, <2>2, <2>6, GrantIInv DEF Reply
  <2> QED
    BY SMTT(30), <1>3, <2>3, <2>4, <2>5, <2>6 DEF Alloc
<1>4. ASSUME NEW n \in 0 .. MaxSize, NEW aligned \in BOOLEAN, NEW p \in RAM,
             Free(p, n, aligned)
      PROVE  IInv'
  <2>1. n \in Nat /\ n > 0 /\ Frames(p, n) \subseteq owned
    BY <1>4, MaxSizeAssumption DEF Free
  <2>2. CASE Reply("misaligned", 0, 0, 0) /\ UNCHANGED <<blocks, free_space, owned, panicked>>
    <3>1. reply' = [op |-> "misaligned", ret |-> 0, paddr |-> 0, size |-> 0]
      BY <2>2 DEF Reply
    <3>2. EOFMeansNoRun'
      BY <3>1 DEF EOFMeansNoRun
    <3> QED
      BY <1>2, <2>2, <3>1, <3>2, UntouchedIInv
  <2>3. CASE panicked' = TRUE /\ UNCHANGED <<blocks, free_space, owned, reply>>
    <3>1. EOFMeansNoRun'
      BY <2>3 DEF IInv, EOFMeansNoRun, FreeFrames
    <3> QED
      BY <1>2, <2>3, <3>1, UntouchedIInv
  <2>4. CASE /\ blocks' = Insert(p, n) /\ free_space' = free_space + n
             /\ owned' = owned \ Frames(p, n)
             /\ Reply("free", 0, p, n) /\ UNCHANGED panicked
    BY <2>1, <2>4, ReleaseIInv DEF Reply
  <2> QED
    BY Zenon, <1>4, <2>2, <2>3, <2>4 DEF Free
<1>5. CASE UNCHANGED vars
  <2>1. UNCHANGED <<blocks, free_space, owned, reply, panicked>>
    BY <1>5 DEF vars
  <2>2. EOFMeansNoRun'
    BY <2>1 DEF IInv, EOFMeansNoRun, FreeFrames
  <2> QED
    BY <1>2, <2>1, <2>2, UntouchedIInv
<1> QED
  BY <1>3, <1>4, <1>5 DEF Next, Panic

(* The inductive invariant holds of every behaviour, for every memory map,
   request size and content of pages->paddr. *)
THEOREM Invariance == Spec => []IInv
BY InitIInv, NextIInv, PTL DEF Spec

(* Types are respected: no address or size ever wraps. *)
THEOREM TypeCorrect == Spec => []TypeOK
<1>1. IInv => TypeOK
  BY DEF IInv
<1> QED
  BY <1>1, Invariance, PTL

(* Every frame is either on the free list or in the hands of a caller. *)
THEOREM FramesNeverShared == Spec => []FramesPartitioned
<1>1. IInv => FramesPartitioned
  BY DEF IInv
<1> QED
  BY <1>1, Invariance, PTL

(* The merges of __free() keep the list sorted and coalesced. *)
THEOREM ListStaysCoalesced == Spec => []ListCoalesced
<1>1. IInv => ListCoalesced
  BY DEF IInv
<1> QED
  BY <1>1, Invariance, PTL

(* get_free_memory() is always the number of free frames. *)
THEOREM AccountStaysExact == Spec => []AccountExact
<1>1. IInv => AccountExact
  BY DEF IInv
<1> QED
  BY <1>1, Invariance, PTL

(* EOF is returned only when there is no run of free frames long enough. *)
THEOREM EOFIsHonest == Spec => []EOFMeansNoRun
<1>1. IInv => EOFMeansNoRun
  BY DEF IInv
<1> QED
  BY <1>1, Invariance, PTL

-------------------------------------------------------------------------------
(* Every step of the block list is a step of the set of free frames, or leaves
   it alone. *)
LEMMA StoreStep ==
  IInv /\ [Next]_vars => [Store!Next]_(Store!vars)
<1> SUFFICES ASSUME IInv, [Next]_vars PROVE [Store!Next]_(Store!vars)
  OBVIOUS
<1>1. /\ BlockList(blocks) /\ Coalesced(blocks)
      /\ FreeFrames = ListFrames(blocks) /\ FreeFrames \cap owned = {}
      /\ FreeFrames \cup owned = RAM
      /\ free_space \in Nat /\ free_space = Cardinality(FreeFrames)
  BY InvariantFacts DEF FreeFrames
<1>2. \A q, n : Store!Run(q, n) = Frames(q, n)
  BY DEF Store!Run, Frames
<1> Store!Cardinality(FreeFrames) = Cardinality(FreeFrames)
  BY DEF Store!Cardinality, Cardinality
<1>3. ASSUME NEW n \in 0 .. MaxSize, NEW aligned \in BOOLEAN, NEW p \in InPaddr,
             Alloc(n, aligned, p)
      PROVE  Store!Next
  <2>1. n \in Nat /\ p \in Nat
    BY MaxSizeAssumption, InPaddrAssumption
  <2>2. CASE Reply("misaligned", 0, 0, 0) /\ UNCHANGED <<blocks, free_space, owned>>
    <3>1. Store!Ignore
      BY <2>2 DEF Store!Ignore, Reply, FreeFrames
    <3> QED
      BY <3>1 DEF Store!Next
  <2>3. CASE n > free_space /\ Reply("alloc", 0, p, n) /\ UNCHANGED <<blocks, free_space, owned>>
    <3>1. FreeFrames' = FreeFrames
      BY <2>3 DEF FreeFrames
    <3>2. Store!Overcommit(n, p)
      <4>1. n > Cardinality(FreeFrames)
        BY <1>1, <2>3
      <4> QED
        BY <2>3, <3>1, <4>1 DEF Store!Overcommit, Reply
    <3> QED
      BY <3>2 DEF Store!Next
  <2>4. CASE /\ n <= free_space /\ Fits(n) = {} /\ Reply("alloc", EOF, p, n)
             /\ UNCHANGED <<blocks, free_space, owned>>
    <3>1. FreeFrames' = FreeFrames
      BY <2>4 DEF FreeFrames
    <3>2. \A q \in FreeFrames : ~(Frames(q, n) \subseteq FreeFrames)
      BY <1>1, <2>1, <2>4, NoFit
    <3>3. Store!RunStarts(n) = {}
      BY <1>2, <3>2 DEF Store!RunStarts
    <3>4. Store!EOF = EOF
      BY DEF Store!EOF, EOF
    <3>5. Store!Fail(n, p)
      <4>1. n <= Cardinality(FreeFrames)
        BY <1>1, <2>4
      <4> QED
        BY SMTT(30), <2>4, <3>1, <3>3, <3>4, <4>1 DEF Store!Fail, Reply
    <3> QED
      BY <3>5 DEF Store!Next
  <2>5. CASE /\ n <= free_space /\ Fits(n) # {}
             /\ blocks' = Cut(Min(Fits(n)), n)
             /\ Reply("alloc", 0, blocks[Min(Fits(n))].paddr, n)
    <3>1. PICK i \in 1 .. Len(blocks) :
            /\ i = Min(Fits(n)) /\ blocks[i].size >= n /\ blocks[i].paddr \in FreeFrames
            /\ \A q \in FreeFrames : Frames(q, n) \subseteq FreeFrames => blocks[i].paddr <= q
      BY SMTT(30), <1>1, <2>1, <2>5, FirstFit
    <3>2. blocks[i].paddr \in Nat /\ blocks[i].size \in Nat
      BY SMTT(30), <1>1, <3>1, BlockFields
    <3>3. n <= blocks[i].size
      BY SMTT(30), <2>1, <3>1, <3>2
    <3>4. /\ Frames(blocks[i].paddr, n) \subseteq FreeFrames
          /\ FreeFrames' = FreeFrames \ Frames(blocks[i].paddr, n)
      BY SMTT(30), <1>1, <2>1, <2>5, <3>1, <3>3, CutProperties DEF FreeFrames
    <3>5. blocks[i].paddr \in Store!RunStarts(n)
      BY SMTT(30), <1>2, <3>1, <3>4 DEF Store!RunStarts
    <3>6. \A q \in Store!RunStarts(n) : blocks[i].paddr <= q
      BY SMTT(30), <1>2, <3>1 DEF Store!RunStarts
    <3>7. Store!Grant(n)
      <4>1. n <= Cardinality(FreeFrames)
        BY SMTT(30), <1>1, <2>5
      <4>2. FreeFrames' = FreeFrames \ Store!Run(blocks[i].paddr, n)
        BY Zenon, <1>2, <3>4
      <4>3. reply' = [op |-> "alloc", ret |-> 0, paddr |-> blocks[i].paddr, size |-> n]
        BY Zenon, <2>5, <3>1 DEF Reply
      <4> QED
        BY SMTT(30), <3>5, <3>6, <4>1, <4>2, <4>3 DEF Store!Grant
    <3> QED
      BY SMTT(30), <3>7 DEF Store!Next
  <2> QED
    BY <1>3, <2>2, <2>3, <2>4, <2>5 DEF Alloc
<1>4. ASSUME NEW n \in 0 .. MaxSize, NEW aligned \in BOOLEAN, NEW p \in RAM,
             Free(p, n, aligned)
      PROVE  [Store!Next]_(Store!vars)
  <2>1. n \in Nat /\ n > 0 /\ p \in Nat /\ Frames(p, n) \subseteq owned
    BY <1>4, MaxSizeAssumption, RAMAssumption DEF Free
  <2>2. CASE Reply("misaligned", 0, 0, 0) /\ UNCHANGED <<blocks, free_space, owned, panicked>>
    <3>1. Store!Ignore
      BY <2>2 DEF Store!Ignore, Reply, FreeFrames
    <3> QED
      BY <3>1 DEF Store!Next
  <2>3. CASE panicked' = TRUE /\ UNCHANGED <<blocks, free_space, owned, reply>>
    BY <2>3 DEF Store!vars, FreeFrames
  <2>4. CASE blocks' = Insert(p, n) /\ Reply("free", 0, p, n)
    <3>1. Frames(p, n) \cap ListFrames(blocks) = {}
      BY SMTT(30), <1>1, <2>1
    <3>2. FreeFrames' = FreeFrames \cup Frames(p, n)
      BY SMTT(30), <1>1, <2>1, <2>4, <3>1, InsertProperties DEF FreeFrames
    <3>3. Frames(p, n) \subseteq RAM \ FreeFrames
      BY SMTT(30), <1>1, <2>1
    <3>4. Store!Release(p, n)
      BY SMTT(30), <1>2, <2>1, <2>4, <3>2, <3>3 DEF Store!Release, Reply
    <3> QED
      BY <3>4 DEF Store!Next
  <2> QED
    BY Zenon, <1>4, <2>2, <2>3, <2>4 DEF Free
<1>5. CASE UNCHANGED vars
  BY <1>5 DEF vars, Store!vars, FreeFrames
<1> QED
  BY <1>3, <1>4, <1>5 DEF Next, Panic

(* The block list implements the set of free frames from which the lowest run
   that is long enough is handed out. *)
THEOREM Refinement == Spec => StoreSpec
<1>1. Init => Store!Init
  BY DEF Init, Store!Init, FreeFrames, ListFrames
<1> QED
  BY <1>1, Invariance, StoreStep, PTL DEF Spec, StoreSpec, Store!Spec
===============================================================================
