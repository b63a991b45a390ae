------------------------------ MODULE ListLemmas ------------------------------
(***************************************************************************)
(* What list_add_*() and list_del() do to a list kept as a sequence.       *)
(***************************************************************************)
EXTENDS SequencesExt, SequenceTheorems, TLAPS

(* What SequencesExt!RemoveAt returns. *)
LEMMA RemoveAtProperties ==
  ASSUME NEW S, NEW s \in Seq(S), NEW i \in 1 .. Len(s)
  PROVE  /\ RemoveAt(s, i) \in Seq(S)
         /\ Len(RemoveAt(s, i)) = Len(s) - 1
         /\ \A j \in 1 .. (i - 1) : RemoveAt(s, i)[j] = s[j]
         /\ \A j \in i .. (Len(s) - 1) : RemoveAt(s, i)[j] = s[j + 1]
<1> DEFINE l == SubSeq(s, 1, i - 1)
           r == SubSeq(s, i + 1, Len(s))
<1>1. /\ l \in Seq(S) /\ Len(l) = i - 1
      /\ \A j \in 1 .. (i - 1) : l[j] = s[j]
  BY SubSeqProperties
<1>2. /\ r \in Seq(S) /\ Len(r) = Len(s) - i
      /\ \A j \in 1 .. (Len(s) - i) : r[j] = s[i + j]
  BY SubSeqProperties
<1> HIDE DEF l, r
<1>3. /\ l \o r \in Seq(S) /\ Len(l \o r) = Len(l) + Len(r)
      /\ \A j \in 1 .. (Len(l) + Len(r)) :
           (l \o r)[j] = IF j <= Len(l) THEN l[j] ELSE r[j - Len(l)]
  BY Zenon, <1>1, <1>2, ConcatProperties
<1>4. RemoveAt(s, i) = l \o r
  BY DEF RemoveAt, l, r
<1>5. ASSUME NEW j \in 1 .. (i - 1) PROVE RemoveAt(s, i)[j] = s[j]
  <2>1. j \in 1 .. (Len(l) + Len(r)) /\ j <= Len(l)
    BY <1>1, <1>2
  <2>2. (l \o r)[j] = l[j]
    BY Zenon, <2>1, <1>3
  <2> QED
    BY Zenon, <2>2, <1>1, <1>4
<1>6. ASSUME NEW j \in i .. (Len(s) - 1) PROVE RemoveAt(s, i)[j] = s[j + 1]
  <2>0. j \in 1 .. (Len(l) + Len(r)) /\ ~(j <= Len(l))
    BY <1>1, <1>2
  <2>1. RemoveAt(s, i)[j] = r[j - (i - 1)]
    BY Zenon, <2>0, <1>1, <1>3, <1>4
  <2>2. j - (i - 1) \in 1 .. (Len(s) - i) /\ i + (j - (i - 1)) = j + 1
    OBVIOUS
  <2> QED
    BY <2>1, <2>2, <1>2
<1>7. Len(l) + Len(r) = Len(s) - 1
  BY <1>1, <1>2
<1>8. RemoveAt(s, i) \in Seq(S) /\ Len(RemoveAt(s, i)) = Len(s) - 1
  BY <1>3, <1>4, <1>7
<1> QED
  BY <1>5, <1>6, <1>8

(* What SequencesExt!InsertAt returns. *)
LEMMA InsertAtProperties ==
  ASSUME NEW S, NEW s \in Seq(S), NEW i \in 1 .. (Len(s) + 1), NEW e \in S
  PROVE  /\ InsertAt(s, i, e) \in Seq(S)
         /\ Len(InsertAt(s, i, e)) = Len(s) + 1
         /\ \A j \in 1 .. (i - 1) : InsertAt(s, i, e)[j] = s[j]
         /\ InsertAt(s, i, e)[i] = e
         /\ \A j \in (i + 1) .. (Len(s) + 1) : InsertAt(s, i, e)[j] = s[j - 1]
<1> DEFINE l == SubSeq(s, 1, i - 1)
           m == <<e>>
           r == SubSeq(s, i, Len(s))
<1>1. /\ l \in Seq(S) /\ Len(l) = i - 1
      /\ \A j \in 1 .. (i - 1) : l[j] = s[j]
  BY SubSeqProperties
<1>2. /\ r \in Seq(S) /\ Len(r) = Len(s) - i + 1
      /\ \A j \in 1 .. (Len(s) - i + 1) : r[j] = s[i + j - 1]
  BY SubSeqProperties
<1>3. m \in Seq(S) /\ Len(m) = 1 /\ m[1] = e
  OBVIOUS
<1> HIDE DEF l, m, r
<1> DEFINE lm == l \o m
<1>4. /\ lm \in Seq(S) /\ Len(lm) = i
      /\ \A j \in 1 .. i : lm[j] = IF j <= i - 1 THEN l[j] ELSE m[j - (i - 1)]
  <2>1. /\ lm \in Seq(S) /\ Len(lm) = Len(l) + Len(m)
        /\ \A j \in 1 .. (Len(l) + Len(m)) :
             lm[j] = IF j <= Len(l) THEN l[j] ELSE m[j - Len(l)]
    BY Zenon, <1>1, <1>3, ConcatProperties
  <2> HIDE DEF lm
  <2>2. Len(l) + Len(m) = i
    BY <1>1, <1>3
  <2> QED
    BY <2>1, <2>2, <1>1
<1> HIDE DEF lm
<1>5. /\ lm \o r \in Seq(S) /\ Len(lm \o r) = Len(s) + 1
      /\ \A j \in 1 .. (Len(s) + 1) :
           (lm \o r)[j] = IF j <= i THEN lm[j] ELSE r[j - i]
  <2>1. /\ lm \o r \in Seq(S) /\ Len(lm \o r) = Len(lm) + Len(r)
        /\ \A j \in 1 .. (Len(lm) + Len(r)) :
             (lm \o r)[j] = IF j <= Len(lm) THEN lm[j] ELSE r[j - Len(lm)]
    BY <1>2, <1>4, ConcatProperties
  <2>2. Len(lm) + Len(r) = Len(s) + 1
    BY <1>2, <1>4
  <2> QED
    BY <2>1, <2>2, <1>4
<1>6. InsertAt(s, i, e) = lm \o r
  BY DEF InsertAt, lm, l, m, r
<1>7. ASSUME NEW j \in 1 .. (i - 1) PROVE InsertAt(s, i, e)[j] = s[j]
  <2>1. j \in 1 .. (Len(s) + 1) /\ j \in 1 .. i /\ j <= i /\ j <= i - 1
    OBVIOUS
  <2> QED
    BY Zenon, <2>1, <1>1, <1>4, <1>5, <1>6
<1>8. InsertAt(s, i, e)[i] = e
  <2>1. i \in 1 .. (Len(s) + 1) /\ i \in 1 .. i /\ i <= i /\ ~(i <= i - 1)
    OBVIOUS
  <2>2. InsertAt(s, i, e)[i] = m[i - (i - 1)]
    BY Zenon, <2>1, <1>4, <1>5, <1>6
  <2>3. i - (i - 1) = 1
    OBVIOUS
  <2> QED
    BY Zenon, <2>2, <2>3, <1>3
<1>9. ASSUME NEW j \in (i + 1) .. (Len(s) + 1)
      PROVE  InsertAt(s, i, e)[j] = s[j - 1]
  <2>0. j \in 1 .. (Len(s) + 1) /\ ~(j <= i)
    OBVIOUS
  <2>1. InsertAt(s, i, e)[j] = r[j - i]
    BY Zenon, <2>0, <1>5, <1>6
  <2>2. j - i \in 1 .. (Len(s) - i + 1) /\ i + (j - i) - 1 = j - 1
    OBVIOUS
  <2> QED
    BY <2>1, <2>2, <1>2
<1> QED
  BY <1>5, <1>6, <1>7, <1>8, <1>9
===============================================================================
