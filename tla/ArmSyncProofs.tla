----------------------------- MODULE ArmSyncProofs -----------------------------
(***************************************************************************)
(* Proofs about ArmSync, for any number of CPUs and any limit.             *)
(***************************************************************************)
EXTENDS ArmSync, FiniteSetTheorems, TLAPS

(* What a monitor that still watches a word says of it: nobody has stored to
   the word since the LDREX, so the STREX acts on what the register holds. *)
MonitorTrue ==
  \A c \in CPUs :
    /\ pc[c] = "strex" /\ monitor[c] = "lock" => lock = UNLOCKED
    /\ pc[c] = "dec_strex" /\ monitor[c] = "val" => reg[c] = semval - 1 /\ reg[c] >= 0
    /\ pc[c] = "inc_strex" /\ monitor[c] = "val" => reg[c] = semval + 1 /\ reg[c] <= Limit

OneHolder ==
  \A c, d \in CPUs : pc[c] \in Holding /\ pc[d] \in Holding => c = d

(* The inductive invariant of the lock. *)
LockInv ==
  /\ TypeOK
  /\ WordIsTrue
  /\ OneHolder
  /\ NoLostWakeup
  /\ MonitorTrue

USE DEF UNLOCKED, LOCKED

(* spinlock_init() and the idle CPUs satisfy the invariant of the lock. *)
LEMMA InitLockInv == Init => LockInv
<1> SUFFICES ASSUME Init PROVE LockInv
  OBVIOUS
<1>1. TypeOK
  BY LimitAssumption DEF Init, TypeOK, Places
<1>2. WordIsTrue /\ OneHolder /\ NoLostWakeup /\ MonitorTrue
  BY DEF Init, WordIsTrue, OneHolder, NoLostWakeup, MonitorTrue, Holding
<1> QED
  BY <1>1, <1>2 DEF LockInv

(* Every step of a CPU keeps the invariant. *)
LEMMA NextLockInv == LockInv /\ [Next]_vars => LockInv'
<1> SUFFICES ASSUME LockInv, [Next]_vars PROVE LockInv'
  OBVIOUS
<1> USE LimitAssumption, StaleRetAssumption DEF LockInv
<1>1. ASSUME NEW c \in CPUs, LockCall(c) PROVE LockInv'
  <2>1. TypeOK'
    BY <1>1 DEF LockCall, Goto, TypeOK, Places, Waiting, Holding, Permitted, MonitorTrue
  <2>2. WordIsTrue'
    BY <1>1 DEF LockCall, Goto, TypeOK, WordIsTrue, OneHolder, MonitorTrue, Holding
  <2>3. OneHolder'
    BY <1>1 DEF LockCall, Goto, TypeOK, WordIsTrue, OneHolder, MonitorTrue, Holding
  <2>4. NoLostWakeup'
    BY <1>1 DEF LockCall, Goto, TypeOK, NoLostWakeup, MonitorTrue
  <2>5. MonitorTrue'
    BY <1>1 DEF LockCall, Goto, TypeOK, MonitorTrue
  <2> QED
    BY <2>1, <2>2, <2>3, <2>4, <2>5
<1>2. ASSUME NEW c \in CPUs, LockLdrex(c) PROVE LockInv'
  <2>1. TypeOK'
    BY <1>2 DEF LockLdrex, Goto, Ldrex, TypeOK, Places, Waiting, Holding, Permitted, MonitorTrue
  <2>2. WordIsTrue'
    BY <1>2 DEF LockLdrex, Goto, Ldrex, TypeOK, WordIsTrue, OneHolder, MonitorTrue, Holding
  <2>3. OneHolder'
    BY <1>2 DEF LockLdrex, Goto, Ldrex, TypeOK, WordIsTrue, OneHolder, MonitorTrue, Holding
  <2>4. NoLostWakeup'
    BY <1>2 DEF LockLdrex, Goto, Ldrex, TypeOK, NoLostWakeup, MonitorTrue
  <2>5. MonitorTrue'
    BY <1>2 DEF LockLdrex, Goto, Ldrex, TypeOK, MonitorTrue
  <2> QED
    BY <2>1, <2>2, <2>3, <2>4, <2>5
<1>3. ASSUME NEW c \in CPUs, LockWfe(c) PROVE LockInv'
  <2>1. TypeOK'
    BY <1>3 DEF LockWfe, Goto, Wfe, TypeOK, Places, Waiting, Holding, Permitted, MonitorTrue
  <2>2. WordIsTrue'
    BY <1>3 DEF LockWfe, Goto, Wfe, TypeOK, WordIsTrue, OneHolder, MonitorTrue, Holding
  <2>3. OneHolder'
    BY <1>3 DEF LockWfe, Goto, Wfe, TypeOK, WordIsTrue, OneHolder, MonitorTrue, Holding
  <2>4. NoLostWakeup'
    BY <1>3 DEF LockWfe, Goto, Wfe, TypeOK, NoLostWakeup, MonitorTrue
  <2>5. MonitorTrue'
    BY <1>3 DEF LockWfe, Goto, Wfe, TypeOK, MonitorTrue
  <2> QED
    BY <2>1, <2>2, <2>3, <2>4, <2>5
<1>4. ASSUME NEW c \in CPUs, LockTaken(c) PROVE LockInv'
  <2>1. TypeOK'
    BY <1>4 DEF LockTaken, Goto, StrexSucceeds, Opened, TypeOK, Places, Waiting, Holding, Permitted, MonitorTrue
  <2>2. WordIsTrue'
    BY <1>4 DEF LockTaken, Goto, StrexSucceeds, Opened, TypeOK, WordIsTrue, OneHolder, MonitorTrue, Holding
  <2>3. OneHolder'
    BY <1>4 DEF LockTaken, Goto, StrexSucceeds, Opened, TypeOK, WordIsTrue, OneHolder, MonitorTrue, Holding
  <2>4. NoLostWakeup'
    BY <1>4 DEF LockTaken, Goto, StrexSucceeds, Opened, TypeOK, NoLostWakeup, MonitorTrue
  <2>5. MonitorTrue'
    BY <1>4 DEF LockTaken, Goto, StrexSucceeds, Opened, TypeOK, MonitorTrue
  <2> QED
    BY <2>1, <2>2, <2>3, <2>4, <2>5
<1>5. ASSUME NEW c \in CPUs, LockRefused(c) PROVE LockInv'
  <2>1. TypeOK'
    BY <1>5 DEF LockRefused, Goto, StrexFails, TypeOK, Places, Waiting, Holding, Permitted, MonitorTrue
  <2>2. WordIsTrue'
    BY <1>5 DEF LockRefused, Goto, StrexFails, TypeOK, WordIsTrue, OneHolder, MonitorTrue, Holding
  <2>3. OneHolder'
    BY <1>5 DEF LockRefused, Goto, StrexFails, TypeOK, WordIsTrue, OneHolder, MonitorTrue, Holding
  <2>4. NoLostWakeup'
    BY <1>5 DEF LockRefused, Goto, StrexFails, TypeOK, NoLostWakeup, MonitorTrue
  <2>5. MonitorTrue'
    BY <1>5 DEF LockRefused, Goto, StrexFails, TypeOK, MonitorTrue
  <2> QED
    BY <2>1, <2>2, <2>3, <2>4, <2>5
<1>6. ASSUME NEW c \in CPUs, UnlockTest(c) PROVE LockInv'
  <2>1. TypeOK'
    BY <1>6 DEF UnlockTest, Goto, TypeOK, Places, Waiting, Holding, Permitted, MonitorTrue
  <2>2. WordIsTrue'
    BY <1>6 DEF UnlockTest, Goto, TypeOK, WordIsTrue, OneHolder, MonitorTrue, Holding
  <2>3. OneHolder'
    BY <1>6 DEF UnlockTest, Goto, TypeOK, WordIsTrue, OneHolder, MonitorTrue, Holding
  <2>4. NoLostWakeup'
    BY <1>6 DEF UnlockTest, Goto, TypeOK, NoLostWakeup, MonitorTrue
  <2>5. MonitorTrue'
    BY <1>6 DEF UnlockTest, Goto, TypeOK, MonitorTrue
  <2> QED
    BY <2>1, <2>2, <2>3, <2>4, <2>5
<1>7. ASSUME NEW c \in CPUs, UnlockStore(c) PROVE LockInv'
  <2>1. TypeOK'
    BY <1>7 DEF UnlockStore, Goto, Opened, TypeOK, Places, Waiting, Holding, Permitted, MonitorTrue
  <2>2. WordIsTrue'
    BY <1>7 DEF UnlockStore, Goto, Opened, TypeOK, WordIsTrue, OneHolder, MonitorTrue, Holding
  <2>3. OneHolder'
    BY <1>7 DEF UnlockStore, Goto, Opened, TypeOK, WordIsTrue, OneHolder, MonitorTrue, Holding
  <2>4. NoLostWakeup'
    BY <1>7 DEF UnlockStore, Goto, Opened, TypeOK, NoLostWakeup, MonitorTrue
  <2>5. MonitorTrue'
    BY <1>7 DEF UnlockStore, Goto, Opened, TypeOK, MonitorTrue
  <2> QED
    BY <2>1, <2>2, <2>3, <2>4, <2>5
<1>8. ASSUME NEW c \in CPUs, UnlockSev(c) PROVE LockInv'
  <2>1. TypeOK'
    BY <1>8 DEF UnlockSev, Goto, TypeOK, Places, Waiting, Holding, Permitted, MonitorTrue
  <2>2. WordIsTrue'
    BY <1>8 DEF UnlockSev, Goto, TypeOK, WordIsTrue, OneHolder, MonitorTrue, Holding
  <2>3. OneHolder'
    BY <1>8 DEF UnlockSev, Goto, TypeOK, WordIsTrue, OneHolder, MonitorTrue, Holding
  <2>4. NoLostWakeup'
    BY <1>8 DEF UnlockSev, Goto, TypeOK, NoLostWakeup, MonitorTrue
  <2>5. MonitorTrue'
    BY <1>8 DEF UnlockSev, Goto, TypeOK, MonitorTrue
  <2> QED
    BY <2>1, <2>2, <2>3, <2>4, <2>5
<1>9. ASSUME NEW c \in CPUs, DecCall(c) PROVE LockInv'
  <2>1. TypeOK'
    BY <1>9 DEF DecCall, Goto, TypeOK, Places, Waiting, Holding, Permitted, MonitorTrue
  <2>2. WordIsTrue'
    BY <1>9 DEF DecCall, Goto, TypeOK, WordIsTrue, OneHolder, MonitorTrue, Holding
  <2>3. OneHolder'
    BY <1>9 DEF DecCall, Goto, TypeOK, WordIsTrue, OneHolder, MonitorTrue, Holding
  <2>4. NoLostWakeup'
    BY <1>9 DEF DecCall, Goto, TypeOK, NoLostWakeup, MonitorTrue
  <2>5. MonitorTrue'
    BY <1>9 DEF DecCall, Goto, TypeOK, MonitorTrue
  <2> QED
    BY <2>1, <2>2, <2>3, <2>4, <2>5
<1>10. ASSUME NEW c \in CPUs, DecLdrex(c) PROVE LockInv'
  <2>1. TypeOK'
    BY <1>10 DEF DecLdrex, Goto, Ldrex, TypeOK, Places, Waiting, Holding, Permitted, MonitorTrue
  <2>2. WordIsTrue'
    BY <1>10 DEF DecLdrex, Goto, Ldrex, TypeOK, WordIsTrue, OneHolder, MonitorTrue, Holding
  <2>3. OneHolder'
    BY <1>10 DEF DecLdrex, Goto, Ldrex, TypeOK, WordIsTrue, OneHolder, MonitorTrue, Holding
  <2>4. NoLostWakeup'
    BY <1>10 DEF DecLdrex, Goto, Ldrex, TypeOK, NoLostWakeup, MonitorTrue
  <2>5. MonitorTrue'
    BY <1>10 DEF DecLdrex, Goto, Ldrex, TypeOK, MonitorTrue
  <2> QED
    BY <2>1, <2>2, <2>3, <2>4, <2>5
<1>11. ASSUME NEW c \in CPUs, DecWfe(c) PROVE LockInv'
  <2>1. TypeOK'
    BY <1>11 DEF DecWfe, Goto, Wfe, TypeOK, Places, Waiting, Holding, Permitted, MonitorTrue
  <2>2. WordIsTrue'
    BY <1>11 DEF DecWfe, Goto, Wfe, TypeOK, WordIsTrue, OneHolder, MonitorTrue, Holding
  <2>3. OneHolder'
    BY <1>11 DEF DecWfe, Goto, Wfe, TypeOK, WordIsTrue, OneHolder, MonitorTrue, Holding
  <2>4. NoLostWakeup'
    BY <1>11 DEF DecWfe, Goto, Wfe, TypeOK, NoLostWakeup, MonitorTrue
  <2>5. MonitorTrue'
    BY <1>11 DEF DecWfe, Goto, Wfe, TypeOK, MonitorTrue
  <2> QED
    BY <2>1, <2>2, <2>3, <2>4, <2>5
<1>12. ASSUME NEW c \in CPUs, DecTaken(c) PROVE LockInv'
  <2>1. TypeOK'
    BY <1>12 DEF DecTaken, Goto, StrexSucceeds, Opened, TypeOK, Places, Waiting, Holding, Permitted, MonitorTrue
  <2>2. WordIsTrue'
    BY <1>12 DEF DecTaken, Goto, StrexSucceeds, Opened, TypeOK, WordIsTrue, OneHolder, MonitorTrue, Holding
  <2>3. OneHolder'
    BY <1>12 DEF DecTaken, Goto, StrexSucceeds, Opened, TypeOK, WordIsTrue, OneHolder, MonitorTrue, Holding
  <2>4. NoLostWakeup'
    BY <1>12 DEF DecTaken, Goto, StrexSucceeds, Opened, TypeOK, NoLostWakeup, MonitorTrue
  <2>5. MonitorTrue'
    BY <1>12 DEF DecTaken, Goto, StrexSucceeds, Opened, TypeOK, MonitorTrue
  <2> QED
    BY <2>1, <2>2, <2>3, <2>4, <2>5
<1>13. ASSUME NEW c \in CPUs, DecRefused(c) PROVE LockInv'
  <2>1. TypeOK'
    BY <1>13 DEF DecRefused, Goto, StrexFails, TypeOK, Places, Waiting, Holding, Permitted, MonitorTrue
  <2>2. WordIsTrue'
    BY <1>13 DEF DecRefused, Goto, StrexFails, TypeOK, WordIsTrue, OneHolder, MonitorTrue, Holding
  <2>3. OneHolder'
    BY <1>13 DEF DecRefused, Goto, StrexFails, TypeOK, WordIsTrue, OneHolder, MonitorTrue, Holding
  <2>4. NoLostWakeup'
    BY <1>13 DEF DecRefused, Goto, StrexFails, TypeOK, NoLostWakeup, MonitorTrue
  <2>5. MonitorTrue'
    BY <1>13 DEF DecRefused, Goto, StrexFails, TypeOK, MonitorTrue
  <2> QED
    BY <2>1, <2>2, <2>3, <2>4, <2>5
<1>14. ASSUME NEW c \in CPUs, IncCall(c) PROVE LockInv'
  <2>1. TypeOK'
    BY <1>14 DEF IncCall, Goto, TypeOK, Places, Waiting, Holding, Permitted, MonitorTrue
  <2>2. WordIsTrue'
    BY <1>14 DEF IncCall, Goto, TypeOK, WordIsTrue, OneHolder, MonitorTrue, Holding
  <2>3. OneHolder'
    BY <1>14 DEF IncCall, Goto, TypeOK, WordIsTrue, OneHolder, MonitorTrue, Holding
  <2>4. NoLostWakeup'
    BY <1>14 DEF IncCall, Goto, TypeOK, NoLostWakeup, MonitorTrue
  <2>5. MonitorTrue'
    BY <1>14 DEF IncCall, Goto, TypeOK, MonitorTrue
  <2> QED
    BY <2>1, <2>2, <2>3, <2>4, <2>5
<1>15. ASSUME NEW c \in CPUs, IncLdrex(c) PROVE LockInv'
  <2>1. TypeOK'
    BY <1>15 DEF IncLdrex, Goto, Ldrex, TypeOK, Places, Waiting, Holding, Permitted, MonitorTrue
  <2>2. WordIsTrue'
    BY <1>15 DEF IncLdrex, Goto, Ldrex, TypeOK, WordIsTrue, OneHolder, MonitorTrue, Holding
  <2>3. OneHolder'
    BY <1>15 DEF IncLdrex, Goto, Ldrex, TypeOK, WordIsTrue, OneHolder, MonitorTrue, Holding
  <2>4. NoLostWakeup'
    BY <1>15 DEF IncLdrex, Goto, Ldrex, TypeOK, NoLostWakeup, MonitorTrue
  <2>5. MonitorTrue'
    BY <1>15 DEF IncLdrex, Goto, Ldrex, TypeOK, MonitorTrue
  <2> QED
    BY <2>1, <2>2, <2>3, <2>4, <2>5
<1>16. ASSUME NEW c \in CPUs, IncDone(c) PROVE LockInv'
  <2>1. TypeOK'
    BY <1>16 DEF IncDone, Goto, StrexSucceeds, Opened, TypeOK, Places, Waiting, Holding, Permitted, MonitorTrue
  <2>2. WordIsTrue'
    BY <1>16 DEF IncDone, Goto, StrexSucceeds, Opened, TypeOK, WordIsTrue, OneHolder, MonitorTrue, Holding
  <2>3. OneHolder'
    BY <1>16 DEF IncDone, Goto, StrexSucceeds, Opened, TypeOK, WordIsTrue, OneHolder, MonitorTrue, Holding
  <2>4. NoLostWakeup'
    BY <1>16 DEF IncDone, Goto, StrexSucceeds, Opened, TypeOK, NoLostWakeup, MonitorTrue
  <2>5. MonitorTrue'
    BY <1>16 DEF IncDone, Goto, StrexSucceeds, Opened, TypeOK, MonitorTrue
  <2> QED
    BY <2>1, <2>2, <2>3, <2>4, <2>5
<1>17. ASSUME NEW c \in CPUs, IncRefused(c) PROVE LockInv'
  <2>1. TypeOK'
    BY <1>17 DEF IncRefused, Goto, StrexFails, TypeOK, Places, Waiting, Holding, Permitted, MonitorTrue
  <2>2. WordIsTrue'
    BY <1>17 DEF IncRefused, Goto, StrexFails, TypeOK, WordIsTrue, OneHolder, MonitorTrue, Holding
  <2>3. OneHolder'
    BY <1>17 DEF IncRefused, Goto, StrexFails, TypeOK, WordIsTrue, OneHolder, MonitorTrue, Holding
  <2>4. NoLostWakeup'
    BY <1>17 DEF IncRefused, Goto, StrexFails, TypeOK, NoLostWakeup, MonitorTrue
  <2>5. MonitorTrue'
    BY <1>17 DEF IncRefused, Goto, StrexFails, TypeOK, MonitorTrue
  <2> QED
    BY <2>1, <2>2, <2>3, <2>4, <2>5
<1>18. CASE UNCHANGED vars
  BY <1>18 DEF vars, TypeOK, WordIsTrue, OneHolder, NoLostWakeup, MonitorTrue
<1> QED
  BY <1>1, <1>2, <1>3, <1>4, <1>5, <1>6, <1>7, <1>8, <1>9, <1>10, <1>11, <1>12, <1>13, <1>14, <1>15, <1>16, <1>17, <1>18 DEF Next, LockStep, SemStep

-------------------------------------------------------------------------------
(* The CPUs that hold a permit. *)
Inside == {c \in CPUs : pc[c] \in Permitted}

(* The inductive invariant of the semaphore: that semaphore_inc() does not
   overflow needs the count, and the count needs the monitors. *)
SemInv == LockInv /\ NoPanic /\ PermitsConserved

(* Finitely many CPUs hold a permit: their number can be counted. *)
LEMMA InsideFinite == IsFiniteSet(Inside) /\ Cardinality(Inside) \in Nat
<1>1. Inside \in SUBSET CPUs
  BY DEF Inside
<1> QED
  BY <1>1, CPUsAssumption, FS_Subset, FS_CardinalityType

(* semaphore_init() with all permits free satisfies the invariant. *)
LEMMA InitSemInv == Init => SemInv
<1> SUFFICES ASSUME Init PROVE SemInv
  OBVIOUS
<1>1. LockInv
  BY InitLockInv
<1>2. NoPanic
  BY DEF Init, NoPanic
<1>3. Inside = {}
  BY DEF Init, Inside, Permitted
<1>4. semval + Cardinality(Inside) = Limit
  BY <1>3, FS_EmptySet, LimitAssumption DEF Init
<1> QED
  BY <1>1, <1>2, <1>4 DEF SemInv, PermitsConserved, Inside

(* A step that moves no CPU into or out of the semaphore keeps the count. *)
LEMMA SamePermits ==
  ASSUME PermitsConserved, semval' = semval, Inside' = Inside
  PROVE  PermitsConserved'
BY DEF PermitsConserved, Inside

(* Every instruction of semaphore_dec() and semaphore_inc() keeps it, and the
   lock's instructions leave it alone. *)
LEMMA NextSemInv == SemInv /\ [Next]_vars => SemInv'
<1> SUFFICES ASSUME SemInv, [Next]_vars PROVE SemInv'
  OBVIOUS
<1> USE LimitAssumption, StaleRetAssumption
<1>1. /\ LockInv /\ NoPanic /\ PermitsConserved /\ LockInv'
      /\ TypeOK /\ WordIsTrue /\ MonitorTrue /\ pc \in [CPUs -> Places] /\ semval \in 0 .. Limit
  BY NextLockInv DEF SemInv, LockInv, TypeOK
<1>2. /\ IsFiniteSet(Inside) /\ Cardinality(Inside) \in Nat
      /\ semval + Cardinality(Inside) = Limit
  BY <1>1, InsideFinite DEF PermitsConserved, Inside
(* semaphore_dec() hands out a permit. *)
<1>3. ASSUME NEW c \in CPUs, DecTaken(c) PROVE NoPanic' /\ PermitsConserved'
  <2>1. pc' = [pc EXCEPT ![c] = "inside"] /\ semval' = semval - 1 /\ pc[c] = "dec_strex"
    BY <1>1, <1>3 DEF DecTaken, StrexSucceeds, Goto, MonitorTrue
  <2>2. NoPanic'
    BY <1>1, <2>1 DEF NoPanic
  <2>3. Inside' = Inside \cup {c} /\ c \notin Inside
    BY <1>1, <2>1 DEF Inside, Permitted
  <2>4. Cardinality(Inside \cup {c}) = Cardinality(Inside) + 1
    BY <1>2, <2>3, FS_AddElement
  <2>5. semval' + Cardinality(Inside') = Limit
    BY <1>1, <1>2, <2>1, <2>3, <2>4
  <2> QED
    BY <2>2, <2>5 DEF PermitsConserved, Inside
(* semaphore_inc() gives it back. *)
<1>4. ASSUME NEW c \in CPUs, IncDone(c) PROVE NoPanic' /\ PermitsConserved'
  <2>1. pc' = [pc EXCEPT ![c] = "idle"] /\ semval' = semval + 1 /\ pc[c] = "inc_strex"
    BY <1>1, <1>4 DEF IncDone, StrexSucceeds, Goto, MonitorTrue
  <2>2. NoPanic'
    BY <1>1, <2>1 DEF NoPanic
  <2>3. Inside' = Inside \ {c} /\ c \in Inside
    BY <1>1, <2>1 DEF Inside, Permitted
  <2>4. Cardinality(Inside \ {c}) = Cardinality(Inside) - 1
    BY Zenon, <1>2, <2>3, FS_RemoveElement
  <2>5. semval' + Cardinality(Inside') = Limit
    BY <1>1, <1>2, <2>1, <2>3, <2>4
  <2> QED
    BY <2>2, <2>5 DEF PermitsConserved, Inside
(* A CPU that holds a permit finds the value below the limit. *)
<1>5. ASSUME NEW c \in CPUs, IncLdrex(c) PROVE NoPanic' /\ PermitsConserved'
  <2>1. c \in Inside
    BY <1>1, <1>5 DEF IncLdrex, Inside, Permitted
  <2>2. Cardinality(Inside) # 0
    BY <1>2, <2>1, FS_EmptySet
  <2>3. semval + 1 <= Limit
    BY <1>1, <1>2, <2>2
  <2>4. pc' = [pc EXCEPT ![c] = "inc_strex"] /\ semval' = semval /\ pc[c] = "inc_ldrex"
    <3>1. ~(semval + 1 > Limit)
      BY <1>1, <2>3
    <3> QED
      BY <1>5, <3>1 DEF IncLdrex, Ldrex, Goto
  <2>5. NoPanic'
    BY <1>1, <2>4 DEF NoPanic
  <2>6. Inside' = Inside
    BY <1>1, <2>4 DEF Inside, Permitted
  <2> QED
    BY <1>1, <2>4, <2>5, <2>6, SamePermits
(* A CPU that holds the lock finds it locked. *)
<1>6. ASSUME NEW c \in CPUs, UnlockTest(c) PROVE NoPanic' /\ PermitsConserved'
  <2>1. lock = LOCKED
    BY <1>1, <1>6 DEF UnlockTest, WordIsTrue, Holding
  <2>2. pc' = [pc EXCEPT ![c] = "store"] /\ semval' = semval /\ pc[c] = "critical"
    BY <1>6, <2>1 DEF UnlockTest, Goto
  <2>3. NoPanic' /\ Inside' = Inside
    BY <1>1, <2>2 DEF NoPanic, Inside, Permitted
  <2> QED
    BY <1>1, <2>2, <2>3, SamePermits
(* The other steps neither panic nor touch a permit. *)
<1>7. ASSUME NEW c \in CPUs, NEW place \in Places, Goto(c, place), place # "panic",
             semval' = semval, pc[c] \in Permitted <=> place \in Permitted
      PROVE  NoPanic' /\ PermitsConserved'
  <2>1. pc' = [pc EXCEPT ![c] = place]
    BY <1>7 DEF Goto
  <2>2. NoPanic' /\ Inside' = Inside
    BY <1>1, <1>7, <2>1 DEF NoPanic, Inside
  <2> QED
    BY <1>1, <1>7, <2>2, SamePermits
<1>8. ASSUME NEW c \in CPUs,
             \/ LockCall(c) \/ LockLdrex(c) \/ LockWfe(c) \/ LockTaken(c) \/ LockRefused(c)
             \/ UnlockStore(c) \/ UnlockSev(c)
      PROVE  \E place \in Places : /\ Goto(c, place) /\ place # "panic" /\ semval' = semval
                                   /\ pc[c] \in Permitted <=> place \in Permitted
  BY <1>8 DEF LockCall, LockLdrex, LockWfe, LockTaken, LockRefused, UnlockStore, UnlockSev,
       Ldrex, Wfe, StrexSucceeds, StrexFails, Places, Waiting, Holding, Permitted
<1>9. ASSUME NEW c \in CPUs,
             \/ DecCall(c) \/ DecLdrex(c) \/ DecWfe(c) \/ DecRefused(c)
             \/ IncCall(c) \/ IncRefused(c)
      PROVE  \E place \in Places : /\ Goto(c, place) /\ place # "panic" /\ semval' = semval
                                   /\ pc[c] \in Permitted <=> place \in Permitted
  BY <1>9 DEF DecCall, DecLdrex, DecWfe, DecRefused, IncCall, IncRefused,
       Ldrex, Wfe, StrexFails, Places, Waiting, Holding, Permitted
<1>10. CASE UNCHANGED vars
  <2>1. NoPanic' /\ Inside' = Inside /\ semval' = semval
    BY <1>1, <1>10 DEF vars, NoPanic, Inside
  <2> QED
    BY <1>1, <2>1, SamePermits DEF SemInv
<1>11. NoPanic' /\ PermitsConserved'
  BY <1>3, <1>4, <1>5, <1>6, <1>7, <1>8, <1>9, <1>10 DEF Next, LockStep, SemStep, SemInv
<1> QED
  BY <1>1, <1>11 DEF SemInv

-------------------------------------------------------------------------------
(* The semaphore's inductive invariant holds in every reachable state. *)
THEOREM Invariance == Spec => []SemInv
BY InitSemInv, NextSemInv, PTL DEF Spec

(* The lock word tells the truth. *)
THEOREM LockWordIsTrue == Spec => []WordIsTrue
<1>1. SemInv => WordIsTrue
  BY DEF SemInv, LockInv
<1> QED
  BY <1>1, Invariance, PTL

(* No CPU sleeps through the release of the lock. *)
THEOREM WakeupsAreNotLost == Spec => []NoLostWakeup
<1>1. SemInv => NoLostWakeup
  BY DEF SemInv, LockInv
<1> QED
  BY <1>1, Invariance, PTL

(* Neither call panics when calls come in pairs. *)
THEOREM PairedCallsNeverPanic == Spec => []NoPanic
<1>1. SemInv => NoPanic
  BY DEF SemInv
<1> QED
  BY <1>1, Invariance, PTL

(* No permit is lost or invented. *)
THEOREM PermitsStayConserved == Spec => []PermitsConserved
<1>1. SemInv => PermitsConserved
  BY DEF SemInv
<1> QED
  BY <1>1, Invariance, PTL

(* Every step of a CPU takes the abstract lock, gives it back, or leaves it. *)
LEMMA LockRefinementStep ==
  LockInv /\ LockInv' /\ [Next]_vars => [Lock!Next]_({c \in CPUs : pc[c] \in Holding})
<1> DEFINE holders == {c \in CPUs : pc[c] \in Holding}
<1> SUFFICES ASSUME LockInv, LockInv', [Next]_vars
             PROVE  Lock!Next \/ holders' = holders
  OBVIOUS
<1>1. pc \in [CPUs -> Places] /\ WordIsTrue /\ OneHolder /\ MonitorTrue
  BY DEF LockInv, TypeOK
<1>2. ASSUME NEW c \in CPUs, LockTaken(c) PROVE Lock!Next
  <2>1. lock = UNLOCKED /\ pc' = [pc EXCEPT ![c] = "critical"]
    BY <1>1, <1>2 DEF LockTaken, StrexSucceeds, Goto, MonitorTrue
  <2>2. holders = {}
    BY <1>1, <2>1 DEF WordIsTrue
  <2>3. holders' = {c}
    BY <1>1, <2>1, <2>2 DEF Holding
  <2> QED
    BY <2>2, <2>3 DEF Lock!Next, Lock!Acquire
<1>3. ASSUME NEW c \in CPUs, UnlockStore(c) PROVE Lock!Next
  <2>1. pc[c] = "store" /\ pc' = [pc EXCEPT ![c] = "sev"]
    BY <1>3 DEF UnlockStore, Goto
  <2>2. c \in holders /\ holders' = holders \ {c}
    BY <1>1, <2>1 DEF Holding
  <2> QED
    BY <2>2 DEF Lock!Next, Lock!Release
<1>4. ASSUME NEW c \in CPUs, UnlockTest(c) PROVE holders' = holders
  <2>1. lock = LOCKED
    BY <1>1, <1>4 DEF UnlockTest, WordIsTrue, Holding
  <2>2. pc' = [pc EXCEPT ![c] = "store"] /\ pc[c] = "critical"
    BY <1>4, <2>1 DEF UnlockTest, Goto
  <2> QED
    BY <1>1, <2>2 DEF Holding
<1>5. ASSUME NEW c \in CPUs, NEW place \in Places \ Holding, Goto(c, place), pc[c] \notin Holding
      PROVE  holders' = holders
  BY <1>1, <1>5 DEF Goto
<1>6. ASSUME NEW c \in CPUs,
             \/ LockCall(c) \/ LockLdrex(c) \/ LockWfe(c) \/ LockRefused(c) \/ UnlockSev(c)
      PROVE  pc[c] \notin Holding /\ \E place \in Places \ Holding : Goto(c, place)
  BY <1>6, StaleRetAssumption DEF LockCall, LockLdrex, LockWfe, LockRefused, UnlockSev,
       Ldrex, Wfe, StrexFails, Places, Waiting, Holding, Permitted
<1>7. ASSUME NEW c \in CPUs, DecCall(c) \/ SemStep(c)
      PROVE  pc[c] \notin Holding /\ \E place \in Places \ Holding : Goto(c, place)
  BY <1>7, StaleRetAssumption DEF SemStep, DecCall, DecLdrex, DecWfe, DecTaken, DecRefused,
       IncCall, IncLdrex, IncDone, IncRefused,
       Ldrex, Wfe, StrexSucceeds, StrexFails, Places, Waiting, Holding, Permitted
<1>8. CASE UNCHANGED vars
  BY <1>8 DEF vars
<1> QED
  BY <1>2, <1>3, <1>4, <1>5, <1>6, <1>7, <1>8 DEF Next, LockStep

(* The ARM spinlock implements the abstract one. *)
THEOREM Refinement == Spec => LockSpec
<1>1. Init => Lock!Init
  BY DEF Init, Lock!Init, Holding
<1>2. SemInv => LockInv
  BY DEF SemInv
<1> QED
  BY <1>1, <1>2, Invariance, LockRefinementStep, PTL DEF Spec, LockSpec, Lock!Spec
===============================================================================
