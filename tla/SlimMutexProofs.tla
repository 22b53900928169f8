--------------------------- MODULE SlimMutexProofs ---------------------------
(***************************************************************************)
(* The safety of iree_slim_mutex_t for every finite set of threads that    *)
(* the count bits of the word can represent.                               *)
(***************************************************************************)
EXTENDS SlimMutex, FiniteSetTheorems, TLAPS

\* The inductive invariant.  Mutual exclusion does not follow from itself: an
\* acquiring thread only knows that the word it compares with has no lock bit,
\* so the word has to say whether there is a holder.  The lost wake-up argument
\* needs the count bits to be exact for the same reason.
IInv == TypeOK /\ MutualExclusion /\ ValueCountsThreads /\ NoLostWakeup

\* The threads the word counts are a finite set no larger than Threads.
LEMMA CountedFinite ==
    /\ IsFiniteSet(Counted)
    /\ Cardinality(Counted) \in Nat
    /\ Cardinality(Counted) < LockBit
    /\ LockBit \in Nat /\ LockBit > 1
<1>1. Counted \subseteq Threads BY DEF Counted, Holders, Awake, Asleep
<1>2. QED BY <1>1, ThreadsFinite, LockBitRange, FS_Subset, FS_CardinalityType

\* Adding a thread the word does not count raises the count by one.
LEMMA CountAdd ==
    ASSUME NEW t \in Threads, t \notin Counted, Counted' = Counted \cup {t}
    PROVE  Cardinality(Counted') = Cardinality(Counted) + 1
BY CountedFinite, FS_AddElement

\* Removing a counted thread lowers the count by one.
LEMMA CountRemove ==
    ASSUME NEW t \in Threads, t \in Counted, Counted' = Counted \ {t}
    PROVE  Cardinality(Counted') = Cardinality(Counted) - 1
BY CountedFinite, FS_RemoveElement

\* The word tells whether there is a holder and whether anybody is counted.
LEMMA WordMeaning ==
    ASSUME ValueCountsThreads
    PROVE  /\ IsLocked(value) <=> Holders # {}
           /\ value = 0 <=> Counted = {}
<1>1. Counted = {} <=> Cardinality(Counted) = 0
  BY CountedFinite, FS_EmptySet
<1>2. Holders # {} => Counted # {} BY DEF Counted
<1>3. QED BY <1>1, <1>2, CountedFinite DEF ValueCountsThreads, IsLocked

\* The initial states satisfy the inductive invariant.
LEMMA InitIInv == Init => IInv
<1> SUFFICES ASSUME Init PROVE IInv OBVIOUS
<1>1. Counted = {} /\ Holders = {} /\ Asleep = {}
  BY DEF Init, Counted, Holders, Awake, Asleep
<1>2. Cardinality(Counted) = 0 BY <1>1, FS_EmptySet
<1>3. TypeOK BY LockBitRange, CountedFinite, <1>2 DEF Init, TypeOK, Word, Labels
<1>4. QED
  BY <1>1, <1>2, <1>3 DEF IInv, Init, MutualExclusion, ValueCountsThreads, NoLostWakeup

\* A step that leaves the word, the holder and the counted threads alone keeps
\* the exactness of the word and mutual exclusion.
LEMMA CountsUnchanged ==
    ASSUME ValueCountsThreads, MutualExclusion, UNCHANGED value,
           Holders' = Holders, Counted' = Counted
    PROVE  ValueCountsThreads' /\ MutualExclusion'
BY DEF ValueCountsThreads, MutualExclusion

\* The three steps that take the lock leave exactly the taking thread holding it.
LEMMA TakeLock ==
    ASSUME NEW t \in Threads, TypeOK, ValueCountsThreads, ~IsLocked(value),
           pc' = [pc EXCEPT ![t] = "held"]
    PROVE  Holders' = {t} /\ MutualExclusion'
<1>1. Holders = {} BY WordMeaning
<1>2. Holders' = {t} BY <1>1 DEF Holders, TypeOK
<1>3. QED BY <1>2 DEF MutualExclusion

\* Every step of every thread preserves the inductive invariant.
LEMMA NextIInv == IInv /\ [Next]_vars => IInv'
<1> SUFFICES ASSUME IInv, [Next]_vars PROVE IInv' OBVIOUS
<1> USE DEF IInv
<1>c. /\ Cardinality(Counted) \in Nat
      /\ Cardinality(Counted) < LockBit
      /\ LockBit \in Nat /\ LockBit > 1
  BY CountedFinite
<1>c1. /\ Cardinality(Counted') \in Nat
       /\ Cardinality(Counted') < LockBit
  <2>1. Counted' \subseteq Threads BY DEF Counted, Holders, Awake, Asleep
  <2>2. QED BY <2>1, ThreadsFinite, LockBitRange, FS_Subset, FS_CardinalityType
<1>w. /\ IsLocked(value) <=> Holders # {}
      /\ value = 0 <=> Counted = {}
  BY WordMeaning
<1>1. ASSUME NEW t \in Threads, pc[t] = "idle", TakeUncontended(t) PROVE IInv'
  <2>1. pc' = [pc EXCEPT ![t] = "held"] /\ value = 0 /\ value' = LockBit + 1
    BY <1>1, <1>c DEF TakeUncontended, Goto, SlimMutexValue
  <2>2. ~IsLocked(value) BY <2>1, <1>c DEF IsLocked
  <2>3. Holders' = {t} /\ MutualExclusion' BY <2>1, <2>2, TakeLock
  <2>4. Counted = {} BY <2>1, <1>w
  <2>5. Counted' = {t} /\ Asleep' = {}
    BY <2>1, <2>3, <2>4 DEF Counted, Awake, Asleep, Holders, TypeOK
  <2>6. ValueCountsThreads'
    <3>1. Cardinality({t}) = 1 BY FS_Singleton
    <3>2. QED BY <2>1, <2>3, <2>5, <3>1, <1>c DEF ValueCountsThreads
  <2>7. TypeOK'
    <3>1. value' \in Word BY <2>1, <1>c DEF Word
    <3>2. QED BY <1>1, <2>1, <3>1 DEF TypeOK, TakeUncontended, Labels
  <2>8. QED BY <2>3, <2>5, <2>6, <2>7 DEF NoLostWakeup
<1>2. ASSUME NEW t \in Threads, LockContended(t) PROVE IInv'
  <2>1. Holders' = Holders /\ Awake' = Awake /\ Asleep' = Asleep
    BY <1>2 DEF LockContended, Goto, Holders, Awake, Asleep, TypeOK
  <2>2. ValueCountsThreads' /\ MutualExclusion'
    BY <1>2, <2>1, CountsUnchanged DEF LockContended, Counted
  <2>3. TypeOK' BY <1>2 DEF LockContended, Goto, TypeOK, Labels
  <2>4. NoLostWakeup'
    BY <1>2, <2>1 DEF LockContended, Goto, NoLostWakeup, TypeOK
  <2>5. QED BY <2>2, <2>3, <2>4
<1>3. ASSUME NEW t \in Threads, LockAnnounce(t) PROVE IInv'
  <2>1. /\ Holders' = Holders
        /\ Awake' = Awake \cup {t}
        /\ Asleep' = Asleep
        /\ t \notin Counted
    BY <1>3 DEF LockAnnounce, Goto, Holders, Awake, Asleep, Counted, TypeOK
  <2>2. Cardinality(Counted') = Cardinality(Counted) + 1
    BY <2>1, CountAdd DEF Counted
  <2>3. value' = value + 1 /\ value + 1 \in Word
    BY <1>3, <2>1, <2>2, <1>c, <1>c1
    DEF LockAnnounce, Wrap, ValueCountsThreads, Word, TypeOK
  <2>4. ValueCountsThreads' /\ MutualExclusion'
    BY <2>1, <2>2, <2>3, <1>c DEF ValueCountsThreads, MutualExclusion
  <2>5. TypeOK'
    BY <1>3, <2>3 DEF LockAnnounce, Goto, TypeOK, Labels, Wrap
  <2>6. NoLostWakeup' BY <2>1 DEF NoLostWakeup
  <2>7. QED BY <2>4, <2>5, <2>6
<1>4. ASSUME NEW t \in Threads, LockAcquire(t) PROVE IInv'
  <2>1. /\ pc' = [pc EXCEPT ![t] = "held"]
        /\ ~IsLocked(value)
        /\ value' = value + LockBit
        /\ local' = local
    BY <1>4, <1>c DEF LockAcquire, Goto, SlimMutexValue, IsLocked, TypeOK
  <2>2. Holders' = {t} /\ MutualExclusion' BY <2>1, TakeLock
  <2>3. Counted' = Counted /\ Holders = {}
    BY <1>4, <2>1, <1>w DEF LockAcquire, Counted, Holders, Awake, Asleep, TypeOK
  <2>4. ValueCountsThreads' BY <2>1, <2>2, <2>3, <1>c DEF ValueCountsThreads
  <2>5. TypeOK'
    BY <2>1, <2>3, <1>c DEF TypeOK, Labels, Word, ValueCountsThreads
  <2>6. IsLocked(value') BY <2>1, <2>3, <1>c DEF IsLocked, ValueCountsThreads
  <2>7. QED BY <2>2, <2>4, <2>5, <2>6 DEF NoLostWakeup
<1>5. ASSUME NEW t \in Threads, LockAcquireFails(t) \/ LockSpin(t) \/ LockReload(t)
      PROVE IInv'
  <2>1. /\ Holders' = Holders /\ Awake' = Awake \cup {t} /\ Asleep' = Asleep
        /\ t \in Awake \/ pc[t] = "reload" \/ pc[t] = "spin"
        /\ value' = value
    BY <1>5 DEF LockAcquireFails, LockSpin, LockReload, Goto, Holders, Awake,
                Asleep, TypeOK
  <2>2. Awake' = Awake BY <2>1 DEF Awake
  <2>3. ValueCountsThreads' /\ MutualExclusion'
    BY <2>1, <2>2, CountsUnchanged DEF Counted
  <2>4. TypeOK'
    BY <1>5 DEF LockAcquireFails, LockSpin, LockReload, Goto, TypeOK, Labels
  <2>5. NoLostWakeup' BY <2>1, <2>2 DEF NoLostWakeup
  <2>6. QED BY <2>3, <2>4, <2>5
<1>6. ASSUME NEW t \in Threads, LockFutexWait(t) PROVE IInv'
  <2>1. Holders' = Holders /\ Counted' = Counted /\ value' = value
    BY <1>6 DEF LockFutexWait, Goto, Holders, Counted, Awake, Asleep, TypeOK
  <2>2. ValueCountsThreads' /\ MutualExclusion' BY <2>1, CountsUnchanged
  <2>3. TypeOK' BY <1>6 DEF LockFutexWait, Goto, TypeOK, Labels
  <2>4. NoLostWakeup'
    <3>1. CASE value = local[t]
      BY <3>1, <1>6, <2>1 DEF LockFutexWait, NoLostWakeup
    <3>2. CASE value # local[t]
      BY <3>2, <1>6 DEF LockFutexWait, Goto, NoLostWakeup, Awake, TypeOK
    <3>3. QED BY <3>1, <3>2
  <2>5. QED BY <2>2, <2>3, <2>4
<1>7. ASSUME NEW t \in Threads, LockFutexInterrupted(t) PROVE IInv'
  <2>1. /\ Holders' = Holders /\ Counted' = Counted /\ value' = value
        /\ t \in Awake'
    BY <1>7 DEF LockFutexInterrupted, Goto, Holders, Counted, Awake, Asleep, TypeOK
  <2>2. ValueCountsThreads' /\ MutualExclusion' BY <2>1, CountsUnchanged
  <2>3. TypeOK' BY <1>7 DEF LockFutexInterrupted, Goto, TypeOK, Labels
  <2>4. QED BY <2>1, <2>2, <2>3 DEF NoLostWakeup
<1>8. ASSUME NEW t \in Threads, Unlock(t) PROVE IInv'
  <2>1. Holders = {t} /\ t \in Counted
    BY <1>8 DEF Unlock, Holders, Counted, MutualExclusion
  <2>2. /\ Holders' = {} /\ Awake' = Awake /\ Asleep' = Asleep
        /\ Counted' = Counted \ {t}
    BY <1>8, <2>1 DEF Unlock, Goto, Holders, Counted, Awake, Asleep, TypeOK
  <2>3. Cardinality(Counted') = Cardinality(Counted) - 1
    BY <2>1, <2>2, CountRemove
  <2>4. value = Cardinality(Counted) + LockBit BY <2>1 DEF ValueCountsThreads
  <2>5. value' = Cardinality(Counted')
    BY <1>8, <2>3, <2>4, <1>c, <1>c1 DEF Unlock, Wrap, SlimMutexValue
  <2>6. ValueCountsThreads' /\ MutualExclusion'
    BY <2>2, <2>5, <1>c1 DEF ValueCountsThreads, MutualExclusion
  <2>7. TypeOK'
    BY <1>8, <2>5, <1>c1, <1>c DEF Unlock, Goto, TypeOK, Labels, Word
  <2>8. NoLostWakeup'
    <3>1. CASE value = SlimMutexValue(1)
      <4>1. Cardinality(Counted') = 0
        BY <3>1, <2>3, <2>4, <1>c DEF SlimMutexValue
      <4>2. IsFiniteSet(Counted')
        BY <2>2, CountedFinite, FS_Subset
      <4>3. Counted' = {} BY <4>1, <4>2, FS_EmptySet
      <4>4. QED BY <4>3 DEF NoLostWakeup, Counted
    <3>2. CASE value # SlimMutexValue(1)
      BY <3>2, <1>8 DEF Unlock, Goto, NoLostWakeup, TypeOK
    <3>3. QED BY <3>1, <3>2
  <2>9. QED BY <2>6, <2>7, <2>8
<1>9. ASSUME NEW t \in Threads, UnlockWake(t) PROVE IInv'
  <2>1. Holders' = Holders /\ Counted' = Counted /\ value' = value
    BY <1>9 DEF UnlockWake, Goto, Holders, Counted, Awake, Asleep, TypeOK
  <2>2. ValueCountsThreads' /\ MutualExclusion' BY <2>1, CountsUnchanged
  <2>3. TypeOK' BY <1>9 DEF UnlockWake, Goto, TypeOK, Labels
  <2>4. Awake' # {} \/ Asleep' = {}
    BY <1>9 DEF UnlockWake, Goto, Awake, Asleep, TypeOK
  <2>5. QED BY <2>2, <2>3, <2>4 DEF NoLostWakeup
<1>10. CASE UNCHANGED vars
  BY <1>10 DEF vars, TypeOK, MutualExclusion, ValueCountsThreads, NoLostWakeup,
               Holders, Counted, Awake, Asleep
<1>11. QED
  BY <1>1, <1>2, <1>3, <1>4, <1>5, <1>6, <1>7, <1>8, <1>9, <1>10
  DEF Next, LockFast, TryLock, LockStep

\* The inductive invariant holds in every reachable state.
THEOREM Invariance == Spec => []IInv
BY InitIInv, NextIInv, PTL DEF Spec

\* iree_slim_mutex_lock and try_lock give the lock to one thread at a time.
THEOREM MutualExclusionHolds == Spec => []MutualExclusion
BY Invariance, PTL DEF IInv

\* The word always says exactly who holds the mutex and how many want it.
THEOREM ValueCountsThreadsHolds == Spec => []ValueCountsThreads
BY Invariance, PTL DEF IInv

\* unlock never leaves a sleeper behind with nobody to wake it.
THEOREM NoLostWakeupHolds == Spec => []NoLostWakeup
BY Invariance, PTL DEF IInv

\* The word never overflows its width.
THEOREM TypeCorrect == Spec => []TypeOK
BY Invariance, PTL DEF IInv
=============================================================================
