------------------------------ MODULE SlimMutex ------------------------------
(***************************************************************************)
(* iree_slim_mutex_t on the platforms that have a futex                    *)
(* (iree/base/internal/synchronization.c).  One 32-bit word holds the lock *)
(* bit (0x80000000) and, below it, the number of threads that hold the     *)
(* lock or want it.  Every atomic access to the word is one step; the      *)
(* kernel's futex queue is the set of threads whose pc is "asleep".        *)
(***************************************************************************)
EXTENDS Integers, FiniteSets

CONSTANTS
    Threads,    \* the threads that use the mutex
    LockBit     \* 0x80000000: the weight of the lock bit in the word

ASSUME ThreadsFinite == IsFiniteSet(Threads)
ASSUME LockBitRange ==
    LockBit \in Nat /\ LockBit > 1 /\ Cardinality(Threads) < LockBit

VARIABLES
    value,      \* mutex->value
    pc,         \* where each thread stands in lock/unlock
    local       \* the local variable `value` of iree_slim_mutex_lock

vars == <<value, pc, local>>

Word == 0 .. 2 * LockBit - 1

\* 32-bit wrap-around of an addition or subtraction of two words.
Wrap(n) ==
    IF n >= 2 * LockBit THEN n - 2 * LockBit
    ELSE IF n < 0 THEN n + 2 * LockBit ELSE n

\* iree_slim_mutex_value(v): v with the lock bit set.
SlimMutexValue(v) == IF v >= LockBit THEN v ELSE v + LockBit

\* iree_slim_mutex_is_locked(v): the lock bit of v.
IsLocked(v) == v >= LockBit

Init ==
    /\ value = 0
    /\ pc = [t \in Threads |-> "idle"]
    /\ local = [t \in Threads |-> 0]

Goto(t, label) == pc' = [pc EXCEPT ![t] = label]

-----------------------------------------------------------------------------
\* The weak compare-exchange 0 -> locked|1 that opens both lock and try_lock.
TakeUncontended(t) ==
    /\ value = 0
    /\ value' = SlimMutexValue(1)
    /\ Goto(t, "held")
    /\ UNCHANGED local

\* lock: the first compare-exchange succeeds ...
LockFast(t) ==
    /\ pc[t] = "idle"
    /\ TakeUncontended(t)

\* ... or fails, because the word is not 0 or spuriously.
LockContended(t) ==
    /\ pc[t] = "idle"
    /\ Goto(t, "add")
    /\ UNCHANGED <<value, local>>

\* lock: fetch_add(1) announces the interest of the thread.
LockAnnounce(t) ==
    /\ pc[t] = "add"
    /\ value' = Wrap(value + 1)
    /\ local' = [local EXCEPT ![t] = Wrap(value + 1)]
    /\ Goto(t, "loop")

\* Mutant: the lock bit is set by a plain store, not by a compare-exchange.
LockAcquireByStore(t) ==
    /\ pc[t] = "loop"
    /\ ~IsLocked(local[t])
    /\ value' = SlimMutexValue(local[t])
    /\ Goto(t, "held")
    /\ UNCHANGED local

\* lock: the word was last seen unlocked and the compare-exchange succeeds.
LockAcquire(t) ==
    /\ pc[t] = "loop"
    /\ ~IsLocked(local[t])
    /\ value = local[t]
    /\ value' = SlimMutexValue(local[t])
    /\ Goto(t, "held")
    /\ UNCHANGED local

\* lock: the compare-exchange fails and stores the current word in local.  (A
\* spurious failure leaves the state as it is.)  When the word is now locked
\* the thread spins, rereading it, before it falls through to the wait.
LockAcquireFails(t) ==
    /\ pc[t] = "loop"
    /\ ~IsLocked(local[t])
    /\ value # local[t]
    /\ local' = [local EXCEPT ![t] = value]
    /\ Goto(t, IF IsLocked(value) THEN "spin" ELSE "loop")
    /\ UNCHANGED value

\* lock: one iteration of the spin (at most 100), and the end of the spin,
\* which sends the thread back to the test of the lock bit.
LockSpin(t) ==
    /\ pc[t] = "spin"
    /\ \/ local' = [local EXCEPT ![t] = value]
       \/ UNCHANGED local
    /\ Goto(t, "loop")
    /\ UNCHANGED value

\* lock: the word was last seen locked; the kernel compares it with local and
\* puts the thread to sleep, or returns at once when it has changed.
LockFutexWait(t) ==
    /\ pc[t] = "loop"
    /\ IsLocked(local[t])
    /\ Goto(t, IF value = local[t] THEN "asleep" ELSE "reload")
    /\ UNCHANGED <<value, local>>

\* A futex wait may also return without a wake (a signal).
LockFutexInterrupted(t) ==
    /\ pc[t] = "asleep"
    /\ Goto(t, "reload")
    /\ UNCHANGED <<value, local>>

\* lock: after the wait the word is read again.
LockReload(t) ==
    /\ pc[t] = "reload"
    /\ local' = [local EXCEPT ![t] = value]
    /\ Goto(t, "loop")
    /\ UNCHANGED value

\* try_lock that succeeds; one that fails changes nothing.
TryLock(t) ==
    /\ pc[t] = "idle"
    /\ TakeUncontended(t)

\* Mutant: unlock clears the lock bit but leaves the thread counted.
UnlockKeepsCount(t) ==
    /\ pc[t] = "held"
    /\ value' = Wrap(value - LockBit)
    /\ Goto(t, IF value # SlimMutexValue(1) THEN "wake" ELSE "idle")
    /\ UNCHANGED local

\* Mutant: unlock only wakes when two or more threads wait.
UnlockForgetsLastWaiter(t) ==
    /\ pc[t] = "held"
    /\ value' = Wrap(value - SlimMutexValue(1))
    /\ Goto(t, IF value > SlimMutexValue(2) THEN "wake" ELSE "idle")
    /\ UNCHANGED local

\* unlock: fetch_sub(locked|1); a wake follows unless nobody else is counted.
Unlock(t) ==
    /\ pc[t] = "held"
    /\ value' = Wrap(value - SlimMutexValue(1))
    /\ Goto(t, IF value # SlimMutexValue(1) THEN "wake" ELSE "idle")
    /\ UNCHANGED local

\* Mutant: the futex wake is missing.
UnlockNoWake(t) ==
    /\ pc[t] = "wake"
    /\ Goto(t, "idle")
    /\ UNCHANGED <<value, local>>

\* unlock: iree_futex_wake(&mutex->value, 1) wakes one sleeper, if any.
UnlockWake(t) ==
    /\ pc[t] = "wake"
    /\ \/ \E s \in Threads :
            /\ pc[s] = "asleep"
            /\ pc' = [pc EXCEPT ![t] = "idle", ![s] = "reload"]
       \/ /\ \A s \in Threads : pc[s] # "asleep"
          /\ Goto(t, "idle")
    /\ UNCHANGED <<value, local>>

LockStep(t) ==
    \/ LockAnnounce(t)
    \/ LockAcquire(t)
    \/ LockAcquireFails(t)
    \/ LockSpin(t)
    \/ LockFutexWait(t)
    \/ LockReload(t)

Next ==
    \E t \in Threads :
        \/ LockFast(t) \/ LockContended(t) \/ TryLock(t)
        \/ LockStep(t)
        \/ LockFutexInterrupted(t)
        \/ Unlock(t) \/ UnlockWake(t)

Spec == Init /\ [][Next]_vars

\* A running thread keeps running, and critical sections end.  Nothing makes a
\* thread start to lock, and no futex wait has to be interrupted.
Fairness ==
    \A t \in Threads : WF_vars(LockStep(t)) /\ WF_vars(Unlock(t) \/ UnlockWake(t))

FairSpec == Spec /\ Fairness

-----------------------------------------------------------------------------
Labels == {"idle", "add", "loop", "spin", "asleep", "reload", "held", "wake"}

\* Type invariant: the word stays a word, and so does every local copy.
TypeOK ==
    /\ value \in Word
    /\ pc \in [Threads -> Labels]
    /\ local \in [Threads -> Word]

Holders == {t \in Threads : pc[t] = "held"}
Awake == {t \in Threads : pc[t] \in {"loop", "spin", "reload"}}
Asleep == {t \in Threads : pc[t] = "asleep"}

\* The threads the word counts: they announced themselves in lock and have not
\* passed the fetch_sub of unlock.
Counted == Holders \cup Awake \cup Asleep

\* iree_slim_mutex_lock "returns when held by the caller": no two threads are
\* between the end of lock (or try_lock) and unlock.
MutualExclusion == \A s, t \in Holders : s = t

\* The word is exactly the lock bit of the holder plus the number of threads
\* counted, so that unlock's test for "One (or more) waiters" and
\* deinitialize's assertion that the word is 0 when nobody uses the mutex are
\* right.
ValueCountsThreads ==
    value = Cardinality(Counted) + (IF Holders = {} THEN 0 ELSE LockBit)

\* No lost wake-up: when the lock is free and a thread sleeps in the kernel, an
\* unlock has its wake still to do or another thread that wants the lock is
\* awake and will take it (and wake the sleeper when it unlocks).
NoLostWakeup ==
    ~IsLocked(value) /\ Asleep # {} =>
        \/ Awake # {}
        \/ \E t \in Threads : pc[t] = "wake"

\* Whenever some thread wants the lock some thread gets it: contention never
\* leaves the mutex free with everybody asleep.  (No single thread is promised
\* the lock: it is "a lightweight unfair lock".)
SomeoneAcquires == (Awake \cup Asleep # {}) ~> (Holders # {})
=============================================================================
