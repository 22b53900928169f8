------------------------- MODULE NotificationProofs -------------------------
(***************************************************************************)
(* The futex build of iree_notification_t loses no wake-up, for every      *)
(* finite set of waiters, any posters and any width of the epoch.          *)
(***************************************************************************)
EXTENDS Notification, FiniteSetTheorems, TLAPS

\* What the argument needs of the types.
Labels ==
    /\ pc \in [Threads -> WaiterLabels \cup PosterLabels]
    /\ \A w \in Waiters : pc[w] \in WaiterLabels
    /\ \A p \in Posters : pc[p] \in PosterLabels
    /\ waiters \in Nat
    /\ token = [w \in Waiters |-> token[w]]
    /\ has_futex => \A w \in Waiters : pc[w] # "condwait"

\* The inductive invariant.  NoSleeperLeftBehind is not inductive: a post wakes
\* only if it sees a registered waiter, so the count must cover every sleeper.
IInv == Labels /\ WaiterCountExact /\ NoSleeperLeftBehind

\* Registered is finite, so its cardinality is a number.
LEMMA RegisteredFinite == IsFiniteSet(Registered) /\ Cardinality(Registered) \in Nat
<1>1. Registered \subseteq Waiters BY DEF Registered
<1>2. QED BY <1>1, ThreadsFinite, FS_Subset, FS_CardinalityType

\* prepare_wait registers a waiter: the count goes up by one.
LEMMA Register ==
    ASSUME NEW w, w \notin Registered, Registered' = Registered \cup {w}
    PROVE  Cardinality(Registered') = Cardinality(Registered) + 1
BY RegisteredFinite, FS_AddElement

\* cancel_wait and the end of commit_wait: the count goes down by one.
LEMMA Unregister ==
    ASSUME NEW w, w \in Registered, Registered' = Registered \ {w}
    PROVE  Cardinality(Registered') = Cardinality(Registered) - 1
BY RegisteredFinite, FS_RemoveElement

\* A count of zero means that nobody is registered, so nobody sleeps.
LEMMA NobodyRegistered ==
    ASSUME WaiterCountExact, waiters = 0
    PROVE  \A w \in Waiters : pc[w] # "asleep"
<1>1. Registered = {} BY RegisteredFinite, FS_EmptySet DEF WaiterCountExact
<1>2. QED BY <1>1 DEF Registered

\* The initial states satisfy the inductive invariant.
LEMMA InitIInv == Init => IInv
<1> SUFFICES ASSUME Init PROVE IInv OBVIOUS
<1>1. Registered = {} BY DEF Init, Registered, Threads
<1>2. WaiterCountExact BY <1>1, FS_EmptySet DEF Init, WaiterCountExact
<1>3. Labels BY DEF Init, Labels, Threads, WaiterLabels, PosterLabels
<1>4. NoSleeperLeftBehind BY DEF Init, NoSleeperLeftBehind, Threads
<1>5. QED BY <1>2, <1>3, <1>4 DEF IInv

\* A waiter that moves between labels on the same side of registration, and
\* goes to sleep only on the current epoch, keeps the invariant.
LEMMA WaiterMoves ==
    ASSUME IInv, NEW w \in Waiters, NEW label \in WaiterLabels,
           pc' = [pc EXCEPT ![w] = label],
           pc[w] \in {"idle", "prepare"} <=> label \in {"idle", "prepare"},
           has_futex => label # "condwait" /\ (label = "asleep" => epoch = token[w]),
           UNCHANGED <<has_futex, epoch, waiters, token>>
    PROVE  IInv'
<1> USE DEF IInv
<1>1. Labels' BY ThreadsFinite DEF Labels, Threads
<1>2. Registered' = Registered BY DEF Registered, Labels, Threads
<1>3. WaiterCountExact' BY <1>2 DEF WaiterCountExact
<1>4. NoSleeperLeftBehind'
  BY ThreadsFinite DEF NoSleeperLeftBehind, Labels, Threads
<1>5. QED BY <1>1, <1>3, <1>4

\* A poster that is not the last to owe a wake moves on.
LEMMA PosterMoves ==
    ASSUME IInv, NEW p \in Posters, NEW label \in PosterLabels,
           pc' = [pc EXCEPT ![p] = label],
           has_futex => pc[p] # "wake",
           label = "wake" \/ epoch' = epoch \/ waiters = 0,
           UNCHANGED <<has_futex, waiters, token>>
    PROVE  IInv'
<1> USE DEF IInv
<1>1. p \notin Waiters BY ThreadsFinite
<1>2. Labels' BY <1>1 DEF Labels, Threads
<1>3. Registered' = Registered BY <1>1 DEF Registered, Labels, Threads
<1>4. WaiterCountExact' BY <1>3 DEF WaiterCountExact
<1>5. NoSleeperLeftBehind'
  <2>1. \A w \in Waiters : pc'[w] = pc[w] BY <1>1 DEF Labels, Threads
  <2>2. \A q \in Posters : q # p => pc'[q] = pc[q] BY DEF Labels, Threads
  <2>3. pc'[p] = label BY DEF Labels, Threads
  <2>4. CASE label = "wake" BY <2>1, <2>3, <2>4 DEF NoSleeperLeftBehind
  <2>5. CASE epoch' = epoch BY <2>1, <2>2, <2>5 DEF NoSleeperLeftBehind
  <2>6. CASE waiters = 0 BY <2>1, <2>6, NobodyRegistered DEF NoSleeperLeftBehind
  <2>7. QED BY <2>4, <2>5, <2>6
<1>6. QED BY <1>2, <1>4, <1>5

\* A wake of all sleepers leaves nobody asleep; the woken stay registered.
LEMMA WakeAll ==
    ASSUME IInv, NEW p \in Posters, NEW label \in WaiterLabels \ {"idle", "prepare", "condwait", "asleep"},
           pc' = [t \in Threads |-> IF t = p THEN "idle"
                                    ELSE IF pc[t] = "asleep" THEN label ELSE pc[t]],
           UNCHANGED <<has_futex, epoch, waiters, token>>
    PROVE  IInv'
<1> USE DEF IInv
<1>1. p \notin Waiters BY ThreadsFinite
<1>2. \A w \in Waiters : pc'[w] = IF pc[w] = "asleep" THEN label ELSE pc[w]
  BY <1>1 DEF Threads
<1>3. \A q \in Posters : pc'[q] = IF q = p THEN "idle" ELSE pc[q]
  BY DEF Labels, PosterLabels, Threads
<1>4. Labels'
  <2>1. pc' \in [Threads -> WaiterLabels \cup PosterLabels]
    BY DEF Labels, Threads, WaiterLabels
  <2>2. QED BY <1>2, <1>3, <2>1 DEF Labels, PosterLabels
<1>5. Registered' = Registered BY <1>2 DEF Registered
<1>6. WaiterCountExact' BY <1>5 DEF WaiterCountExact
<1>7. NoSleeperLeftBehind' BY <1>2 DEF NoSleeperLeftBehind
<1>8. QED BY <1>4, <1>6, <1>7

\* Every step preserves the inductive invariant.
LEMMA NextIInv == IInv /\ [Next]_vars => IInv'
<1> SUFFICES ASSUME IInv, [Next]_vars PROVE IInv' OBVIOUS
<1>1. CASE UNCHANGED vars
  BY <1>1 DEF vars, IInv, Labels, WaiterCountExact, NoSleeperLeftBehind, Registered
<1>2. ASSUME NEW w \in Waiters, AwaitFastPath(w) \/ WaiterStep(w) \/ SpuriousWake(w)
      PROVE  IInv'
  <2> USE DEF Goto, WaiterLabels
  <2>1. CASE AwaitFastPath(w) BY <2>1, WaiterMoves DEF AwaitFastPath
  <2>2. CASE PrepareWait(w)
    <3>1. pc' = [pc EXCEPT ![w] = "check"] BY <2>2 DEF PrepareWait
    <3>2. w \notin Registered /\ Registered' = Registered \cup {w}
      BY <2>2, <3>1 DEF PrepareWait, Registered, IInv, Labels, Threads
    <3>3. WaiterCountExact'
      BY <2>2, <3>2, Register DEF PrepareWait, WaiterCountExact, IInv
    <3>4. Labels' BY <2>2, <3>1, ThreadsFinite DEF PrepareWait, Labels, IInv, Threads
    <3>5. NoSleeperLeftBehind'
      BY <2>2, <3>1, ThreadsFinite DEF PrepareWait, NoSleeperLeftBehind, Labels, IInv, Threads
    <3>6. QED BY <3>3, <3>4, <3>5 DEF IInv
  <2>3. CASE AwaitRecheck(w) BY <2>3, WaiterMoves DEF AwaitRecheck
  <2>4. ASSUME NEW label \in {"idle", "prepare"}, pc' = [pc EXCEPT ![w] = label],
               pc[w] \in {"cancel", "leave"}, waiters' = waiters - 1,
               UNCHANGED <<has_futex, epoch, token>>
        PROVE  IInv'
    <3>1. w \in Registered /\ Registered' = Registered \ {w}
      BY <2>4 DEF Registered, IInv, Labels, Threads
    <3>2. WaiterCountExact' BY <2>4, <3>1, Unregister DEF WaiterCountExact, IInv
    <3>3. waiters' \in Nat
      BY <3>1, <3>2, RegisteredFinite, FS_RemoveElement, FS_CardinalityType
      DEF WaiterCountExact
    <3>4. Labels' BY <2>4, <3>3, ThreadsFinite DEF Labels, IInv, Threads
    <3>5. NoSleeperLeftBehind'
      BY <2>4, ThreadsFinite DEF NoSleeperLeftBehind, Labels, IInv, Threads
    <3>6. QED BY <3>2, <3>4, <3>5 DEF IInv
  <2>5. CASE CancelWait(w) BY <2>4, <2>5 DEF CancelWait
  <2>6. CASE CommitWaitTest(w) BY <2>6, WaiterMoves DEF CommitWaitTest
  <2>7. CASE CommitWaitLeave(w) BY <2>4, <2>7 DEF CommitWaitLeave
  <2>8. CASE FutexWait(w) BY <2>8, WaiterMoves DEF FutexWait
  <2>9. CASE CondWaitLock(w) BY <2>9, WaiterMoves DEF CondWaitLock
  <2>10. CASE CondWait(w) BY <2>10, WaiterMoves DEF CondWait, IInv, Labels
  <2>11. CASE CondWaitReturn(w) BY <2>11, WaiterMoves DEF CondWaitReturn
  <2>12. CASE SpuriousWake(w) BY <2>12, WaiterMoves DEF SpuriousWake
  <2>13. QED
    BY <1>2, <2>1, <2>2, <2>3, <2>5, <2>6, <2>7, <2>8, <2>9, <2>10, <2>11, <2>12
    DEF WaiterStep
<1>3. ASSUME NEW p \in Posters, ChangeState(p) \/ PosterStep(p)
      PROVE  IInv'
  <2> USE DEF Goto, PosterLabels
  <2>1. CASE ChangeState(p) BY <2>1, PosterMoves DEF ChangeState
  <2>2. CASE Post(p) BY <2>2, PosterMoves DEF Post
  <2>3. CASE FutexWakeAll(p) BY <2>3, WakeAll DEF FutexWakeAll, WaiterLabels
  <2>4. CASE BroadcastLock(p) BY <2>4, PosterMoves DEF BroadcastLock
  <2>5. CASE Broadcast(p) BY <2>5, WakeAll DEF Broadcast, WaiterLabels
  <2>6. QED BY <1>3, <2>1, <2>2, <2>3, <2>4, <2>5 DEF PosterStep
<1>4. QED BY <1>1, <1>2, <1>3 DEF Next

\* The inductive invariant holds in every reachable state.
LEMMA IInvHolds == Spec => []IInv
BY InitIInv, NextIInv, PTL DEF Spec

\* post may skip the wake when the count is zero, and the assertions of
\* cancel_wait and commit_wait hold: the count of the word is exact.
THEOREM WaiterCountExactHolds == Spec => []WaiterCountExact
<1>1. IInv => WaiterCountExact BY DEF IInv
<1>2. QED BY <1>1, IInvHolds, PTL

\* No lost wake-up: in the futex build a thread asleep on an epoch that has
\* passed is about to be woken, whatever the interleaving of waits and posts.
THEOREM NoSleeperLeftBehindHolds == Spec => []NoSleeperLeftBehind
<1>1. IInv => NoSleeperLeftBehind BY DEF IInv
<1>2. QED BY <1>1, IInvHolds, PTL
=============================================================================
