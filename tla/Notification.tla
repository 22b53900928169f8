---------------------------- MODULE Notification ----------------------------
(***************************************************************************)
(* iree_notification_t (iree/base/internal/synchronization.c): an event    *)
(* count.  Waiters run iree_notification_await on the condition `flag`;    *)
(* posters change the state the condition reads and then post to           *)
(* IREE_ALL_WAITERS, as the header's example does.  has_futex selects the  *)
(* implementation: the futex one, or the pthread mutex and condvar one of  *)
(* the platforms without IREE_PLATFORM_HAS_FUTEX.                          *)
(***************************************************************************)
EXTENDS Integers, FiniteSets

CONSTANTS
    Waiters,    \* threads that call iree_notification_await
    Posters,    \* threads that call iree_notification_post
    Builds,     \* values of IREE_PLATFORM_HAS_FUTEX
    EpochMod,   \* 2^32: the epoch is the upper half of the 64-bit word
    MaxPosts    \* bound: number of posts in a behaviour

ASSUME ThreadsFinite == IsFiniteSet(Waiters) /\ Waiters \cap Posters = {}
ASSUME EpochModEven == EpochMod \in Nat \ {0} /\ EpochMod % 2 = 0
ASSUME BoundsAssumption == Builds \subseteq BOOLEAN /\ MaxPosts \in Nat

VARIABLES
    has_futex,  \* IREE_PLATFORM_HAS_FUTEX of the build; never changes
    epoch,      \* upper 32 bits of notification->value
    waiters,    \* lower 32 bits of notification->value
    flag,       \* the state that the waiters' condition_fn reads
    pc,         \* where each thread stands
    token,      \* wait_token of each waiter
    mutex,      \* notification->mutex of the condvar build: set of owners
    posts       \* posts so far (bounded by MaxPosts)

vars == <<has_futex, epoch, waiters, flag, pc, token, mutex, posts>>

Threads == Waiters \cup Posters

Init ==
    /\ has_futex \in Builds
    /\ epoch = 0
    /\ waiters = 0
    /\ flag = FALSE
    /\ pc = [t \in Threads |-> "idle"]
    /\ token = [w \in Waiters |-> 0]
    /\ mutex = {}
    /\ posts = 0

Goto(t, label) == pc' = [pc EXCEPT ![t] = label]

\* The value that commit_wait compares with the token: the word is loaded as a
\* signed 64-bit integer, so the shift extends the sign of the epoch, while the
\* token is an unsigned 32-bit integer.
LoadedEpoch == IF 2 * epoch >= EpochMod THEN epoch - EpochMod ELSE epoch

-----------------------------------------------------------------------------
\* await: evaluate the condition before anything else, and return if it holds.
AwaitFastPath(w) ==
    /\ pc[w] = "idle"
    /\ Goto(w, IF flag THEN "idle" ELSE "prepare")
    /\ UNCHANGED <<has_futex, epoch, waiters, flag, token, mutex, posts>>

\* prepare_wait: one fetch_add registers the waiter and reads the epoch.
PrepareWait(w) ==
    /\ pc[w] = "prepare"
    /\ waiters' = waiters + 1
    /\ token' = [token EXCEPT ![w] = epoch]
    /\ Goto(w, "check")
    /\ UNCHANGED <<has_futex, epoch, flag, mutex, posts>>

\* await: the condition is evaluated again between prepare and commit.
AwaitRecheck(w) ==
    /\ pc[w] = "check"
    /\ Goto(w, IF flag THEN "cancel" ELSE "commit")
    /\ UNCHANGED <<has_futex, epoch, waiters, flag, token, mutex, posts>>

\* cancel_wait: unregister without blocking; await returns.
CancelWait(w) ==
    /\ pc[w] = "cancel"
    /\ waiters' = waiters - 1
    /\ Goto(w, "idle")
    /\ UNCHANGED <<has_futex, epoch, flag, token, mutex, posts>>

\* commit_wait: the test of the while loop.
CommitWaitTest(w) ==
    /\ pc[w] = "commit"
    /\ Goto(w, IF LoadedEpoch = token[w] THEN "block" ELSE "leave")
    /\ UNCHANGED <<has_futex, epoch, waiters, flag, token, mutex, posts>>

\* Mutant: the futex wait sleeps without comparing the epoch with the token.
FutexWaitUnconditional(w) ==
    /\ has_futex
    /\ pc[w] = "block"
    /\ Goto(w, "asleep")
    /\ UNCHANGED <<has_futex, epoch, waiters, flag, token, mutex, posts>>

\* commit_wait, futex: the kernel compares the epoch with the token and either
\* puts the thread to sleep or returns.
FutexWait(w) ==
    /\ has_futex
    /\ pc[w] = "block"
    /\ Goto(w, IF epoch = token[w] THEN "asleep" ELSE "commit")
    /\ UNCHANGED <<has_futex, epoch, waiters, flag, token, mutex, posts>>

\* commit_wait, condvar: pthread_mutex_lock ...
CondWaitLock(w) ==
    /\ ~has_futex
    /\ pc[w] = "block"
    /\ mutex = {}
    /\ mutex' = {w}
    /\ Goto(w, "condwait")
    /\ UNCHANGED <<has_futex, epoch, waiters, flag, token, posts>>

\* ... pthread_cond_wait, which releases the mutex and sleeps in one step ...
CondWait(w) ==
    /\ pc[w] = "condwait"
    /\ mutex' = {}
    /\ Goto(w, "asleep")
    /\ UNCHANGED <<has_futex, epoch, waiters, flag, token, posts>>

\* ... and, once signalled, takes the mutex back for pthread_mutex_unlock.
CondWaitReturn(w) ==
    /\ pc[w] = "woken"
    /\ mutex = {}
    /\ Goto(w, "commit")
    /\ UNCHANGED <<has_futex, epoch, waiters, flag, token, mutex, posts>>

\* Futex and condvar waits may return without a wake.
SpuriousWake(w) ==
    /\ pc[w] = "asleep"
    /\ Goto(w, IF has_futex THEN "commit" ELSE "woken")
    /\ UNCHANGED <<has_futex, epoch, waiters, flag, token, mutex, posts>>

\* commit_wait: unregister; await goes round its loop.
CommitWaitLeave(w) ==
    /\ pc[w] = "leave"
    /\ waiters' = waiters - 1
    /\ Goto(w, "prepare")
    /\ UNCHANGED <<has_futex, epoch, flag, token, mutex, posts>>

-----------------------------------------------------------------------------
\* A poster changes the state the condition depends on (or some other state)
\* before it posts.
ChangeState(p) ==
    /\ pc[p] = "idle"
    /\ posts < MaxPosts
    /\ posts' = posts + 1
    /\ flag' \in {flag, TRUE}
    /\ Goto(p, "post")
    /\ UNCHANGED <<has_futex, epoch, waiters, token, mutex>>

\* Mutant: post leaves the epoch alone when it sees no waiter.
PostSkipsEpoch(p) ==
    /\ pc[p] = "post"
    /\ epoch' = IF waiters # 0 THEN (epoch + 1) % EpochMod ELSE epoch
    /\ Goto(p, IF waiters > 1 THEN "wake" ELSE "idle")
    /\ UNCHANGED <<has_futex, waiters, flag, token, mutex, posts>>

\* post: fetch_add on the epoch; a wake follows if a waiter was registered.
Post(p) ==
    /\ pc[p] = "post"
    /\ epoch' = (epoch + 1) % EpochMod
    /\ Goto(p, IF waiters # 0 THEN "wake" ELSE "idle")
    /\ UNCHANGED <<has_futex, waiters, flag, token, mutex, posts>>

\* post, futex: wake every thread that sleeps on the epoch.
FutexWakeAll(p) ==
    /\ has_futex
    /\ pc[p] = "wake"
    /\ pc' = [t \in Threads |->
                IF t = p THEN "idle"
                ELSE IF pc[t] = "asleep" THEN "commit" ELSE pc[t]]
    /\ UNCHANGED <<has_futex, epoch, waiters, flag, token, mutex, posts>>

\* post, condvar: the mutex is taken, every sleeper is signalled and the mutex
\* is released.
BroadcastLock(p) ==
    /\ ~has_futex
    /\ pc[p] = "wake"
    /\ mutex = {}
    /\ mutex' = {p}
    /\ Goto(p, "broadcast")
    /\ UNCHANGED <<has_futex, epoch, waiters, flag, token, posts>>

Broadcast(p) ==
    /\ pc[p] = "broadcast"
    /\ mutex' = {}
    /\ pc' = [t \in Threads |->
                IF t = p THEN "idle"
                ELSE IF pc[t] = "asleep" THEN "woken" ELSE pc[t]]
    /\ UNCHANGED <<has_futex, epoch, waiters, flag, token, posts>>

-----------------------------------------------------------------------------
WaiterStep(w) ==
    \/ PrepareWait(w) \/ AwaitRecheck(w) \/ CancelWait(w)
    \/ CommitWaitTest(w) \/ CommitWaitLeave(w)
    \/ FutexWait(w)
    \/ CondWaitLock(w) \/ CondWait(w) \/ CondWaitReturn(w)

PosterStep(p) ==
    \/ Post(p)
    \/ FutexWakeAll(p)
    \/ BroadcastLock(p) \/ Broadcast(p)

Next ==
    \/ \E w \in Waiters : AwaitFastPath(w) \/ WaiterStep(w) \/ SpuriousWake(w)
    \/ \E p \in Posters : ChangeState(p) \/ PosterStep(p)

Spec == Init /\ [][Next]_vars

\* Running threads keep running; mutexes are granted to one that keeps asking.
\* Nothing makes a thread call await or post, and no wake is spurious for ever.
Fairness ==
    /\ \A w \in Waiters : WF_vars(WaiterStep(w)) /\ SF_vars(CondWaitLock(w))
    /\ \A p \in Posters : WF_vars(PosterStep(p)) /\ SF_vars(BroadcastLock(p))

FairSpec == Spec /\ Fairness

-----------------------------------------------------------------------------
WaiterLabels == {"idle", "prepare", "check", "cancel", "commit", "block",
                 "condwait", "asleep", "woken", "leave"}
PosterLabels == {"idle", "post", "wake", "broadcast"}

\* Type invariant.
TypeOK ==
    /\ has_futex \in Builds
    /\ epoch \in 0 .. EpochMod - 1
    /\ waiters \in Nat
    /\ flag \in BOOLEAN
    /\ pc \in [Threads -> WaiterLabels \cup PosterLabels]
    /\ \A w \in Waiters : pc[w] \in WaiterLabels
    /\ \A p \in Posters : pc[p] \in PosterLabels
    /\ token \in [Waiters -> 0 .. EpochMod - 1]
    /\ mutex \subseteq Threads
    /\ posts \in Nat

Registered == {w \in Waiters : pc[w] \notin {"idle", "prepare"}}

\* The lower half of the word counts exactly the threads between prepare_wait
\* and the end of commit_wait or cancel_wait: the assertions of both hold, the
\* count never borrows from the epoch, and post may skip the wake when it is 0.
WaiterCountExact == waiters = Cardinality(Registered)

\* No lost wake-up in the futex build: a thread asleep on an epoch that has
\* passed is about to be woken by a post that has not finished.
NoSleeperLeftBehind ==
    has_futex => \A w \in Waiters :
        pc[w] = "asleep" =>
            \/ epoch = token[w]
            \/ \E p \in Posters : pc[p] = "wake"

\* commit_wait: "Waiting will continue until a notification has been posted."
CommitWaitsForPost ==
    [][\A w \in Waiters :
         pc[w] = "commit" /\ pc'[w] = "leave" => epoch # token[w]]_vars

\* await "blocks and waits until |condition_fn| returns true": once the
\* condition holds (and the poster that made it hold goes on to post), every
\* await returns.
AwaitReturns == \A w \in Waiters : (flag /\ pc[w] # "idle") ~> (pc[w] = "idle")

\* The same of the futex build alone.
FutexAwaitReturns ==
    \A w \in Waiters : (has_futex /\ flag /\ pc[w] # "idle") ~> (pc[w] = "idle")
=============================================================================
