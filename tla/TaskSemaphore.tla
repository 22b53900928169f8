---------------------------- MODULE TaskSemaphore ----------------------------
(***************************************************************************)
(* A timeline semaphore of the task device (iree/hal/local/                *)
(* task_semaphore.c) and the pool its events come from (event_pool.c).     *)
(* Threads block in iree_hal_task_semaphore_wait and queues wait with an   *)
(* enqueued timepoint, while other threads signal or fail the semaphore.   *)
(* The list of timepoints is modelled pointer by pointer.  What runs under *)
(* the semaphore's mutex is one step; timepoints are notified outside it.  *)
(***************************************************************************)
EXTENDS Integers, Sequences, FiniteSets

CONSTANTS
    Waiters,      \* each owns the memory of one timepoint
    QueueWaiters, \* waiters that enqueue a wait task instead of blocking
    Signalers,
    Null,
    EventCount,   \* operating system events that can exist at one time
    PoolCapacity, \* available_capacity of the event pool
    MaxValue,     \* largest payload value signaled
    MaxWaits,     \* bound on the waits of each waiter
    MayFail,      \* whether signalers may fail the semaphore
    MayTimeOut    \* whether blocking waits have a deadline

ASSUME SemaphoreAssumption ==
    /\ QueueWaiters \subseteq Waiters
    /\ Null \notin Waiters \cup Nat
    /\ EventCount \in Nat /\ PoolCapacity \in 0 .. EventCount
    /\ MaxValue \in Nat \ {0} /\ MaxWaits \in Nat
    /\ MayFail \in BOOLEAN /\ MayTimeOut \in BOOLEAN

Events == 1 .. EventCount
FailureValue == MaxValue + 1 \* IREE_HAL_TASK_SEMAPHORE_FAILURE_VALUE

VARIABLES
    current_value,
    failed,      \* failure_status is not OK
    reached,     \* history: the largest value signaled
    list,        \* timepoint_list: [head, tail]
    next, prev,  \* links of each timepoint
    payload,     \* payload_value of each timepoint
    event,       \* event of each timepoint
    available,   \* available_list of the event pool
    unused,      \* events that do not exist at the moment
    set,         \* events that are signaled
    wpc,         \* where each waiter stands
    result,      \* what its last wait returned
    waits,       \* waits each waiter has begun
    ready,       \* next timepoint to be notified by each signaler
    taken,       \* history: timepoints taken by a signaler and not yet notified
    torn,        \* history: a timepoint was erased in front of another
    raced        \* history: a deadline passed for a timepoint that was taken

links == <<list, next, prev>>
pool == <<available, unused>>
value == <<current_value, failed, reached>>
waiter == <<wpc, result, waits>>
past == <<taken, torn, raced>>
vars == <<value, links, payload, event, pool, set, waiter, ready, past>>

Init ==
    /\ current_value = 0 /\ failed = FALSE /\ reached = 0
    /\ list = [head |-> Null, tail |-> Null]
    /\ next = [w \in Waiters |-> Null]
    /\ prev = [w \in Waiters |-> Null]
    /\ payload = [w \in Waiters |-> 0]
    /\ event = [w \in Waiters |-> Null]
    /\ available = [i \in 1 .. PoolCapacity |-> i]
    /\ unused = PoolCapacity + 1 .. EventCount
    /\ set = {}
    /\ wpc = [w \in Waiters |-> "idle"]
    /\ result = [w \in Waiters |-> "none"]
    /\ waits = [w \in Waiters |-> 0]
    /\ ready = [s \in Signalers |-> Null]
    /\ taken = {} /\ torn = FALSE /\ raced = FALSE

-----------------------------------------------------------------------------
(* The list.  M is the memory: the next and prev links of all timepoints.  *)

\* A list and the memory after timepoint t is appended.
Append1(l, M, t) ==
    [list |-> [head |-> IF l.tail = Null THEN t ELSE l.head, tail |-> t],
     mem |-> [next |-> [w \in Waiters |-> IF w = l.tail THEN t
                                          ELSE IF w = t THEN Null ELSE M.next[w]],
              prev |-> [M.prev EXCEPT ![t] = l.tail]]]

\* Mutant: the tail of the list stays where it is.
EraseKeepsTail(l, M, t) ==
    [list |-> [head |-> IF l.head = t THEN M.next[t] ELSE l.head, tail |-> l.tail],
     mem |-> [next |-> [w \in Waiters |-> IF w = t THEN Null
                                          ELSE IF w = M.prev[t] THEN M.next[t]
                                          ELSE M.next[w]],
              prev |-> [M.prev EXCEPT ![t] = Null]]]

\* A list and the memory after timepoint t is erased.  The prev link of the
\* timepoint after t is left as it is.
Erase(l, M, t) ==
    [list |-> [head |-> IF l.head = t THEN M.next[t] ELSE l.head,
               tail |-> IF l.tail = t THEN M.prev[t] ELSE l.tail],
     mem |-> [next |-> [w \in Waiters |-> IF w = t THEN Null
                                          ELSE IF w = M.prev[t] THEN M.next[t]
                                          ELSE M.next[w]],
              prev |-> [M.prev EXCEPT ![t] = Null]]]

\* One iteration of iree_hal_task_timepoint_list_take_ready.
TakeOne(p, v) ==
    LET t == p.cursor
        e == Erase(p.pending, p.mem, t)
        a == Append1(p.taken, e.mem, t)
    IN  IF payload[t] <= v
        THEN [pending |-> e.list, taken |-> a.list, mem |-> a.mem, cursor |-> p.mem.next[t],
              moved |-> p.moved \cup {t}, torn |-> p.torn \/ p.mem.next[t] # Null]
        ELSE [p EXCEPT !.cursor = p.mem.next[t]]

\* iree_hal_task_timepoint_list_take_ready: the loop visits every timepoint at
\* most once.
TakeReady(v) ==
    LET Loop[k \in 0 .. Cardinality(Waiters)] ==
            IF k = 0
            THEN [pending |-> list, taken |-> [head |-> Null, tail |-> Null],
                  mem |-> [next |-> next, prev |-> prev], cursor |-> list.head,
                  moved |-> {}, torn |-> FALSE]
            ELSE IF Loop[k - 1].cursor = Null THEN Loop[k - 1]
            ELSE TakeOne(Loop[k - 1], v)
    IN  Loop[Cardinality(Waiters)]

\* The timepoints reached from t through next.
From(t) ==
    LET Step[k \in 0 .. Cardinality(Waiters)] ==
            IF k = 0 THEN {t} \ {Null}
            ELSE Step[k - 1] \cup ({next[w] : w \in Step[k - 1]} \ {Null})
    IN  Step[Cardinality(Waiters)]

-----------------------------------------------------------------------------
(* The event pool.                                                         *)

\* iree_hal_local_event_pool_acquire of one event e: the newest of the pool,
\* or a new one when the pool is empty.
Acquire(e) ==
    \/ /\ available # <<>>
       /\ e = available[Len(available)]
       /\ available' = SubSeq(available, 1, Len(available) - 1)
       /\ UNCHANGED <<unused, set>>
    \/ /\ available = <<>>
       /\ e \in unused
       /\ unused' = unused \ {e}
       /\ set' = set \ {e}
       /\ UNCHANGED available

\* Mutant: events go back to the pool as they are.
ReleaseUnreset(e) ==
    /\ IF Len(available) < PoolCapacity
       THEN available' = Append(available, e) /\ UNCHANGED unused
       ELSE unused' = unused \cup {e} /\ UNCHANGED available
    /\ UNCHANGED set

\* Mutant: the event is put back and also deinitialized when the pool is full.
ReleaseTwice(e) ==
    /\ available' = Append(available, e)
    /\ unused' = IF Len(available) < PoolCapacity THEN unused ELSE unused \cup {e}
    /\ set' = set \ {e}

\* iree_hal_local_event_pool_release of one event: it is reset and put back,
\* or deinitialized when the pool is full.
Release(e) ==
    \/ /\ Len(available) < PoolCapacity
       /\ available' = Append(available, e)
       /\ set' = set \ {e}
       /\ UNCHANGED unused
    \/ /\ Len(available) >= PoolCapacity
       /\ unused' = unused \cup {e}
       /\ UNCHANGED <<available, set>>

-----------------------------------------------------------------------------
(* Waiting.                                                                *)

Mem == [next |-> next, prev |-> prev]

\* The list and the links become those of r.
SetList(r) == list' = r.list /\ next' = r.mem.next /\ prev' = r.mem.prev

BeginWait(w) ==
    /\ wpc[w] = "idle"
    /\ waits[w] < MaxWaits
    /\ waits' = [waits EXCEPT ![w] = @ + 1]

\* A wait for v that returns at once.
Return(w, v, r) ==
    /\ result' = [result EXCEPT ![w] = r]
    /\ payload' = [payload EXCEPT ![w] = v]
    /\ UNCHANGED <<wpc, value, links, event, pool, set, ready, past>>

\* The fast paths of iree_hal_task_semaphore_wait and of
\* iree_hal_task_semaphore_enqueue_timepoint, which takes a failed semaphore
\* for one that has reached every value.
WaitFast(w, v) ==
    /\ BeginWait(w)
    /\ \/ w \notin QueueWaiters /\ failed /\ Return(w, v, "aborted")
       \/ w \notin QueueWaiters /\ ~failed /\ current_value >= v /\ Return(w, v, "ok")
       \/ w \notin QueueWaiters /\ ~failed /\ current_value < v /\ MayTimeOut
             /\ Return(w, v, "deadline")
       \/ w \in QueueWaiters /\ current_value >= v /\ Return(w, v, "ok")

\* Their slow path: a timepoint with an event of the pool joins the list.
WaitSlow(w, v) ==
    /\ BeginWait(w)
    /\ current_value < v
    /\ \E e \in Events :
        /\ Acquire(e)
        /\ event' = [event EXCEPT ![w] = e]
    /\ payload' = [payload EXCEPT ![w] = v]
    /\ SetList(Append1(list, Mem, w))
    /\ wpc' = [wpc EXCEPT ![w] = "blocked"]
    /\ result' = [result EXCEPT ![w] = "none"]
    /\ UNCHANGED <<value, ready, past>>

\* The slow path when the pool is empty and no event can be created.
WaitExhausted(w, v) ==
    /\ BeginWait(w)
    /\ current_value < v
    /\ available = <<>>
    /\ Return(w, v, "exhausted")

\* The event is set: iree_wait_one returns, or the wait task completes.
Wake(w) ==
    /\ wpc[w] = "blocked"
    /\ event[w] \in set
    /\ wpc' = [wpc EXCEPT ![w] = "release"]
    /\ result' = [result EXCEPT ![w] = "ok"]
    /\ UNCHANGED <<value, links, payload, event, pool, set, waits, ready, past>>

\* The deadline passes before the event is set.
TimeOut(w) ==
    /\ MayTimeOut
    /\ w \notin QueueWaiters
    /\ wpc[w] = "blocked"
    /\ event[w] \notin set
    /\ wpc' = [wpc EXCEPT ![w] = "cancel"]
    /\ result' = [result EXCEPT ![w] = "deadline"]
    /\ UNCHANGED <<value, links, payload, event, pool, set, waits, ready, past>>

\* The timepoint of a wait that timed out is erased from the list.
Cancel(w) ==
    /\ wpc[w] = "cancel"
    /\ SetList(Erase(list, Mem, w))
    /\ torn' = (torn \/ next[w] # Null)
    /\ raced' = (raced \/ w \in taken)
    /\ wpc' = [wpc EXCEPT ![w] = "release"]
    /\ UNCHANGED <<value, payload, event, pool, set, result, waits, ready, taken>>

\* The event goes back to the pool and the wait is over.
ReleaseEvent(w) ==
    /\ wpc[w] = "release"
    /\ Release(event[w])
    /\ wpc' = [wpc EXCEPT ![w] = "idle"]
    /\ UNCHANGED <<value, links, payload, event, result, waits, ready, past>>

-----------------------------------------------------------------------------
(* Signaling.                                                              *)

\* iree_hal_task_semaphore_signal up to the unlock.  A value that is not
\* larger than the current one is refused and changes nothing.
Signal(s, v) ==
    /\ ready[s] = Null
    /\ v > current_value
    /\ current_value' = v
    /\ reached' = v
    /\ LET r == TakeReady(v)
       IN  /\ SetList([list |-> r.pending, mem |-> r.mem])
           /\ ready' = [ready EXCEPT ![s] = r.taken.head]
           /\ taken' = taken \cup r.moved /\ torn' = (torn \/ r.torn)
    /\ UNCHANGED <<failed, payload, event, pool, set, waiter, raced>>

\* iree_hal_task_semaphore_fail up to the unlock: the first failure takes the
\* whole list.
Fail(s) ==
    /\ MayFail
    /\ ready[s] = Null
    /\ ~failed
    /\ failed' = TRUE
    /\ current_value' = FailureValue
    /\ ready' = [ready EXCEPT ![s] = list.head]
    /\ list' = [head |-> Null, tail |-> Null]
    /\ taken' = taken \cup From(list.head)
    /\ UNCHANGED <<reached, next, prev, payload, event, pool, set, waiter, torn, raced>>

\* Mutant: only the first ready timepoint is notified.
NotifyFirst(s) ==
    /\ ready[s] # Null
    /\ set' = set \cup {event[ready[s]]}
    /\ ready' = [ready EXCEPT ![s] = Null]
    /\ next' = [next EXCEPT ![ready[s]] = Null]
    /\ prev' = [prev EXCEPT ![ready[s]] = Null]
    /\ taken' = taken \ {ready[s]}
    /\ UNCHANGED <<value, list, payload, event, pool, waiter, torn, raced>>

\* One iteration of iree_hal_task_timepoint_list_notify_ready, without the lock.
NotifyOne(s) ==
    /\ ready[s] # Null
    /\ ready' = [ready EXCEPT ![s] = next[ready[s]]]
    /\ next' = [next EXCEPT ![ready[s]] = Null]
    /\ prev' = [prev EXCEPT ![ready[s]] = Null]
    /\ set' = set \cup {event[ready[s]]}
    /\ taken' = taken \ {ready[s]}
    /\ UNCHANGED <<value, list, payload, event, pool, waiter, torn, raced>>

WaiterStep(w) == Wake(w) \/ Cancel(w) \/ ReleaseEvent(w)

Next ==
    \/ \E w \in Waiters : \/ \E v \in 1 .. MaxValue : WaitFast(w, v) \/ WaitSlow(w, v)
                                                      \/ WaitExhausted(w, v)
                          \/ TimeOut(w)
                          \/ WaiterStep(w)
    \/ \E s \in Signalers : \/ \E v \in 1 .. MaxValue : Signal(s, v)
                            \/ Fail(s)
                            \/ NotifyOne(s)

Spec == Init /\ [][Next]_vars

\* A signaler finishes its notifications, and a thread whose event is set or
\* whose wait has ended runs on.
FairSpec == /\ Spec
            /\ \A w \in Waiters : WF_vars(WaiterStep(w))
            /\ \A s \in Signalers : WF_vars(NotifyOne(s))

-----------------------------------------------------------------------------
Timepoints == Waiters \cup {Null}

\* Types of the state.
TypeOK ==
    /\ current_value \in 0 .. FailureValue /\ reached \in 0 .. MaxValue
    /\ failed \in BOOLEAN
    /\ list \in [head : Timepoints, tail : Timepoints]
    /\ next \in [Waiters -> Timepoints] /\ prev \in [Waiters -> Timepoints]
    /\ payload \in [Waiters -> 0 .. MaxValue]
    /\ event \in [Waiters -> Events \cup {Null}]
    /\ Len(available) <= PoolCapacity
    /\ \A i \in 1 .. Len(available) : available[i] \in Events
    /\ unused \subseteq Events /\ set \subseteq Events
    /\ wpc \in [Waiters -> {"idle", "blocked", "cancel", "release"}]
    /\ result \in [Waiters -> {"none", "ok", "aborted", "deadline", "exhausted"}]
    /\ waits \in [Waiters -> 0 .. MaxWaits]
    /\ ready \in [Signalers -> Timepoints]

Holding(w) == wpc[w] # "idle"

\* Every event is in exactly one place: in the pool once, with the one waiter
\* that acquired it, or deinitialized.
EventsConserved ==
    \A e \in Events :
        Cardinality({i \in 1 .. Len(available) : available[i] = e})
          + Cardinality({w \in Waiters : Holding(w) /\ event[w] = e})
          + (IF e \in unused THEN 1 ELSE 0) = 1

\* Two things the code gets wrong have not happened (README.md, section 8): the
\* erasure of a timepoint in front of another, which keeps a link to it, and a
\* deadline that passes when a signaler has taken the timepoint and is about to
\* set its event.
Sound == ~torn /\ ~raced

\* A wait that returned OK has seen its value reached, or the semaphore fail,
\* however often events went through the pool and whatever deadlines passed
\* before (iree_hal_task_semaphore_wait).
OkMeansReachedOrFailed ==
    Sound => \A w \in Waiters : result[w] = "ok" => reached >= payload[w] \/ failed

\* A wait that returned OK has seen its value reached.
OkMeansReached ==
    \A w \in Waiters : result[w] = "ok" => reached >= payload[w]

\* Once the notifications of the signalers are done, every waiter whose value
\* has been reached, or whose semaphore has failed, has had its event set: signals,
\* deadlines and earlier waits leave a list in which the next signal finds it
\* (iree_hal_task_timepoint_list_take_ready).
FoundWhenReached ==
    (Sound /\ \A s \in Signalers : ready[s] = Null) =>
        \A w \in Waiters : wpc[w] = "blocked" /\ payload[w] <= current_value
                               => event[w] \in set

\* task_semaphore.c: "When the semaphore is signaled to at least the specified
\* value then the given event will be signaled".
ReachedMeansSignaled ==
    (\A s \in Signalers : ready[s] = Null) =>
        \A w \in Waiters : wpc[w] = "blocked" /\ payload[w] <= current_value
                               => event[w] \in set

\* A waiter whose value is reached, or whose semaphore fails, returns, if
\* neither of the two happens first.
ReachedWaitersReturn ==
    \A w \in Waiters : (wpc[w] = "blocked" /\ payload[w] <= current_value)
                           ~> (wpc[w] = "idle" \/ ~Sound)
=============================================================================
