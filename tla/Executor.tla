------------------------------ MODULE Executor ------------------------------
(***************************************************************************)
(* The executor (iree/task/executor.c, post_batch.c) and its workers       *)
(* (worker.c, queue.c): user threads submit tasks and flush; whoever holds *)
(* the coordinator mutex hands ready tasks to workers and waits to the     *)
(* wait set; workers execute, steal, coordinate when idle, block on the    *)
(* wait set, or park on their wake notification.                           *)
(*                                                                         *)
(* A task is a call or a wait; dependency counters are TaskGraph's matter  *)
(* and appear here as the tasks that the end of a task makes ready.  The   *)
(* wake notification is used by what Notification establishes: a worker    *)
(* parks only if nothing was posted since prepare_wait.                    *)
(***************************************************************************)
EXTENDS Integers, FiniteSets, FiniteSetsExt

CONSTANTS
    Workers,         \* worker indices; worker 0 is one of them
    Users, NoThread,
    Calls, Waits,    \* the tasks
    NoTask,
    Follow,          \* tasks that the end of a task makes ready
    Affinity,        \* affinity_set of a task: the workers it may be posted to
    Submits,         \* the tasks each user thread submits and flushes
    After,           \* tasks a user thread waits for before it submits
    Handles, NoHandle,
    Handle,          \* wait_handle of a wait
    Signals,         \* handles that the closure of a call signals
    Pooled,          \* handles that are reset and reused when their wait retires
    External,        \* handles signaled from outside the task system
    MayExit          \* whether the executor is destroyed once users have flushed

Tasks == Calls \cup Waits
Threads == Workers \cup Users

ASSUME ExecutorAssumption ==
    /\ Workers \subseteq Nat /\ 0 \in Workers
    /\ Workers \cap Users = {} /\ NoThread \notin Threads
    /\ Calls \cap Waits = {} /\ NoTask \notin Tasks
    /\ Follow \in [Tasks -> SUBSET Tasks]
    /\ Affinity \in [Tasks -> SUBSET Workers]
    /\ Submits \in [Users -> SUBSET Tasks] /\ After \in [Users -> SUBSET Tasks]
    /\ NoHandle \notin Handles
    /\ Handle \in [Waits -> Handles] /\ Signals \in [Calls -> SUBSET Handles]
    /\ Pooled \subseteq Handles /\ External \subseteq Handles
    /\ MayExit \in BOOLEAN

\* There are finitely many workers and waits, and a task is submitted by one user
\* thread or made ready by the end of one task: the last of those it depends on.
ASSUME OriginAssumption ==
    /\ IsFiniteSet(Workers) /\ IsFiniteSet(Waits)
    /\ \A u, v \in Users : u # v => Submits[u] \cap Submits[v] = {}
    /\ \A s, t \in Tasks : s # t => Follow[s] \cap Follow[t] = {}
    /\ \A u \in Users, t \in Tasks : Submits[u] \cap Follow[t] = {}

VARIABLES
    incoming,        \* incoming_ready_slist and incoming_waiting_slist
    mailbox,         \* mailbox_slist of each worker
    local,           \* local_task_queue of each worker
    produced,        \* pending_submission of each worker's pump loop
    running,         \* the task each worker executes
    dirty,           \* schedule_dirty of each worker
    idle,            \* worker_idle_mask
    notified,        \* posts to wake_notification since its prepare_wait
    exiting,         \* workers in the state EXITING
    coordinator,     \* holder of coordinator_mutex
    ready, waiting,  \* pending_submission of the coordinator
    batch,           \* post_batch: tasks for each worker
    wake_mask,       \* workers that the post batch has yet to wake
    wait_mutex,      \* its holder
    waiting_list,    \* wait tasks in the executor's waiting_list
    wait_set,        \* how often each handle is in the wait set
    completed,       \* wait tasks with IREE_TASK_FLAG_WAIT_COMPLETED
    polled,          \* handles that the holder of the wait mutex polls
    wake_handle,     \* what iree_wait_any returned to each worker
    signaled,        \* handles that are signaled
    done,            \* tasks that have retired
    pc               \* where each thread stands

queues == <<incoming, mailbox, local, produced, running>>
coord == <<coordinator, ready, waiting, batch, wake_mask>>
waits == <<wait_mutex, waiting_list, wait_set, completed, polled, wake_handle>>
worker == <<dirty, idle, notified, exiting>>
vars == <<queues, worker, coord, waits, signaled, done, pc>>

Init ==
    /\ incoming = {}
    /\ mailbox = [w \in Workers |-> {}]
    /\ local = [w \in Workers |-> {}]
    /\ produced = [w \in Workers |-> {}]
    /\ running = [w \in Workers |-> NoTask]
    /\ dirty = [w \in Workers |-> FALSE]
    /\ idle = Workers
    /\ notified = [w \in Workers |-> FALSE]
    /\ exiting = {}
    /\ coordinator = NoThread
    /\ ready = {} /\ waiting = {}
    /\ batch = [w \in Workers |-> {}] /\ wake_mask = {}
    /\ wait_mutex = NoThread
    /\ waiting_list = {}
    /\ wait_set = [h \in Handles |-> 0]
    /\ completed = {} /\ polled = {}
    /\ wake_handle = [w \in Workers |-> NoHandle]
    /\ signaled = {}
    /\ done = {}
    /\ pc = [p \in Threads |-> IF p \in Users THEN "submit" ELSE "prepare"]

Goto(p, l) == pc' = [pc EXCEPT ![p] = l]

\* iree_task_submission_enqueue puts a task into the waiting list of a
\* submission if it is a wait that has not completed.
IsWaiting(t) == t \in Waits \ completed

\* The tasks that have been submitted or made ready so far.
Begun == {t \in Tasks : \/ \E u \in Users : pc[u] # "submit" /\ t \in Submits[u]
                        \/ \E s \in done : t \in Follow[s]}

-----------------------------------------------------------------------------
(* User threads.                                                           *)

\* iree_task_executor_submit; iree_task_executor_flush follows.
Submit(u) ==
    /\ pc[u] = "submit"
    /\ After[u] \subseteq done
    /\ incoming' = incoming \cup Submits[u]
    /\ Goto(u, "lock")
    /\ UNCHANGED <<mailbox, local, produced, running, worker, coord, waits, signaled, done>>

\* Somebody outside the task system signals the handle of a wait.
SignalExternal(h) ==
    /\ h \in External \ signaled
    /\ \E t \in (Waits \cap Begun) \ done : Handle[t] = h
    /\ signaled' = signaled \cup {h}
    /\ UNCHANGED <<queues, worker, coord, waits, done, pc>>

\* Mutant: the worker is not kicked.
RequestExitQuietly(w) ==
    /\ MayExit
    /\ \A u \in Users : pc[u] = "returned"
    /\ w \notin exiting
    /\ exiting' = exiting \cup {w}
    /\ UNCHANGED <<queues, dirty, idle, notified, coord, waits, signaled, done, pc>>

\* iree_task_worker_request_exit, from iree_task_executor_destroy.
RequestExit(w) ==
    /\ MayExit
    /\ \A u \in Users : pc[u] = "returned"
    /\ w \notin exiting
    /\ exiting' = exiting \cup {w}
    /\ notified' = [notified EXCEPT ![w] = TRUE]
    /\ UNCHANGED <<queues, dirty, idle, coord, waits, signaled, done, pc>>

-----------------------------------------------------------------------------
(* iree_task_executor_coordinate.  A thread of Users coordinates without   *)
(* waiting, a worker with wait_on_idle.                                    *)

CoordinatorLock(p) ==
    /\ pc[p] = "lock"
    /\ coordinator = NoThread
    /\ coordinator' = p
    /\ Goto(p, "flush")
    /\ UNCHANGED <<queues, worker, ready, waiting, batch, wake_mask, waits, signaled, done>>

\* The incoming lists become the coordinator's submission.
CoordinatorFlush(p) ==
    /\ pc[p] = "flush"
    /\ ready' = {t \in incoming : ~IsWaiting(t)}
    /\ waiting' = {t \in incoming : IsWaiting(t)}
    /\ incoming' = {}
    /\ Goto(p, "poll")
    /\ UNCHANGED <<mailbox, local, produced, running, worker, coordinator, batch,
                   wake_mask, waits, signaled, done>>

WakeAllKeepsHandles(S) ==
    /\ waiting_list' = waiting_list \ S
    /\ completed' = completed \cup S
    /\ UNCHANGED wait_set

\* wait_set, waiting_list and flags after every wait of S has been woken.
WakeAll(S) ==
    /\ wait_set' = [h \in Handles |-> wait_set[h] - Cardinality({t \in S : Handle[t] = h})]
    /\ waiting_list' = waiting_list \ S
    /\ completed' = completed \cup S

\* iree_task_executor_poll_waiting_tasks: if nobody holds the wait mutex, wake
\* the waits of every signaled handle.
PollWaitingTasks(p) ==
    /\ pc[p] = "poll"
    /\ LET woken == IF wait_mutex # NoThread THEN {}
                    ELSE {t \in waiting_list : Handle[t] \in signaled}
       IN  WakeAll(woken) /\ ready' = ready \cup woken
    /\ Goto(p, "schedule")
    /\ UNCHANGED <<queues, worker, coordinator, waiting, batch, wake_mask, wait_mutex, polled,
                   wake_handle, signaled, done>>

\* iree_task_post_batch_select_random_worker: the first worker of a mask, or
\* worker 0 if it is empty.
FirstWorker(S) == IF S = {} THEN 0 ELSE Min(S)

\* iree_task_post_batch_select_worker: the coordinating worker first, then idle
\* workers, then any of the affinity set.
SelectWorker(p, t) ==
    LET pending == {w \in Workers : batch[w] # {}}
        idlers == (Affinity[t] \cap idle) \ pending
    IN  IF p \in Affinity[t] \ pending THEN p
        ELSE FirstWorker(IF idlers # {} THEN idlers ELSE Affinity[t])

\* A ready call is put into the post batch.
ScheduleCall(p, t) ==
    /\ pc[p] = "schedule"
    /\ t \in ready \cap Calls
    /\ batch' = [batch EXCEPT ![SelectWorker(p, t)] = @ \cup {t}]
    /\ ready' = ready \ {t}
    /\ UNCHANGED <<queues, worker, coordinator, waiting, wake_mask, waits, signaled, done, pc>>

\* A wait that has completed retires; its event may go back to a pool.
ScheduleWait(p, t) ==
    /\ pc[p] = "schedule"
    /\ t \in ready \cap Waits
    /\ done' = done \cup {t}
    /\ signaled' = signaled \ (Pooled \cap {Handle[t]})
    /\ ready' = (ready \ {t}) \cup {s \in Follow[t] : ~IsWaiting(s)}
    /\ waiting' = waiting \cup {s \in Follow[t] : IsWaiting(s)}
    /\ UNCHANGED <<queues, worker, coordinator, batch, wake_mask, waits, pc>>

ScheduleEnd(p) ==
    /\ pc[p] = "schedule"
    /\ ready = {}
    /\ Goto(p, "merge_waits")
    /\ UNCHANGED <<queues, worker, coord, waits, signaled, done>>

\* iree_task_executor_merge_wait_list: blocks on the wait mutex with the
\* coordinator mutex held.
MergeWaitList(p) ==
    /\ pc[p] = "merge_waits"
    /\ waiting = {} \/ wait_mutex = NoThread
    /\ wait_set' = [h \in Handles |-> wait_set[h] + Cardinality({t \in waiting : Handle[t] = h})]
    /\ waiting_list' = waiting_list \cup waiting
    /\ waiting' = {}
    /\ Goto(p, "post")
    /\ UNCHANGED <<queues, worker, coordinator, ready, batch, wake_mask, wait_mutex, completed,
                   polled, wake_handle, signaled, done>>

\* iree_task_post_batch_submit: tasks for the coordinating worker itself go
\* to its queue, the others to mailboxes, whose workers are to be woken.  A
\* worker that posted nothing goes on to wait for a wait task, without the
\* mutex.
PostBatchSubmit(p) ==
    /\ pc[p] = "post"
    /\ mailbox' = [w \in Workers |-> IF w = p THEN mailbox[w] ELSE mailbox[w] \cup batch[w]]
    /\ local' = [w \in Workers |-> IF w = p THEN local[w] \cup batch[w] ELSE local[w]]
    /\ wake_mask' = {w \in Workers \ {p} : batch[w] # {}}
    /\ batch' = [w \in Workers |-> {}]
    /\ Goto(p, IF wake_mask' # {} THEN "wake"
               ELSE IF /\ p \in Workers /\ waiting_list # {}
                       /\ \A w \in Workers : batch[w] = {}
                    THEN "wait_lock" ELSE "finish")
    /\ coordinator' = IF pc'[p] = "wait_lock" THEN NoThread ELSE p
    /\ UNCHANGED <<incoming, produced, running, worker, ready, waiting, waits, signaled, done>>

\* Mutant: a worker whose idle bit is clear is not woken.
WakeIdleWorkers(p, w) ==
    /\ pc[p] = "wake"
    /\ w \in wake_mask
    /\ notified' = [notified EXCEPT ![w] = @ \/ w \in idle]
    /\ wake_mask' = wake_mask \ {w}
    /\ Goto(p, IF wake_mask' = {} THEN "finish" ELSE "wake")
    /\ UNCHANGED <<queues, dirty, idle, exiting, coordinator, ready, waiting, batch, waits,
                   signaled, done>>

\* iree_task_post_batch_wake_workers.
WakeWorkers(p, w) ==
    /\ pc[p] = "wake"
    /\ w \in wake_mask
    /\ notified' = [notified EXCEPT ![w] = TRUE]
    /\ wake_mask' = wake_mask \ {w}
    /\ Goto(p, IF wake_mask' = {} THEN "finish" ELSE "wake")
    /\ UNCHANGED <<queues, dirty, idle, exiting, coordinator, ready, waiting, batch, waits,
                   signaled, done>>

HandlesInSet == {h \in Handles : wait_set[h] > 0}

\* iree_task_executor_wait_any_task takes the wait mutex; iree_wait_any polls
\* the handles that are in the set.
WaitAnyLock(w) ==
    /\ pc[w] = "wait_lock"
    /\ wait_mutex = NoThread
    /\ wait_mutex' = w
    /\ polled' = HandlesInSet
    /\ Goto(w, "wait_any")
    /\ UNCHANGED <<queues, worker, coord, waiting_list, wait_set, completed, wake_handle,
                   signaled, done>>

WaitAnyReturns(w, h) ==
    /\ wake_handle' = [wake_handle EXCEPT ![w] = h]
    /\ polled' = {}
    /\ wait_mutex' = NoThread
    /\ Goto(w, "relock")
    /\ UNCHANGED <<queues, worker, coord, waiting_list, wait_set, completed, signaled, done>>

\* iree_wait_any returns one of the signaled handles, or none at once if the
\* set was empty, and the wait mutex is released.
WaitAny(w) ==
    /\ pc[w] = "wait_any"
    /\ \E h \in IF polled = {} THEN {NoHandle} ELSE polled \cap signaled : WaitAnyReturns(w, h)

\* The set lost handles while it was polled (WakeWaitingTask): results of the
\* poll are then paired with whatever handles have moved into their slots.
WaitAnyTorn(w) ==
    /\ pc[w] = "wait_any"
    /\ polled # HandlesInSet
    /\ \E h \in HandlesInSet \cup {NoHandle} : WaitAnyReturns(w, h)

\* The coordinator mutex is taken again and the waits on the handle are woken.
WakeWaitingTask(w) ==
    /\ pc[w] = "relock"
    /\ coordinator = NoThread
    /\ coordinator' = w
    /\ LET woken == {t \in waiting_list : Handle[t] = wake_handle[w]}
       IN  WakeAll(woken) /\ ready' = ready \cup woken
    /\ Goto(w, "finish")
    /\ UNCHANGED <<queues, worker, waiting, batch, wake_mask, wait_mutex, polled, wake_handle,
                   signaled, done>>

\* What the coordinator has left goes back to the incoming lists and it starts
\* over; otherwise it is done.
CoordinatorFinish(p) ==
    /\ pc[p] = "finish"
    /\ IF ready # {}
       THEN /\ incoming' = incoming \cup ready
            /\ ready' = {}
            /\ Goto(p, "flush")
            /\ UNCHANGED coordinator
       ELSE /\ coordinator' = NoThread
            /\ Goto(p, IF p \in Users THEN "returned" ELSE "decide")
            /\ UNCHANGED <<incoming, ready>>
    /\ UNCHANGED <<mailbox, local, produced, running, worker, waiting, batch, wake_mask, waits,
                   signaled, done>>

Coordinate(p) ==
    \/ CoordinatorLock(p) \/ CoordinatorFlush(p) \/ PollWaitingTasks(p)
    \/ \E t \in Tasks : ScheduleCall(p, t) \/ ScheduleWait(p, t)
    \/ ScheduleEnd(p) \/ MergeWaitList(p) \/ PostBatchSubmit(p) \/ CoordinatorFinish(p)
    \/ \E w \in Workers : WakeWorkers(p, w)

-----------------------------------------------------------------------------
(* iree_task_worker_pump_until_exit.                                       *)

\* The top of the loop: prepare_wait, the idle bit is cleared, exit requests
\* are honoured.
Prepare(w) ==
    /\ pc[w] = "prepare"
    /\ notified' = [notified EXCEPT ![w] = FALSE]
    /\ idle' = idle \ {w}
    /\ Goto(w, IF w \in exiting THEN "zombie" ELSE "pump")
    /\ UNCHANGED <<queues, dirty, exiting, coord, waits, signaled, done>>

Run(w, t) == running' = [running EXCEPT ![w] = t] /\ Goto(w, "execute")

\* iree_task_queue_pop_front of the worker's own queue.
PopLocal(w, t) ==
    /\ pc[w] = "pump"
    /\ t \in local[w]
    /\ local' = [local EXCEPT ![w] = @ \ {t}]
    /\ Run(w, t)
    /\ UNCHANGED <<incoming, mailbox, produced, worker, coord, waits, signaled, done>>

\* iree_task_queue_flush_from_lifo_slist: the mailbox becomes the queue.
FlushMailbox(w, t) ==
    /\ pc[w] = "pump"
    /\ local[w] = {}
    /\ t \in mailbox[w]
    /\ local' = [local EXCEPT ![w] = mailbox[w] \ {t}]
    /\ mailbox' = [mailbox EXCEPT ![w] = {}]
    /\ Run(w, t)
    /\ UNCHANGED <<incoming, produced, worker, coord, waits, signaled, done>>

\* Nothing of its own: the worker tries to steal.
PumpEmpty(w) ==
    /\ pc[w] = "pump"
    /\ local[w] = {} /\ mailbox[w] = {}
    /\ Goto(w, "steal")
    /\ UNCHANGED <<queues, worker, coord, waits, signaled, done>>

\* Mutant: stolen tasks stay in the queue of the victim.
StealCopies(w, v, S, t) ==
    /\ pc[w] = "steal"
    /\ v # w /\ S \subseteq local[v] /\ t \in S
    /\ 2 * Cardinality(S) \in {Cardinality(local[v]), Cardinality(local[v]) + 1}
    /\ local' = [local EXCEPT ![w] = S \ {t}]
    /\ Run(w, t)
    /\ UNCHANGED <<incoming, mailbox, produced, worker, coord, waits, signaled, done>>

\* iree_task_executor_try_steal_task: half of the queue of another worker
\* moves to this one's.
StealQueue(w, v, S, t) ==
    /\ pc[w] = "steal"
    /\ v # w /\ S \subseteq local[v] /\ t \in S
    /\ 2 * Cardinality(S) \in {Cardinality(local[v]), Cardinality(local[v]) + 1}
    /\ local' = [local EXCEPT ![w] = S \ {t}, ![v] = @ \ S]
    /\ Run(w, t)
    /\ UNCHANGED <<incoming, mailbox, produced, worker, coord, waits, signaled, done>>

\* The same when the other worker's queue is empty: one task of its mailbox.
StealMailbox(w, v, t) ==
    /\ pc[w] = "steal"
    /\ local[v] = {} /\ t \in mailbox[v]
    /\ mailbox' = [mailbox EXCEPT ![v] = @ \ {t}]
    /\ Run(w, t)
    /\ UNCHANGED <<incoming, local, produced, worker, coord, waits, signaled, done>>

\* Mutant: the wait token is taken after the last look at the mailbox.
PumpEndTakesToken(w) ==
    /\ pc[w] = "steal"
    /\ incoming' = incoming \cup produced[w]
    /\ dirty' = [dirty EXCEPT ![w] = produced[w] # {}]
    /\ produced' = [produced EXCEPT ![w] = {}]
    /\ idle' = idle \cup {w}
    /\ notified' = [notified EXCEPT ![w] = FALSE]
    /\ Goto(w, "lock")
    /\ UNCHANGED <<mailbox, local, running, exiting, coord, waits, signaled, done>>

\* No task was found, thefts having failed: what was produced is submitted and
\* the idle bit is set.
PumpEnd(w) ==
    /\ pc[w] = "steal"
    /\ incoming' = incoming \cup produced[w]
    /\ dirty' = [dirty EXCEPT ![w] = produced[w] # {}]
    /\ produced' = [produced EXCEPT ![w] = {}]
    /\ idle' = idle \cup {w}
    /\ Goto(w, "lock")
    /\ UNCHANGED <<mailbox, local, running, notified, exiting, coord, waits, signaled, done>>

\* iree_task_worker_execute: the call runs and retires.
Execute(w) ==
    /\ pc[w] = "execute"
    /\ done' = done \cup {running[w]}
    /\ signaled' = signaled \cup Signals[running[w]]
    /\ produced' = [produced EXCEPT ![w] = @ \cup Follow[running[w]]]
    /\ running' = [running EXCEPT ![w] = NoTask]
    /\ Goto(w, "pump")
    /\ UNCHANGED <<incoming, mailbox, local, worker, coord, waits>>

\* Mutant: the wait token is taken just before the wait.
DecideTakesToken(w) ==
    /\ pc[w] = "decide"
    /\ notified' = [notified EXCEPT ![w] = FALSE]
    /\ Goto(w, IF dirty[w] \/ local[w] # {} THEN "prepare" ELSE "park")
    /\ UNCHANGED <<queues, dirty, idle, exiting, coord, waits, signaled, done>>

\* After coordination: another round if there may be work, or commit_wait.
Decide(w) ==
    /\ pc[w] = "decide"
    /\ Goto(w, IF dirty[w] \/ local[w] # {} THEN "prepare" ELSE "park")
    /\ UNCHANGED <<queues, worker, coord, waits, signaled, done>>

\* commit_wait returns when something was posted since prepare_wait.
Unpark(w) ==
    /\ pc[w] = "park"
    /\ notified[w]
    /\ Goto(w, "prepare")
    /\ UNCHANGED <<queues, worker, coord, waits, signaled, done>>

WorkerStep(w) ==
    \/ Coordinate(w) \/ WaitAnyLock(w) \/ WaitAny(w) \/ WakeWaitingTask(w)
    \/ Prepare(w) \/ PumpEmpty(w) \/ PumpEnd(w) \/ Execute(w) \/ Decide(w) \/ Unpark(w)
    \/ \E t \in Calls : PopLocal(w, t) \/ FlushMailbox(w, t)

Steal(w) == \E v \in Workers : \E t \in Calls :
    \/ StealMailbox(w, v, t)
    \/ \E S \in SUBSET local[v] : StealQueue(w, v, S, t)

UserStep(u) == Submit(u) \/ Coordinate(u)

Next ==
    \/ \E u \in Users : UserStep(u)
    \/ \E w \in Workers : WorkerStep(w) \/ Steal(w) \/ WaitAnyTorn(w) \/ RequestExit(w)
    \/ \E h \in Handles : SignalExternal(h)

Spec == Init /\ [][Next]_vars

\* Threads run, and get a mutex that is released again and again.
ThreadsFair ==
    /\ \A u \in Users : WF_vars(UserStep(u))
    /\ \A p \in Threads : SF_vars(CoordinatorLock(p))
    /\ \A w \in Workers : WF_vars(WorkerStep(w)) /\ SF_vars(WakeWaitingTask(w))

FairSpec == Spec /\ ThreadsFair

\* The handles outside the task system are signaled as well.
ExternalFairSpec == FairSpec /\ \A h \in Handles : WF_vars(SignalExternal(h))

-----------------------------------------------------------------------------
Labels == {"submit", "lock", "flush", "poll", "schedule", "merge_waits", "post", "wake",
           "wait_lock", "wait_any", "relock", "finish", "returned",
           "prepare", "pump", "steal", "execute", "decide", "park", "zombie"}

\* Types of the state.
TypeOK ==
    /\ incoming \subseteq Tasks
    /\ mailbox \in [Workers -> SUBSET Calls] /\ local \in [Workers -> SUBSET Calls]
    /\ produced \in [Workers -> SUBSET Tasks]
    /\ running \in [Workers -> Calls \cup {NoTask}]
    /\ dirty \in [Workers -> BOOLEAN] /\ notified \in [Workers -> BOOLEAN]
    /\ idle \subseteq Workers /\ exiting \subseteq Workers
    /\ coordinator \in Threads \cup {NoThread}
    /\ ready \subseteq Tasks /\ waiting \subseteq Waits
    /\ batch \in [Workers -> SUBSET Calls] /\ wake_mask \subseteq Workers
    /\ wait_mutex \in Workers \cup {NoThread}
    /\ waiting_list \subseteq Waits /\ completed \subseteq Waits
    /\ wait_set \in [Handles -> Nat] /\ polled \subseteq Handles
    /\ wake_handle \in [Workers -> Handles \cup {NoHandle}]
    /\ signaled \subseteq Handles /\ done \subseteq Tasks
    /\ pc \in [Threads -> Labels]

\* How often task t is in the lists of the executor and its workers.
Places(t) ==
    (IF t \in incoming THEN 1 ELSE 0) + (IF t \in ready THEN 1 ELSE 0)
    + (IF t \in waiting THEN 1 ELSE 0) + (IF t \in waiting_list THEN 1 ELSE 0)
    + Cardinality({w \in Workers : t \in mailbox[w]}) + Cardinality({w \in Workers : t \in local[w]})
    + Cardinality({w \in Workers : t \in produced[w]}) + Cardinality({w \in Workers : t \in batch[w]})
    + Cardinality({w \in Workers : running[w] = t})

\* A task that has been submitted, or made ready by another, is in exactly one
\* list or being executed until it retires, and then in none: flushes, thefts
\* and posts neither lose nor duplicate it.
TaskInOnePlace ==
    \A t \in Tasks : Places(t) = IF t \in Begun \ done THEN 1 ELSE 0

\* When all workers are parked with nothing posted and no user is flushing,
\* there is nothing left to do: no queue, mailbox, submission or wait list
\* holds a task.
ParkedMeansNoWork ==
    (/\ \A w \in Workers : pc[w] = "park" /\ ~notified[w]
     /\ \A u \in Users : pc[u] \in {"submit", "returned"})
    => \A t \in Tasks : Places(t) = 0

\* No post to a worker is missed: one that has mail and has looked at its
\* mailbox for the last time before it waits or parks (iree_task_worker_pump_once)
\* has a wake-up posted since its prepare_wait, or is about to get it, whatever
\* thefts, posts and coordination came in between.
MailboxSeen ==
    \A w \in Workers : mailbox[w] # {} =>
        \/ pc[w] \in {"prepare", "pump", "execute", "zombie"}
        \/ notified[w] \/ w \in wake_mask

\* While nobody coordinates, the wait set holds the handles of exactly the
\* waits in the waiting list.
WaitSetInSync ==
    coordinator = NoThread =>
        \A h \in Handles : wait_set[h] = Cardinality({t \in waiting_list : Handle[t] = h})

\* task.h: "Executors will wait on the handle until it is signaled": a wait
\* completes only when its handle is signaled.
WaitsWakeWhenSignaled ==
    [][\A t \in completed' \ completed : Handle[t] \in signaled]_vars

\* The wait set changes only by a thread that holds the wait mutex or when
\* nobody holds it.
WaitSetGuarded ==
    [][wait_set' # wait_set => wait_mutex = NoThread]_vars

\* Nobody holds the coordinator mutex while it waits for a handle to be
\* signaled, be it that another thread polls it.
CoordinatorNotHeldDuringWait ==
    \A p \in Threads :
        ~(/\ pc[p] = "merge_waits" /\ waiting # {}
          /\ wait_mutex # NoThread /\ polled \cap signaled = {} /\ polled # {})

\* Every task that is submitted or made ready retires, unless the executor is
\* destroyed.
AllTasksRetire == []<>(Begun \subseteq done \/ exiting # {})

\* Every call that is ready runs, whatever the waits are waiting for.
ReadyCallsRun == []<>(Begun \cap Calls \subseteq done)

\* Once all workers have been asked to exit they do.
WorkersExit == (exiting = Workers) ~> (\A w \in Workers : pc[w] = "zombie")
=============================================================================
