# Formal models of the IREE runtime

IREE compiles ML programs ahead of time and runs them on a small runtime.  The
models in this directory cover the two places of it that tests hardly reach.
One is its concurrency: a work-stealing task system (`iree/task`), the
synchronization primitives below it (`iree/base/internal`), the CPU devices
above it (`iree/hal/local`) that turn command buffers and timeline semaphores
into task graphs, and the emulation of timeline semaphores on Vulkan
(`iree/hal/vulkan`).  The other is the contract between the compiler that
assigns registers and the interpreter that moves references through them
(`iree/compiler/Dialect/VM`, `iree/vm`).  The modules are written from the
source, TLC checks them on small instances, and TLAPS proves the central facts
for every instance.

Contents: 1 the system, 2 hard behaviours and properties, 3 modules and how
they correspond to the code, 4 runs, 5 bounds, 6 fairness, 7 proofs,
8 disagreements between code and comments, 9 what is not modelled, 10 what is
next.  All paths are relative to `src/iree/`.

## 1. The system

| part | source | state | operations |
|---|---|---|---|
| slim mutex | `base/internal/synchronization.c` | one 32-bit word: lock bit and count of interested threads; the kernel's futex queue | lock, try_lock, unlock |
| notification | `base/internal/synchronization.c` | a 64-bit word: epoch and waiter count; futex or mutex and condition variable | post, prepare_wait, commit_wait, cancel_wait, await |
| atomic slist | `base/internal/atomic_slist.c` | mutex-guarded list | push, pop, concat, flush |
| wait handles and sets | `base/internal/wait_handle*.c` | events, poll sets with duplicate counts | set, reset, insert, erase, wait_any, wait_all |
| task graph | `task/task.c`, `submission.c` | per task: pending dependency count, completion task, flags | initialize, set_completion_task, enqueue, execute, issue, retire, discard |
| dispatch grid | `task/task.c` | shared tile index; slices | issue sliced or sharded, execute slice or shard |
| scope | `task/scope.c` | pending submissions, permanent status, idle notification | begin, end, fail, abort, consume_status, wait_idle |
| lists, queue, pool | `task/list.c`, `queue.c`, `pool.c` | task lists | push, pop, split, steal; acquire, grow, release |
| worker | `task/worker.c` | state, mailbox, local queue, wake notification | main, pump, execute, steal, request_exit |
| executor | `task/executor.c`, `post_batch.c` | incoming lists, waiting list and wait set, idle/live/suspend masks, two mutexes | create, destroy, submit, flush, coordinate, poll, wait, post |
| task queue | `hal/local/task_queue.c` | tail issue task, scope | submit_batch: wait, issue and retire commands; wait_idle |
| command buffer | `hal/local/task_command_buffer.c` | root and leaf tasks, open barrier and open tasks | begin, commands, barriers, end, issue, reset |
| task semaphore | `hal/local/task_semaphore.c` | value, failure, list of timepoints | signal, fail, wait, enqueue_timepoint, multi_wait |
| event pool | `hal/local/event_pool.c` | available events | acquire, release |
| sync semaphore | `hal/local/sync_semaphore.c` | value, failure, one shared notification | signal, fail, wait, multi_signal, multi_wait |
| sync device | `hal/local/sync_device.c` | the semaphores' shared state | queue_submit, wait_semaphores |
| Vulkan timelines | `hal/vulkan/emulated_semaphore.cc`, `serializing_command_queue.cc`, `timepoint_util.cc` | per timeline a value and a list of time points, per queue deferred and pending submissions, pools of fences and time points | Query, Signal, Wait, Fail, Submit, SignalFences, WaitIdle |
| VM register allocation | `compiler/Dialect/VM/Analysis`, `Target/Bytecode/BytecodeEncoder.cpp` | liveness sets, register numbers, branch moves, move bits | recalculate, remapSuccessorRegisters, isLastValueUse, encodeFunction |
| bytecode interpreter | `vm/bytecode_dispatch.c`, `ref.c`, `list.c`, `stack.c`, `invocation.c` | frames with register banks, reference counts, lists, globals, ABI buffers | invoke, enter, leave, calls, branches, every op on references |

The interactions.  A command buffer records a graph of tasks.  A submission to
a task queue wraps it in a wait command (fork one wait task per unreached
semaphore), an issue command (enqueue the recorded graph) and a retire command
(signal semaphores), closed by a fence of the queue's scope.  `submit` pushes
the roots on the executor's incoming lists; whoever holds the coordinator
mutex (a worker that ran out of work, or the caller of flush) moves ready
tasks to worker mailboxes and wakes the workers through their notifications.
Workers execute tasks, decrement the counters of the tasks that wait for them
and resubmit what becomes ready; waits on external events go into a wait set
that one idle worker polls.  The fence ends the scope and wakes `wait_idle`.
Semaphores are signaled by retire commands or by the host.  The synchronous
device runs everything on the calling thread and shares only its semaphores.
Everything uses slim mutexes and notifications.

The Vulkan emulation is a world of its own: a queue holds a batch back until
polling the fences of earlier submissions shows that its waits are satisfied,
and whoever polls passes the fences on to all queues.  The virtual machine is
sequential; its difficulty is that the compiler turns the last use of a
reference into a move, that a branch moves registers one after another, and
that the interpreter must count references exactly through all of it.

## 2. Hard behaviours and the properties that guard them

| part | what is hard | properties |
|---|---|---|
| slim mutex | lock bit and count share a word; the unlocker decides from an old value whether to wake | `MutualExclusion`, `ValueCountsThreads`, `NoLostWakeup`, `SomeoneAcquires` |
| notification | a post between the test and the sleep; wrap-around of the epoch | `NoSleeperLeftBehind`, `FutexAwaitReturns` |
| task graph | counters decremented by several threads; a call that waits for tasks it spawned; memory reuse after the fence | `PendingExact`, `NoTaskForgotten`, `EnqueuedFromNoList`, `ScopeIdleMeansReleased`, `ImplementsTaskOrder`, `AllTasksRetire` |
| dispatch | shards claim tiles one range ahead; edges of the grid; failing tiles | `TileAtMostOnce`, `AllTilesWhenRetired`, `WholeGridOnce` |
| executor | posting races parking; thefts; polling outside the coordinator mutex; exit at any time | `ParkedMeansNoWork`, `TaskInOnePlace`, `MailboxSeen`, `AllTasksRetire`, `WorkersExit` |
| task semaphore | notification after the unlock races deadlines; a pointer list; events that are pooled | `FoundWhenReached`, `OkMeansReachedOrFailed`, `EventsConserved`, `ReachedWaitersReturn` |
| task queue | the tail of the queue points into memory another worker frees; failures half way through a call | `BatchOrder`, `ArenaOutlivesTasks`, `IdleMeansFinished`, `QueuesDrain` |
| command buffer | any mix of commands and barriers, wired up late; discards along several paths | `BarriersRespected`, `NoNeedlessWait`, `ReachesRetire` |
| sync semaphore | lists scanned one mutex at a time, twice; lists rejected half way | `StatusFaithful`, `SignaledWaitsReturn` |
| Vulkan timelines | a value read and written outside its mutex; fences passed on as raw handles after all locks were dropped; batches deferred and started out of order | `StartsAfterWaits`, `ValueWasReached`, `PooledFencesAtRest`, `InfiniteWaitIdleMeansDone` |
| register allocation and interpreter | the order of the moves of a branch and its scratch registers; moves that come one use too early; operands that alias results; calls that fail with frames half built | `OperandsHoldValues`, `RefCountsExact`, `ResultsReturned` |

`PROJECT.json` lists the hazards line by line.

## 3. Modules

Conventions.  One step is one atomic access where memory is shared without a
lock, and one critical section where a mutex protects it.  Definitions whose
comment starts with "Mutant" are deliberately wrong variants of the definition
below them; they are never part of a specification and serve to see that a
property notices such a mistake.  Program counters use the code's step names.

* **SlimMutex** (`SlimMutexProofs`, `MCSlimMutex`): the futex implementation.
  `value` is the word, `local` the copy in `lock`, and `pc` the place of each
  thread; a thread in the kernel's queue is at `asleep`.  `Lock*`, `TryLock*`,
  `Unlock` and `UnlockWake` are the atomic accesses, with 32-bit wrap-around.
  The futex wakes any one sleeper and may wake spuriously.
* **Notification** (`NotificationProofs`, `MCNotification`): epoch and
  waiter count, both builds (`has_futex`), the epoch compared as the code does, with the sign of the
  64-bit load.  Posters first change the condition, then post.
* **TaskOrder**: the abstract promise: a task begins after everything it waits
  for is done, and is done after everything it spawned into itself.
* **TaskGraph** (`TaskGraphProofs`, `MCTaskGraph`): for any graph given by
  `Completion`, `Dependents` and `Spawns`, the life of each task through the
  submission lists, the coordinator and the workers, to its cleanup.  Each
  decrement of a counter is a step of its own (`Notify`), and so is the
  cleanup after it.  `ImplementsTaskOrder` is the refinement: `begun` and
  `done` are computed from the stages of the tasks.
* **DispatchShards** (`DispatchShardsProofs`): the shared claim counter with
  wrap-around, prefetch of the next range, tiles that fail.
* **DispatchSlices**: the nested loops that cut a grid into slices and deal them
  to workers, and the slices that retire the dispatch.
* **Dispatch** (`MCDispatch`): the two composed; a dispatch is issued sharded or
  sliced as its flag says, and either way owes its closure the whole grid.
* **Executor** (`ExecutorProofs`, `MCExecutor`): submission, flush, the
  coordinator with its post batch, worker loop, thefts, wait list, wait
  set and the two mutexes.  What the end of a task makes ready is a constant
  (`Follow`); the counters behind it are TaskGraph's.  Parking is the contract that Notification establishes.
* **TaskSemaphore** (`MCTaskSemaphore`): one timeline semaphore and the event
  pool; the doubly linked timepoint list pointer by pointer, because what goes
  wrong with it is a matter of single links.  `taken`, `torn` and `raced` remember
  which timepoints a signaler has yet to notify, that an erase left a stale link,
  and that a
  deadline passed between a signaler's unlock and its notification; the
  properties that exclude the last two say so.
* **TaskQueue** (`TaskQueueMoves`, `TaskQueueProofs`, `MCTaskQueue`): host
  threads submit batches to queues.  Tasks are the wait, issue and retire
  commands, the commands, the timepoint waits and the fence of each batch, with
  the same counters as in TaskGraph; the
  executor is "any ready task may run".  A call submits one batch or, where a
  batch is in `Continued`, goes on with the next, and flushes after its last.
  Allocation may fail for the retire command, for the fence (whose null pointer is
  used: `crashed`) and for the commands after it; the rest of the call is then
  skipped and what it submitted is `unflushed` until another call flushes.
  `chained`, `faulted` remember that a batch found an issue in flight or that an
  event could not be acquired.
* **CommandBuffer** (`CommandBufferProofs`): recording as functions from buffer
  to buffer (`Flush`, `GlobalBarrier`, `ExecutionTask`, `EndOf`, `Issued`),
  execution of the issued graph reduced to one step per task, and the discard
  loop with its worklist.  A task that has run is in `ran`, and in `done` once it
  has retired: a call that finds its own counter above zero does not retire but
  waits for the tasks it seems to have spawned (`Retires`), a dispatch without
  workgroups (`empty`) and a barrier retire whatever the counter says.
* **SyncSemaphore** (`MCSyncSemaphore`): threads run programs of calls against
  several semaphores with one notification.  A mutex that is unlocked once
  too often has a negative count and can never be locked again, which is what
  the slim mutex's word does then.
* **VulkanTimeline** (`MCVulkanTimeline`): host threads call the timelines and
  queues (`th[t].pc` is the place in the call, one step per mutex acquired and
  per access to `signaled_value_`), the device completes or loses what was
  submitted, fences and time points go through their pools.  The device
  (`gpu`, `fence`) is external: a fence signals when all earlier submissions of
  its queue are complete.  `errored` says which batches were dropped with an error
  and the call's `owed` which a thread in WaitIdle found submitted when it began.
* **VMRegisters**: pure functions.  `LivenessSets`, `Recalculate` (allocation in
  dominance order), `FeedbackArcSet` with its buckets and topological order,
  `RemapSuccessorRegisters` (cycles through scratch registers), `IsMove` and
  `EncodeFunction`, each the algorithm of the code on functions given as blocks
  of ops.
* **VMBytecode** (`MCVMBytecode`): the interpreter on what `EncodeFunction`
  made.  Frames carry `env`, the values the source program gives its SSA
  values, so that `OperandsHoldValues` compares compiler and interpreter with
  the source semantics at every op.

How they fit together: SlimMutex justifies taking a critical section as one
step everywhere else; Notification justifies parking in Executor and sleeping
in SyncSemaphore; TaskGraph implements TaskOrder and is what Executor, TaskQueue
and CommandBuffer assume about counters; CommandBuffer's graphs are the
`Commands` of a TaskQueue batch; TaskSemaphore provides TaskQueue's timepoints.
VMBytecode runs the code VMRegisters compiles.

## 4. Runs

`tlc -config X.cfg M` in this directory; `PROJECT.json` lists module, properties
and, for each property, a wrong variant of the code under which it fails.

| run | configuration | what it shows |
|---|---|---|
| slim_mutex | `MCSlimMutex`, `SlimMutex.cfg` | three threads: exclusion, an exact word, a wake for every sleeper that needs one, and that somebody always gets the mutex |
| notification | `MCNotification`, `Notification.cfg` | both builds: on the futex build nobody stays asleep whose post has passed, and `await` returns once its condition holds |
| task_graph | `MCTaskGraph`, `TaskGraph.cfg` | a submission with every task type: exact counters, no forgotten, early or doubled task, idle only after release, refinement of TaskOrder, everything retires |
| dispatch | `MCDispatch`, `Dispatch.cfg` | two shards on a 4x2x1 grid, and 23 grids cut into slices, with failing tiles: no tile twice, none missed when the dispatch retires, and the closures see each workgroup id of the grid once (for slices: of grids without a remainder) |
| executor | `MCExecutor`, `Executor.cfg` | two workers, a caller, calls and a wait, exit at any time: no lost or doubled task, nobody parks on work, a mailbox that is not empty has somebody on the way to it, everything retires, workers exit |
| task_semaphore | `MCTaskSemaphore`, `TaskSemaphore.cfg` | a blocking waiter, a queue's timepoint, two signalers, failure, deadlines, a pool of one event |
| task_queue | `MCTaskQueue`, `TaskQueue.cfg` | three batches on two queues that depend on each other through semaphores, two of them submitted in one call, with allocation failures: commands follow waits, signals follow commands, memory is dropped last, idle means finished, and the queues drain unless a batch was chained, starves for one that was refused, or a failed call left a fence, no fence or no flush |
| sync_semaphore | `MCSyncSemaphore`, `SyncSemaphore.cfg` | three threads, three semaphores: statuses match what happened, and waits that may return do |
| command_buffer | `CommandBuffer`, `CommandBuffer.cfg` | every recording of up to seven commands, empty dispatches and barriers: barriers order exactly what they should, the submission retires unless a command follows a barrier at the start |
| vulkan_timeline | `MCVulkanTimeline`, `VulkanTimeline.cfg` | three batches on two queues, two host threads, a device that may be lost: batches start after their waits, the value of a timeline is never ahead, fences are not recycled under the device, a WaitIdle without deadline returns after everything submitted before it |
| vm_bytecode | `MCVMBytecode`, `VMBytecode.cfg` | thousands of small functions, compiled and run twice: operands hold the source program's values, references are counted exactly, results arrive |
| vulkan_self_deadlock | `MCVulkanTimeline`, `VulkanTimeline_self_deadlock.cfg` | violation, section 8 |

Some properties carry a condition that keeps known disagreements (section 8)
apart from what holds: `chained = {}`, `Starved`, `FenceLost`, `crashed` and
`unflushed` in TaskQueue, `BehindFirstBarrier` in CommandBuffer, `Sound` in
TaskSemaphore (neither `torn` nor `raced`), `Blocked` in SyncSemaphore,
`NoRemainder` in `WholeGridOnce`,
`FencesKept` in VulkanTimeline (every batch signals something and none was
aborted), `FutexAwaitReturns` instead of `AwaitReturns`.  Executor's instance
has its wait readied by a worker, not submitted from outside, and `MCSpec` of
MCVMBytecode leaves out functions in which the result of a `select.ref`,
`switch.ref` or `list.get.ref` got the register of an operand (`Overlaps`) and
has no function whose scratch registers exceed a full bank.  The
unconditional forms are defined beside them, and section 8 says how to refute
them.

Every state machine also defines `TypeOK` (Dispatch has those of its two
components), and some an auxiliary invariant (`WaiterCountExact`,
`WaitSetInSync`, `WorklistDistinct`, `QueuedMeansReady`, `NeverHalts`).
They hold on the instances above; add `INVARIANT TypeOK` to a configuration to
see it.

## 5. Bounds

* Three threads on the slim mutex give a holder, a sleeper and a thread between
  its load and its compare-exchange.  `LockBit = 4` is the least power of two
  above the number of threads, so the count comes as close to the lock bit as it
  can; the proof covers 2^31.
* Two waiters and two posters, three posts: a post for each waiter and one that
  overtakes.  `EpochMod = 8` keeps these epochs below the sign bit;
  `Notification_epoch_sign.cfg` crosses it.
* Task graph: eleven tasks of all types, with a fork, a join, a nested dispatch
  and two workers beside the coordinator; larger graphs are covered by proof.
* Shards: eight tiles in ranges of three leave a short last range and claims
  past the end.  `WordMod = 17` is the least that the assumption allows.
* Slices: grids of 0 to 4 by 1 to 4 and three with depth against 2 by 2 slices:
  empty, smaller than a slice, exact, with remainder.
* Executor: two workers suffice for a thief and a victim, a poller and a
  coordinator.  One caller may hold the coordinator mutex at the same time.
* Task semaphore: values up to 3 and two waits per waiter, so that a wait follows
  one that was taken or timed out and finds the list it left; a pool of one event
  with two in existence exercises its full and its empty end.
* Task queue: `q1` gets two batches in one call, so an issue can be found in
  flight and the call can fail at its first or at its second batch; the second
  waits for two semaphores, one signaled by the host.  `q2` belongs to another
  thread, whose flush may come before or after the failure.
* Sync semaphore: the two lists that both raise `s3` make the later one fail
  after its first signal; ALL, ANY, single waits and polls occur.
* Command buffer: `MaxTasks = 7` allows three barriers with commands between
  them, and barriers at the start, the end and in a row; the proof covers
  every length.
* Vulkan timelines: `x` gets its points out of order, `y` chains one batch behind
  another; three fences and three time points are as many as there are batches,
  so pools run empty; five host calls.  Fences and threads are symmetric.
* VM: two objects and the lists the program allocates; frames three deep, so that
  recursion exhausts the stack; eight registers, so that rounding and masking
  matter; loops of two to four arguments with every map from arguments to
  arguments, and for permutations of four every iteration order of the hash map;
  loops with two swaps or none that are left through every permutation, so that
  one function has branches with different numbers of scratch registers.
  Each module is invoked twice, so what the first call leaves behind is seen.

Counters that grow without bound in the code (epochs, posts, values, waits) are
bounded by these constants in guards.  Deadlock checking is off where the
system really may stop: all programs have been run, the workers have exited, a
lost timepoint or a mutex unlocked twice leaves threads blocked.

## 6. Fairness

Threads that can run do: weak fairness of each thread's own steps (SlimMutex,
Notification, TaskSemaphore, Executor, SyncSemaphore), of each enqueued task
(CommandBuffer), or of the whole next-state relation where every behaviour is
finite (TaskGraph, TaskQueue), which says only that the system does not stop
while it can go on.  Holders of a slim mutex unlock it; nobody is obliged to
start locking.  Strong fairness is assumed only for mutexes that are free again
and again: the condition variable's mutex in Notification, the coordinator mutex
in Executor (workers lock it again on every round, and the slim mutex by itself
does not prevent starvation; the operating system's scheduler does).  The slim
mutex's own liveness (`SomeoneAcquires`) is stated without strong fairness and
promises progress of someone only.  Spurious wakes happen but are never needed.
External handles are assumed to be signaled only in `ExternalFairSpec`; nothing
makes host threads signal, fail or time out in TaskSemaphore.  No liveness is
stated for VulkanTimeline, where progress depends on hosts that poll and on the
device, nor for VMBytecode, whose programs may loop.

## 7. Proofs

`tlapm M.tla` checks them; the theorems hold for all constants that satisfy the
named assumptions.

* **SlimMutexProofs**, assuming finitely many threads, fewer than the lock bit
  (`ThreadsFinite`, `LockBitRange`).  The inductive invariant is `TypeOK`,
  `MutualExclusion`, `ValueCountsThreads` and `NoLostWakeup` together.  None is
  inductive alone: a thread that acquires knows only the word, so the word must
  say whether there is a holder and how many threads are interested.
  Theorems: `MutualExclusionHolds`, `ValueCountsThreadsHolds`,
  `NoLostWakeupHolds`, `TypeCorrect`.
* **NotificationProofs**, assuming finitely many threads (`ThreadsFinite`).
  `NoSleeperLeftBehind` is not inductive: a post skips the wake when the waiter
  count it reads is zero, so the count must cover every sleeper.
  `WaiterCountExact` says that, and `Labels` that no thread of the futex build
  waits on the condition variable.  Theorems: `WaiterCountExactHolds` (both
  builds), `NoSleeperLeftBehindHolds`.
* **CommandBufferProofs**, for every `MaxTasks`.  The sequence of recorded kinds
  says what each task should directly follow (`Preds`): a command the last
  barrier, a barrier or the retire command the layer before it.  While
  recording, links and counters agree with `Preds` except for the open tasks
  (`Recording`, lemmas `CommandRecorded`, `BarrierRecorded`); `end` and `issue`
  complete them (`Executable`, `RecordingEnds`, `IssueStarts`).  While it runs, a
  counter is the number of direct predecessors that have not retired, and every
  enqueued task either has had them all or is a root, whose only predecessor is
  a leading barrier that is never enqueued (`Running`, `InTurn`,
  `ExecuteKeeps`).  `EarlierDone` lifts direct predecessors to all commands on
  the other side of a barrier.  What matters for a counter is whether a task has
  retired, so the invariant is about the tasks that are enqueued or have run
  without retiring (`Unretired`, lemmas `StepRetires` and `StepStays`).
  Conversely, a task that is neither enqueued nor has run has a predecessor that
  has not retired (`Waiting`, part of `Complete`); the first barrier that has not
  retired would itself have to wait for something before it, so once no barrier is
  enqueued nothing holds back a command whose predecessors have retired.  Without a
  command behind a leading barrier every enqueued task finds its counter at zero
  and retires (`EnqueuedRetires`, `AllRetireStep`), so an empty queue means that
  nothing waits (`NothingWaits`).  Theorems: `BarriersRespectedHolds`,
  `NoNeedlessWaitHolds`, `NeverHaltsHolds`, the safety half of `ReachesRetire`.
* **TaskGraphProofs**, assuming a finite graph built as the callers build it
  (`GraphAssumption`, `SpawnAssumption`) and distinct threads
  (`ProcsAssumption`).  `PendingExact` says that a counter is the number of
  edges into the task that were built and not delivered.  It is made inductive
  by what a task's stage says about its outgoing edges (`CompletionDelivered`,
  `BarrierDelivered`), about what it has yet to spawn (`ParentWillSpawn`,
  `SpawnsInHand`, `ActiveWaitsForSpawns`), by the types each stage can hold
  (`StageTypes`) and by the exact count of the scope (`ScopeExact`).
  Theorems: `TypeCorrect`, `PendingExactHolds`, `NoTaskForgottenHolds`,
  `QueuedMeansReadyHolds`, the action property `EnqueuedFromNoListHolds`, and
  `TaskOrderImplemented`: TaskGraph refines TaskOrder.  On top of the invariant,
  `FencesFollowHolds` follows the paths into a fence: once the coordinator has
  started it, everything that leads to it has executed and notified.  From it,
  `ScopeIdleMeansReleasedHolds`, for graphs in which every task leads to a fence
  (the theorem's hypothesis; a queue's submissions are built that way).
* **ExecutorProofs**, assuming finitely many workers and waits and that a task
  is submitted by one user or made ready by one task (`ExecutorAssumption`,
  `OriginAssumption`).  The invariant says of every task in which list it is
  (`OnePlace`), of every label which lists of the coordinator and of a worker are
  empty there (`CoordinatorLists`, `RunsInExecute`, `StealsWithEmptyQueue`), and
  of every list that is not empty who is on the way to look at it
  (`IncomingSeen`, `MailboxSeen`, `ProducedSeen`, `WakesPending`): a task handed
  over is in the same step gone from where it was, and a worker can park only
  past an empty mailbox or a posted wake-up.  Theorems: `TaskInOnePlaceHolds`,
  `MailboxSeenHolds` (an occupied mailbox belongs to a worker that will look),
  `WaitSetInSyncHolds`, `ParkedLeavesOnlyWaitsHolds` (when all workers are parked
  only waits are left) and from it `ParkedMeansNoWorkHolds` for tasks without
  external waits.  With them `ParkedMeansNoWork` depends on the graph: a wait
  flushed from outside may find every worker parked (§8, `Executor_unserved_wait`),
  which the checked instance excludes.
* **TaskQueueMoves** and **TaskQueueProofs**, assuming finitely many batches with
  finitely many waits and commands, each submitted by one call, alone or with
  others (`QueueAssumption`); queues, host threads and semaphores are arbitrary.  A task's
  count covers the tasks that complete into it and may exceed them, because
  chaining takes a link from a retire command and not from its count (`Counted`,
  `Linked`).  Around that the invariant follows a batch: what is built together
  (`Built`), that the issue command is idle while a wait is at work
  (`WaitPhase`), that a wait without a timepoint was reached or could not be
  waited for (`Waited`), that commands exist only once the waits are over
  (`Issued`), that a retire command is enqueued after all commands or has lost a
  count for ever (`Gate`), and what the fence, the scope, the arena and the tail
  of the queue follow (`FenceLast`, `ScopeExact`, `FreedLast`, `TailInFlight`).
  `InCall` and `Fresh` say that nobody else knows of a batch before it is
  chained, and `Apart` what holds as long as nothing was chained, the case
  `ArenaOutlivesTasks` and `IdleMeansFinished` are about.  The facts about finite
  sets that the steps need are conjuncts too (`Counting`, `Maxima`): they mention
  no variable, are proved once, and keep the library of finite sets out of the
  lemmas of the actions, where it slows every obligation.  Theorems:
  `InvariantHolds`, `BatchOrderHolds`, `ArenaOutlivesTasksHolds`,
  `IdleMeansFinishedHolds`.
* **DispatchShardsProofs**, assuming positive sizes (`GridAssumption`) and that
  the counter has room for one claim past the grid per shard
  (`NoWrapAssumption`).  The invariant says that the claimed ranges are
  disjoint (`Disjoint`), that a tile has run once exactly if it was claimed and
  is no longer owed by a shard (`RunsExact`), and bounds the counter by the
  number of shards that have overrun (`Bounded`).  Theorems: `TypeCorrect`,
  `TileAtMostOnceHolds`, `AllTilesWhenRetiredHolds`.

Only model-checked:

* all liveness (fairness and ENABLED are beyond the prover);
* `WholeGridOnce` of Dispatch: the index of a tile is a product of coordinates,
  and the arithmetic is not linear;
* `ParkedMeansNoWork` of Executor with external waits: it holds of the checked
  graphs and not of all;
* TaskSemaphore: its list is followed pointer by pointer, and what it holds is an
  induction over the links;
* `StatusFaithful` of SyncSemaphore and the invariants of VulkanTimeline, whose
  inductive invariants have not been worked out;
* VMRegisters and VMBytecode: what their recursive operators compute is an
  induction over data, and the prover does not read modules that declare them.

## 8. Where code and comments disagree

Each line is a statement of the repository's own comments, asserts or documents
that TLC refutes with a short behaviour of the code.  The first is a run of the
list.  The others are found with the named configuration, or with a recipe: a
configuration, the constants to change in it, and the property to check alone
(under INVARIANT if it is a state predicate).
Recipes use `SPECIFICATION Spec` unless they name another (Dispatch: `DispatchSpec`) and
`CHECK_DEADLOCK FALSE`.

| how | property | the code | the statement |
|---|---|---|---|
| `VulkanTimeline_self_deadlock` | `NoSelfDeadlock` | `hal/vulkan/emulated_semaphore.cc:357` SignalFences locks the queue's mutex, also when Query was called by a queue that holds it | :352 "to avoid potential mutex deadlock, given here we are not holding a mutex anymore" |
| recipe V1 | `WaitOkMeansReached` | `emulated_semaphore.cc:254` a wait for a fence that timed out counts as success | `hal/semaphore.h:107` "has met or exceeded the required payload value" |
| recipe V2 | `FreeFencesAtRest` | `hal/vulkan/serializing_command_queue.cc:421` a late SignalFences drops the reference of the submission that has the fence by then | `timepoint_util.h` "guaranteed to be in unsignaled state and not in-flight on GPU" |
| recipe V1 | `PointsConserved` | `hal/vulkan/util/intrusive_list.h:434` merging an empty list clears the tail, and what is merged next is not linked | `timepoint_util.cc:185` checks that every semaphore came back |
| recipe V1 | `InsertionEnds` | `emulated_semaphore.cc:324` the search for the place of a new time point does not move on from a point with a smaller value and never ends, with the mutexes of the timeline and the queue held | `emulated_semaphore.cc:83` "Gets a binary semaphore for signaling the timeline to the given" value |
| recipe V1 | `WaitIdleMeansDone` | `serializing_command_queue.cc:421` a late SignalFences takes the fence of a new submission off the pending ones, and a WaitIdle with a deadline returns OK while it runs | `hal/device.h:229` "Blocks the caller until all outstanding requests on all queues have been completed" |
| `VulkanTimeline` | `ValueAscends` | `emulated_semaphore.cc:371,472` a value computed before is stored over a larger one, a failure's UINT64_MAX included | `hal/semaphore.h:36` "monotonically increasing" |
| `TaskSemaphore_lost_timepoint` | `ReachedMeansSignaled` | `hal/local/task_semaphore.c:89` erase leaves the next timepoint's `prev`; after two were taken the list has a stale tail and an appended timepoint is never found | :31 "the given event will be signaled" |
| `TaskSemaphore_failure` | `OkMeansReached` | `task_semaphore.c:416` a wait woken by a failure returns OK | `hal/semaphore.h:107,114` |
| recipe S | `OkMeansReached` | `task_semaphore.c:129` an event is set after its wait timed out and gave it back | `hal/semaphore.h:107` |
| `TaskQueue_chain` | `EveryBatchRetires` | `hal/local/task_queue.c:484` replaces the completion task of the issue in flight, whose retire command then waits for ever | :53 "After all commands within the batch complete the submission is retired" |
| `TaskQueue` | `IssuedAfterAllWaits` | `task_queue.c:134` an event that cannot be acquired ends the wait command and its error is ignored | :468 "only issue command buffers after all waits have completed" |
| `TaskQueue` | `FinishedMeansIdle` | `task_queue.c:460` a submission that fails after its fence was acquired never ends in the scope, and wait_idle waits for ever | `task/scope.h:139` "Returns true if the scope has no pending or in-flight tasks" |
| `SyncSemaphore` | `UnlockedOnlyWhenHeld` | `hal/local/sync_semaphore.c:140` a rejected signal unlocks the mutex, and so do its callers | `base/internal/synchronization.h:271` "must be held by the caller" |
| `SyncSemaphore_failure` | `FailureEndsWaits` | `sync_semaphore.c:321` the first unreached semaphore hides a failed one | :309 "(or any failed)" |
| `CommandBuffer`, `MaxTasks = 3` | `RootsReady` | `hal/local/task_command_buffer.c:217` tasks behind a leading barrier become roots although they count it | `task/submission.c:52` assert "must be a root task to be enqueued on a submission" |
| `CommandBuffer`, `MaxTasks = 2`, `FairSpec` | `EveryBufferRetires` | `task_command_buffer.c:217`, `task/task.c:169` a command behind a leading barrier runs with the barrier still in its counter, takes itself for a call that waits for what it spawned, and never retires (with asserts, the row above stops it first) | `task_queue.c:53` "After all commands within the batch complete the submission is retired" |
| `CommandBuffer`, `MaxTasks = 5` | `DiscardedOnce` | `task_command_buffer.c:159` leaves are discarded, then reached again from the roots | `task/task.c:111` "task is invalidated here and cannot be used!" |
| `Executor_ready_call` | `ReadyCallsRun` | `task/executor.c:486` a worker blocked on handles does not see its mailbox | `task/executor.h:41` |
| `Executor_unserved_wait` | `AllTasksRetire` | `executor.c:601` a flush from outside adds a wait and wakes no worker to poll it | `executor.h:41` |
| recipe E1 | `WaitSetGuarded` | `executor.c:501` erases from the wait set without the wait mutex | :370 "The wait lock must be held" |
| recipe E2 | `WaitsWakeWhenSignaled` | `executor.c:495` a handle is used after both mutexes were released and may be in use again | `task/task.h:55` |
| `Executor_blocked_coordinator` | `CoordinatorNotHeldDuringWait` | `executor.c:344` waits for the wait mutex with the coordinator mutex held | :463 "We can't hold the coordinator lock during the wait" |
| recipe G | `ScopeIdleMeansRetired` | `task/task.c:124` completion is notified before the task's own cleanup | `task/scope.h:82` "all memory used by all tasks ... is available for reuse" |
| `TaskGraph_tile_failure` | `ScopeBecomesIdle` | `task.c:842` a shard whose tile fails never retires | `scope.h:87` "completes all pending tasks after a failure" |
| `Dispatch` | `SlicesCoverGrid` | `task.c:443` slices are counted rounding down | :439 "Divide up all tiles into slices" |
| `Notification_condvar_liveness` | `AwaitReturns` | `base/internal/synchronization.c:628` the epoch is tested before the mutex is locked, and not again | `synchronization.h:361` |
| `Notification_epoch_sign` | `CommitWaitsForPost` | `synchronization.c:618` an epoch of 2^31 or more is sign-extended and never equals its token | `synchronization.h:337` |
| `VMBytecode_select` | `ResultsReturned` | `vm/bytecode_dispatch.c:1235` the result of `select.ref` may have the register of the operand that is not chosen, which is then released | `compiler/Dialect/VM/IR/VMOps.td:1649` "the `true_value` operand is chosen" |
| recipe B, `SwitchLastUse` | `RefCountsExact` | `compiler/Dialect/VM/Target/Bytecode/BytecodeEncoder.cpp:215` numbers the values of `switch.ref` from 0 again, so the last use of one is encoded as a retain, into its own register | the count is the number of holders |
| recipe B, `ListGetLastUse` | `RefCountsExact` | `bytecode_dispatch.c:1170` `list.get.ref` whose result has the register of the list in its last use | the same |
| recipe B, `ReturnTwice` | `ResultsReturned` | `bytecode_dispatch.c:237` `return %a, %a` moves the first and returns null as the second | the source program returns it twice |
| recipe B, `NoResults` | `RefCountsExact` | `vm/module.c:181` a call without results does not release its arguments | the same |
| recipe B, `ScratchPastBank` | `OperandsHoldValues` | `compiler/Dialect/VM/Analysis/RegisterAllocation.cpp:560` each branch overwrites the count of scratch registers, so a later branch that needs fewer shrinks the bank, and `vm/bytecode_dispatch.c:78` masks the last scratch register to register 0 | `RegisterAllocation.cpp:535` "The tail registers in each bank is reserved for swapping" |

* V1: `VulkanTimeline` with `HostFails = {}`, `DeviceFails = FALSE`.
* V2: V1 with `BatchWaits <- MCNoWaits`, `BatchSignals <- MCSilentSignals`.
* S: `TaskSemaphore` with `QueueWaiters = {}`, `Signalers = {s1}`, `MaxWaits = 2`,
  `MayFail = FALSE`.
* E1: `Executor` with `Users = {u1, u2}`, `Submits <- WaitSubmits`,
  `MayExit = FALSE`.
* E2: `Executor` with `Users = {u1, u2}`, `Waits = {t1, t2}`,
  `Follow <- ReuseFollow`, `Submits <- ReuseSubmits`, `After <- ReuseAfter`,
  `Pooled = {h1}`, `MayExit = FALSE`.
* G: `TaskGraph` with `Tasks`, `Type`, `Completion`, `Dependents` and `Spawns`
  replaced by `ForkTasks`, `ForkType` and so on.
* B: `VMBytecode_select` with the named set for `Modules`.

## 9. Abstractions, and what is not modelled

* Memory is sequentially consistent.  The code's orderings are acquire/release
  around the accesses that the models take as steps; weaker behaviours are out.
* Payloads (what a closure computes, push constants, buffer contents) are left
  out: a closure runs, spawns, signals or fails.
* SyncSemaphore takes a critical section as one step.  A second unlock that hits
  another holder's critical section leaves the same broken word as one that
  finds the mutex free, so nothing is hidden by that.
* CommandBuffer is the build with asserts compiled out; `RootsReady` is the
  assert that would stop a recording with a leading barrier, and
  `EveryBufferRetires` what happens without it.
* TaskQueue lets a task that was not flushed run or not: `unflushed` marks that
  nothing promises it.  The write through the null pointer of a missing fence is
  taken to end the process.  Command buffers are independent commands; their
  barriers are
  CommandBuffer's.  Its semaphores are values, their timepoint lists are
  TaskSemaphore's.
* VulkanTimeline takes what happens under a timeline's mutex as one step, and the
  device as external: it completes submissions of a queue in order, or fails.
* VMRegisters and VMBytecode know references and 4-byte integers.  The truth of a
  condition and the index of a switch are free choices, all i32 arithmetic is one
  op, and an import is a native function.  Left out: i64, f32 and f64 values,
  buffers, the other list ops, yields, variadic imports, imports that are bytecode
  modules, and the byte layout.
* Not modelled: task pools, list splitting and the queue's steal arithmetic; the
  wait set itself (duplicates, wait_all); executor creation, suspended start of
  workers and destruction; `iree_hal_task_semaphore_multi_wait`; failing signals
  in the retire command; `iree_task_scope_fail` and `abort`, which nothing in the
  task system calls; threads, topology, arenas and status objects (sequential
  helpers); the inline command buffer (sequential); executable loaders; the GPU
  drivers apart from the timeline emulation (external queues); module loading and
  import resolution of the virtual machine (sequential set-up); the rest of the
  compiler (rewriting of an IR whose semantics lives outside the repository).
  `PROJECT.json` gives the reason for each.

## 10. Plan

Order of work: primitives first, then the task graph (the heart of the system),
dispatch, executor, the devices on top, the proofs about notification and command
buffer, the Vulkan emulation and the virtual machine.  These are done.  Next,
most important first:

1. Prove `StatusFaithful` of SyncSemaphore and `EventsConserved` of
   TaskSemaphore.
2. Task pools (`pool.c`, growth in the middle of acquire_many), list splitting
   and stealing, as pure operators against a reference definition.
3. Wait sets with duplicate handles and wait_all, under Executor's contract.
4. Startup and shutdown of the executor: suspended workers, the masks of
   `post_batch.c`, destruction while tasks are pending.
5. `multi_wait` of the task semaphore and failures in the retire command.
6. Compose TaskQueue with TaskSemaphore's timepoints in one instance.
7. i64 values in VMRegisters (two registers each), and calls between bytecode
   modules in VMBytecode.
