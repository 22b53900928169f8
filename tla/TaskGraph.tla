------------------------------ MODULE TaskGraph ------------------------------
(***************************************************************************)
(* The life of tasks (iree/task/task.c, submission.c, scope.c and the      *)
(* scheduling switch of executor.c): how dependency counters, nested       *)
(* tasks, barriers, waits, dispatches and fences move a graph of tasks     *)
(* from submission to cleanup while the workers and the thread that holds  *)
(* the coordinator lock run in parallel.  The order of the lists is not    *)
(* modelled: any task of a list may be taken next.                         *)
(***************************************************************************)
EXTENDS Integers, Sequences, FiniteSets

CONSTANTS
    Tasks, NoTask,
    Workers,        \* worker threads
    Coordinator,    \* whichever thread holds executor->coordinator_mutex
    User,           \* the thread that builds and submits the graph
    NoProc,
    Type,           \* task->type
    Completion,     \* task->completion_task
    Dependents,     \* barrier->dependent_tasks
    Spawns,         \* shards of a dispatch, tasks a call closure enqueues
    TileFails       \* shards with a tile that returns an error

Procs == Workers \cup {Coordinator, User}
Types == {"NOP", "CALL", "BARRIER", "FENCE", "WAIT", "DISPATCH", "SHARD"}
Spawned == UNION {Spawns[t] : t \in Tasks}

\* An edge <<from, i, to>> is one future decrement of to's dependency count:
\* i = 0 is the completion task of `from`, i > 0 the i-th barrier dependent.
CompletionEdge(t) == <<t, 0, Completion[t]>>
CompletionEdges == {CompletionEdge(t) : t \in {u \in Tasks : Completion[u] # NoTask}}
BarrierEdge(b, i) == <<b, i, Dependents[b][i]>>
BarrierEdges(b) == {BarrierEdge(b, i) : i \in DOMAIN Dependents[b]}
Edges == CompletionEdges \cup UNION {BarrierEdges(b) : b \in Tasks}

ASSUME ProcsAssumption ==
    /\ Coordinator # User
    /\ Workers \cap {Coordinator, User} = {}
    /\ NoProc \notin Procs

ASSUME GraphAssumption ==
    /\ IsFiniteSet(Tasks)
    /\ NoTask \notin Tasks
    /\ Type \in [Tasks -> Types]
    /\ Completion \in [Tasks -> Tasks \cup {NoTask}]
    /\ Dependents \in [Tasks -> Seq(Tasks)]
    /\ Spawns \in [Tasks -> SUBSET Tasks]
    /\ TileFails \subseteq {t \in Tasks : Type[t] = "SHARD"}
    /\ IsFiniteSet(Edges)
    /\ \A e \in Edges : e[1] # e[3]

\* How the callers build graphs: only barriers have dependents, only calls and
\* dispatches spawn, each task is spawned once and starts as a root, what a call
\* spawns completes into the call itself or into the call's completion task, and
\* a call that is spawned spawns nothing itself.
ASSUME SpawnAssumption ==
    \A t \in Tasks :
        /\ Dependents[t] # <<>> => Type[t] = "BARRIER"
        /\ Spawns[t] # {} => Type[t] \in {"CALL", "DISPATCH"}
        /\ Type[t] = "SHARD" => t \in Spawned
        /\ \A s \in Spawns[t] :
              /\ s # t
              /\ Completion[s] \in {t, Completion[t]}
              /\ \A u \in Tasks : s \in Spawns[u] => u = t
              /\ \A e \in Edges : e[3] = s => e[1] \in Spawns[s]
              /\ Type[t] = "DISPATCH" => Type[s] = "SHARD" /\ Completion[s] = t
              /\ Type[t] = "CALL" => /\ Type[s] \in {"NOP", "CALL", "WAIT", "DISPATCH"}
                                     /\ Type[s] = "CALL" => Spawns[s] = {}

VARIABLES
    pending,    \* task->pending_dependency_count
    where,      \* which list or stage of its life each task is in
    holder,     \* the thread that has the task in hand
    issued,     \* dispatches with DISPATCH_RETIRE, calls whose closure ran
    resolved,   \* waits with WAIT_COMPLETED
    signaled,   \* waits whose external wait handle is set
    delivered,  \* edges whose decrement has happened
    scope       \* scope->pending_submissions

vars == <<pending, where, holder, issued, resolved, signaled, delivered, scope>>

Stages == {"absent", "idle", "local", "incoming", "waiting", "batch", "posted",
           "active", "retiring", "released", "retired", "abandoned"}

EdgesInto(t) == {e \in Edges : e[3] = t}

-----------------------------------------------------------------------------
\* Every task that is not spawned later is built, every fence has begun its
\* submission in the scope, and the roots are in the user's submission.
Init ==
    /\ pending = [t \in Tasks |->
                    Cardinality({e \in EdgesInto(t) : e[1] \notin Spawned})]
    /\ where = [t \in Tasks |-> IF t \in Spawned THEN "absent"
                                ELSE IF pending[t] = 0 THEN "local" ELSE "idle"]
    /\ holder = [t \in Tasks |-> IF where[t] = "local" THEN User ELSE NoProc]
    /\ issued = {}
    /\ resolved = {}
    /\ signaled = {}
    /\ delivered = {}
    /\ scope = Cardinality({t \in Tasks : Type[t] = "FENCE"})

\* A thread handles one task at a time.
Busy(p) == \E t \in Tasks : /\ holder[t] = p
                            /\ where[t] \in {"active", "retiring", "released"}

Place(t, stage, p) ==
    /\ where' = [where EXCEPT ![t] = stage]
    /\ holder' = [holder EXCEPT ![t] = p]

\* Mutant: the value before the decrement is compared with zero.
NotifyComparesZero(p, e, stage) ==
    /\ delivered' = delivered \cup {e}
    /\ pending' = [pending EXCEPT ![e[3]] = @ - 1]
    /\ IF pending[e[3]] = 0
       THEN /\ where' = [where EXCEPT ![e[1]] = stage, ![e[3]] = "local"]
            /\ holder' = [holder EXCEPT ![e[3]] = p]
       ELSE where' = [where EXCEPT ![e[1]] = stage] /\ UNCHANGED holder

\* The atomic decrement of e's target by thread p, which also moves `from` to
\* `stage`; the thread that takes the count to zero enqueues the target.
Notify(p, e, stage) ==
    /\ delivered' = delivered \cup {e}
    /\ pending' = [pending EXCEPT ![e[3]] = @ - 1]
    /\ IF pending[e[3]] = 1
       THEN /\ where' = [where EXCEPT ![e[1]] = stage, ![e[3]] = "local"]
            /\ holder' = [holder EXCEPT ![e[3]] = p]
       ELSE where' = [where EXCEPT ![e[1]] = stage] /\ UNCHANGED holder

-----------------------------------------------------------------------------
\* Mutant: what a closure enqueues is submitted before the closure returns.
MergeSubmissionWhileBusy(p) ==
    LET mine == {t \in Tasks : where[t] = "local" /\ holder[t] = p} IN
    /\ p # Coordinator
    /\ mine # {}
    /\ where' = [t \in Tasks |-> IF t \in mine THEN "incoming" ELSE where[t]]
    /\ holder' = [t \in Tasks |-> IF t \in mine THEN NoProc ELSE holder[t]]
    /\ UNCHANGED <<pending, issued, resolved, signaled, delivered, scope>>

\* iree_task_executor_merge_submission: a thread that has nothing in hand moves
\* its submission to the executor's incoming lists.
MergeSubmission(p) ==
    LET mine == {t \in Tasks : where[t] = "local" /\ holder[t] = p} IN
    /\ p # Coordinator
    /\ ~Busy(p)
    /\ mine # {}
    /\ where' = [t \in Tasks |-> IF t \in mine THEN "incoming" ELSE where[t]]
    /\ holder' = [t \in Tasks |-> IF t \in mine THEN NoProc ELSE holder[t]]
    /\ UNCHANGED <<pending, issued, resolved, signaled, delivered, scope>>

\* The coordinator pops a ready or waiting task of its pending submission.
Pops(t, types) ==
    /\ ~Busy(Coordinator)
    /\ Type[t] \in types
    /\ where[t] = "incoming" \/ (where[t] = "local" /\ holder[t] = Coordinator)

\* CALL: relay the task to a worker through the post batch.
RelayToWorker(t) ==
    /\ Pops(t, {"CALL"})
    /\ Place(t, "batch", NoProc)
    /\ UNCHANGED <<pending, issued, resolved, signaled, delivered, scope>>

\* NOP: nothing to execute.
ScheduleNop(t) ==
    /\ Pops(t, {"NOP"})
    /\ Place(t, "retiring", Coordinator)
    /\ UNCHANGED <<pending, issued, resolved, signaled, delivered, scope>>

\* BARRIER and FENCE start to retire, in several steps.
ScheduleBarrierOrFence(t) ==
    /\ Pops(t, {"BARRIER", "FENCE"})
    /\ Place(t, "active", Coordinator)
    /\ UNCHANGED <<pending, issued, resolved, signaled, delivered, scope>>

\* WAIT: retire it if its condition was met, otherwise keep it with the waits.
ScheduleWait(t) ==
    /\ Pops(t, {"WAIT"})
    /\ IF t \in resolved THEN Place(t, "retiring", Coordinator)
                         ELSE Place(t, "waiting", NoProc)
    /\ UNCHANGED <<pending, issued, resolved, signaled, delivered, scope>>

\* DISPATCH: issue it the first time, retire it the second time.
ScheduleDispatch(t) ==
    /\ Pops(t, {"DISPATCH"})
    /\ IF t \in issued THEN Place(t, "retiring", Coordinator) /\ UNCHANGED issued
                       ELSE Place(t, "active", Coordinator) /\ issued' = issued \cup {t}
    /\ UNCHANGED <<pending, resolved, signaled, delivered, scope>>

\* issue_sharded: build one shard, count it, and enqueue it to the post batch.
IssueShard(t, s) ==
    /\ Type[t] = "DISPATCH" /\ where[t] = "active"
    /\ s \in Spawns[t] /\ where[s] = "absent"
    /\ pending' = [pending EXCEPT ![t] = @ + 1]
    /\ where' = [where EXCEPT ![s] = "batch"]
    /\ UNCHANGED <<holder, issued, resolved, signaled, delivered, scope>>

\* A dispatch without shards retires at once.
IssueDone(t) ==
    /\ Type[t] = "DISPATCH" /\ where[t] = "active"
    /\ \A s \in Spawns[t] : where[s] # "absent"
    /\ IF Spawns[t] = {} THEN Place(t, "retiring", Coordinator)
                         ELSE Place(t, "idle", NoProc)
    /\ UNCHANGED <<pending, issued, resolved, signaled, delivered, scope>>

\* iree_task_post_batch_submit: the whole batch becomes visible to the workers.
PostBatchSubmit ==
    LET batch == {t \in Tasks : where[t] = "batch"} IN
    /\ ~Busy(Coordinator)
    /\ batch # {}
    /\ where' = [t \in Tasks |-> IF t \in batch THEN "posted" ELSE where[t]]
    /\ UNCHANGED <<pending, holder, issued, resolved, signaled, delivered, scope>>

\* iree_task_barrier_retire walks the dependents from the last to the first.
BarrierNotify(t) ==
    /\ Type[t] = "BARRIER" /\ where[t] = "active"
    /\ \E i \in DOMAIN Dependents[t] :
          /\ BarrierEdge(t, i) \notin delivered
          /\ \A j \in DOMAIN Dependents[t] : j > i => BarrierEdge(t, j) \in delivered
          /\ Notify(Coordinator, BarrierEdge(t, i), "active")
    /\ UNCHANGED <<issued, resolved, signaled, scope>>

BarrierDone(t) ==
    /\ Type[t] = "BARRIER" /\ where[t] = "active"
    /\ BarrierEdges(t) \subseteq delivered
    /\ Place(t, "retiring", Coordinator)
    /\ UNCHANGED <<pending, issued, resolved, signaled, delivered, scope>>

\* iree_task_fence_retire ends the submission in the scope, then retires.
FenceRetire(t) ==
    /\ Type[t] = "FENCE" /\ where[t] = "active"
    /\ scope' = scope - 1
    /\ Place(t, "retiring", Coordinator)
    /\ UNCHANGED <<pending, issued, resolved, signaled, delivered>>

\* The outside world signals the wait handle of a wait task.
SignalWaitHandle(t) ==
    /\ Type[t] = "WAIT" /\ t \notin signaled
    /\ signaled' = signaled \cup {t}
    /\ UNCHANGED <<pending, where, holder, issued, resolved, delivered, scope>>

\* Mutant: the wait is moved to the ready list but not marked completed.
WakeForgetsFlag(t) ==
    /\ ~Busy(Coordinator)
    /\ where[t] = "waiting" /\ t \in signaled
    /\ Place(t, "local", Coordinator)
    /\ UNCHANGED <<pending, issued, resolved, signaled, delivered, scope>>

\* wake_waiting_task: mark the wait completed and put it on the ready list.
WakeWaitingTask(t) ==
    /\ ~Busy(Coordinator)
    /\ where[t] = "waiting" /\ t \in signaled
    /\ resolved' = resolved \cup {t}
    /\ Place(t, "local", Coordinator)
    /\ UNCHANGED <<pending, issued, signaled, delivered, scope>>

-----------------------------------------------------------------------------
\* A worker pops or steals a posted task and starts to execute it.
WorkerTake(w, t) ==
    /\ ~Busy(w)
    /\ where[t] = "posted"
    /\ Place(t, "active", w)
    /\ UNCHANGED <<pending, issued, resolved, signaled, delivered, scope>>

\* Mutant: the nested task is enqueued without iree_task_set_completion_task.
CallSpawnUncounted(w, t, s) ==
    /\ Type[t] = "CALL" /\ where[t] = "active" /\ holder[t] = w
    /\ s \in Spawns[t] /\ where[s] = "absent"
    /\ Place(s, "local", w)
    /\ issued' = issued \cup {t}
    /\ UNCHANGED <<pending, resolved, signaled, delivered, scope>>

\* A call closure builds a nested task, links it and enqueues it to the
\* worker's pending submission.
CallSpawn(w, t, s) ==
    /\ Type[t] = "CALL" /\ where[t] = "active" /\ holder[t] = w
    /\ s \in Spawns[t] /\ where[s] = "absent"
    /\ pending' = [c \in Tasks |-> IF c = Completion[s] THEN pending[c] + 1
                                                        ELSE pending[c]]
    /\ Place(s, "local", w)
    /\ issued' = issued \cup {t}
    /\ UNCHANGED <<resolved, signaled, delivered, scope>>

\* Mutant: the call retires although tasks it spawned will complete into it.
CallReturnEarly(w, t) ==
    /\ Type[t] = "CALL" /\ where[t] = "active" /\ holder[t] = w
    /\ \A s \in Spawns[t] : where[s] # "absent"
    /\ issued' = issued \cup {t}
    /\ Place(t, "retiring", w)
    /\ UNCHANGED <<pending, resolved, signaled, delivered, scope>>

\* The closure returns: retire the call only if nothing completes into it; if
\* something does, the call is executed again once that has completed.
CallReturn(w, t) ==
    /\ Type[t] = "CALL" /\ where[t] = "active" /\ holder[t] = w
    /\ \A s \in Spawns[t] : where[s] # "absent"
    /\ issued' = issued \cup {t}
    /\ IF pending[t] = 0 THEN Place(t, "retiring", w) ELSE Place(t, "idle", NoProc)
    /\ UNCHANGED <<pending, resolved, signaled, delivered, scope>>

\* iree_task_dispatch_shard_execute: runs tiles and retires; when a tile fails
\* it returns the status, which the worker drops, and the shard never retires.
ShardExecute(w, t) ==
    /\ Type[t] = "SHARD" /\ where[t] = "active" /\ holder[t] = w
    /\ IF t \in TileFails THEN Place(t, "abandoned", NoProc) ELSE Place(t, "retiring", w)
    /\ UNCHANGED <<pending, issued, resolved, signaled, delivered, scope>>

\* iree_task_retire, first half: notify the completion task.
Retire(p, t) ==
    /\ where[t] = "retiring" /\ holder[t] = p
    /\ IF Completion[t] = NoTask
       THEN /\ where' = [where EXCEPT ![t] = "released"]
            /\ UNCHANGED <<pending, holder, delivered>>
       ELSE Notify(p, CompletionEdge(t), "released")
    /\ UNCHANGED <<issued, resolved, signaled, scope>>

\* iree_task_retire, second half: cleanup_fn runs and the memory goes back.
Cleanup(p, t) ==
    /\ where[t] = "released" /\ holder[t] = p
    /\ Place(t, "retired", NoProc)
    /\ UNCHANGED <<pending, issued, resolved, signaled, delivered, scope>>

AllRetired == \A t \in Tasks : where[t] = "retired"

\* The graph has run; nothing is left to do.
Finished == AllRetired /\ UNCHANGED vars

CoordinatorStep ==
    \/ PostBatchSubmit
    \/ \E t \in Tasks :
          \/ RelayToWorker(t) \/ ScheduleNop(t) \/ ScheduleBarrierOrFence(t)
          \/ ScheduleWait(t) \/ ScheduleDispatch(t) \/ WakeWaitingTask(t)
          \/ IssueDone(t) \/ BarrierNotify(t) \/ BarrierDone(t) \/ FenceRetire(t)
          \/ \E s \in Tasks : IssueShard(t, s)

WorkerStep(w) ==
    \E t \in Tasks :
        \/ WorkerTake(w, t) \/ CallReturn(w, t) \/ ShardExecute(w, t)
        \/ \E s \in Tasks : CallSpawn(w, t, s)

Next ==
    \/ CoordinatorStep
    \/ \E w \in Workers : WorkerStep(w)
    \/ \E p \in Procs : MergeSubmission(p)
    \/ \E p \in Procs, t \in Tasks : Retire(p, t) \/ Cleanup(p, t)
    \/ \E t \in Tasks : SignalWaitHandle(t)
    \/ Finished

Spec == Init /\ [][Next]_vars

\* Some thread that can run does, and the outside world signals its handles.
FairSpec == Spec /\ WF_vars(Next)

-----------------------------------------------------------------------------
\* Types of the state.
TypeOK ==
    /\ pending \in [Tasks -> Nat]
    /\ where \in [Tasks -> Stages]
    /\ holder \in [Tasks -> Procs \cup {NoProc}]
    /\ issued \subseteq Tasks
    /\ resolved \subseteq Tasks
    /\ signaled \subseteq Tasks
    /\ delivered \subseteq Edges
    /\ scope \in Nat

\* The decrements that a built task still has to receive from built tasks.
Outstanding(t) == {e \in EdgesInto(t) : where[e[1]] # "absent" /\ e \notin delivered}

\* However many threads link, retire and walk barriers at once, the dependency
\* counter of a task is exactly the number of decrements still to come: no
\* decrement of iree_task_retire or iree_task_barrier_retire is lost or doubled.
PendingExact == \A t \in Tasks : pending[t] = Cardinality(Outstanding(t))

\* A built task that is in no list has a decrement to come that will enqueue it:
\* no thread drops a task that became ready (iree_task_retire, call_execute).
NoTaskForgotten == \A t \in Tasks : where[t] = "idle" => pending[t] > 0

\* The asserts of iree_task_submission_enqueue and iree_task_retire: a task in a
\* list, and a task that retires, has no dependency pending.
QueuedMeansReady ==
    \A t \in Tasks : where[t] \notin {"absent", "idle", "active"} => pending[t] = 0

\* A task enters a submission list only from outside every list: no two threads
\* enqueue the same task, and none enqueues a task that another one executes
\* (intrusive lists share task->next_task).
EnqueuedFromNoList ==
    [][\A t \in Tasks : where'[t] = "local" /\ where[t] # "local"
                            => where[t] \in {"absent", "idle", "waiting"}]_vars

\* When the scope is idle every task that leads to one of its fences has
\* executed and notified whoever waited for it.
ScopeIdleMeansReleased ==
    scope = 0 => \A t \in Tasks : Type[t] # "FENCE" => where[t] \in {"released", "retired"}

\* scope.h: when a scope is idle all memory used by its tasks is available for
\* reuse, so every task other than the fences has been cleaned up.
ScopeIdleMeansRetired ==
    scope = 0 => \A t \in Tasks : Type[t] # "FENCE" => where[t] = "retired"

\* Every task of the graph executes and is cleaned up: nothing waits forever.
AllTasksRetire == <>AllRetired

\* scope.h: the idle notification is posted once all pending tasks complete, or
\* once they complete after a failure; so the scope always becomes idle.
ScopeBecomesIdle == <>(scope = 0)

-----------------------------------------------------------------------------
\* The task order that the counters implement.  A call has begun when its
\* closure has run once; a dispatch when it has been issued.
Begun == {t \in Tasks : \/ t \in issued
                        \/ where[t] \in {"retiring", "released", "retired"}
                        \/ where[t] = "active" /\ Type[t] \in {"BARRIER", "FENCE", "SHARD"}}
                        \cup {t \in Tasks : where[t] = "abandoned"}
Done == {t \in Tasks : where[t] \in {"released", "retired"}}

\* A barrier counts as done for a dependent when it has notified it, so the
\* order is stated for the completion edges.
Waited(t) == {u \in Tasks : Completion[u] = t}
Order == INSTANCE TaskOrder WITH
    Prereqs <- [t \in Tasks |-> Waited(t) \ Spawns[t]],
    Nested <- [t \in Tasks |-> Waited(t) \cap Spawns[t]],
    begun <- Begun,
    done <- Done

\* TaskGraph implements TaskOrder: a task begins when the tasks that complete
\* into it are done, and is done when the tasks it spawned into itself are.
ImplementsTaskOrder == Order!Spec
=============================================================================
