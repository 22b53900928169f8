------------------------------ MODULE TaskQueue ------------------------------
(***************************************************************************)
(* The HAL queue of the task device (iree/hal/local/task_queue.c): every   *)
(* submitted batch becomes a graph of tasks                                *)
(*     wait command, timepoints -> issue command, commands -> retire       *)
(*     command -> fence                                                    *)
(* whose issue command is chained to the previous one of the queue.  Host  *)
(* threads submit, wait for queues to become idle and signal semaphores    *)
(* while any number of workers run the tasks.  The executor is its         *)
(* contract: a task that is ready is run by somebody, for certain once it  *)
(* has been flushed, and what a task enqueues becomes visible once that    *)
(* task has been cleaned up.  Commands of one batch are independent;       *)
(* semaphores are their value.                                             *)
(***************************************************************************)
EXTENDS Integers, Sequences, FiniteSets, FiniteSetsExt

CONSTANTS
    Users,          \* host threads
    Programs,       \* what each host thread calls, in order
    Batches, Queues, Semaphores,
    Continued,      \* batches that another batch of the same call follows
    Queue,          \* the queue a batch is submitted to
    Waits,          \* batch->wait_semaphores: a set of <<semaphore, value>>
    Signals,        \* batch->signal_semaphores: a sequence of the same
    Commands,       \* the commands of the batch's command buffers
    NoTask,
    AllocFails      \* whether allocations and event acquisitions may fail

WaitCmd(b) == <<"wait", b>>
Timepoint(b, w) == <<"timepoint", b, w>>
IssueCmd(b) == <<"issue", b>>
Command(b, c) == <<"command", b, c>>
RetireCmd(b) == <<"retire", b>>
Fence(b) == <<"fence", b>>

Timepoints(b) == {Timepoint(b, w) : w \in Waits[b]}
CommandsOf(b) == {Command(b, c) : c \in Commands[b]}
\* The tasks allocated from the arena that the retire command owns.
ArenaTasks(b) == {WaitCmd(b), IssueCmd(b), RetireCmd(b)} \cup Timepoints(b)
Tasks == UNION {ArenaTasks(b) \cup CommandsOf(b) \cup {Fence(b)} : b \in Batches}

\* A host thread submits, waits for a queue to become idle, or signals.
Ops == ({"submit"} \X Batches) \cup ({"wait_idle"} \X Queues) \cup ({"signal"} \X (Semaphores \X Nat))

\* Finitely many batches, each of them one submission: a batch has finitely many
\* waits and commands and is submitted by one call, which may go on with others.
ASSUME QueueAssumption ==
    /\ IsFiniteSet(Batches)
    /\ Queue \in [Batches -> Queues]
    /\ Signals \in [Batches -> Seq(Semaphores \X Nat)]
    /\ \A b \in Batches : /\ Waits[b] \subseteq Semaphores \X Nat
                           /\ IsFiniteSet(Waits[b]) /\ IsFiniteSet(Commands[b])
    /\ Programs \in [Users -> Seq(Ops)]
    /\ \A u, v \in Users : \A i \in DOMAIN Programs[u], j \in DOMAIN Programs[v] :
          Programs[u][i][1] = "submit" /\ Programs[v][j] = Programs[u][i] => u = v /\ i = j
    /\ \A u \in Users : \A i \in DOMAIN Programs[u] : Programs[u][i][2] \in Continued =>
          i + 1 \in DOMAIN Programs[u] /\ Programs[u][i + 1][1] = "submit"
    /\ NoTask \notin Tasks
    /\ Users \cap (Tasks \cup {NoTask}) = {}

VARIABLES
    pending,        \* task->pending_dependency_count
    completion,     \* task->completion_task
    stage,          \* where each task is in its life
    holder,         \* the submission list that holds a task that is "local"
    value,          \* semaphore->current_value
    tail,           \* queue->tail_issue_task
    scope,          \* queue->scope.pending_submissions
    at, step,       \* each host thread's call, and how far it is in submit_batch
    freed,          \* batches whose arena has been deinitialized
    chained,        \* batches that found an issue in flight (history)
    faulted,        \* batches whose wait command could not wait for everything (history)
    unflushed,      \* tasks may lie in the executor's lists that nobody was told of
    crashed         \* the process is gone

tasks == <<pending, completion, stage, holder>>
vars == <<tasks, value, tail, scope, at, step, freed, chained, faulted, unflushed, crashed>>

Stages == {"absent", "idle", "local", "ready", "running", "retired", "done"}

-----------------------------------------------------------------------------
Init ==
    /\ pending = [t \in Tasks |-> 0]
    /\ completion = [t \in Tasks |-> NoTask]
    /\ stage = [t \in Tasks |-> "absent"]
    /\ holder = [t \in Tasks |-> NoTask]
    /\ value = [s \in Semaphores |-> 0]
    /\ tail = [q \in Queues |-> NoTask]
    /\ scope = [q \in Queues |-> 0]
    /\ at = [u \in Users |-> 1]
    /\ step = [u \in Users |-> "call"]
    /\ freed = {} /\ chained = {} /\ faulted = {}
    /\ unflushed = FALSE /\ crashed = FALSE

\* Host thread u is about to call `op`; the call's argument.
Calls(u, op) == step[u] = "call" /\ at[u] <= Len(Programs[u]) /\ Programs[u][at[u]][1] = op
Arg(u) == Programs[u][at[u]][2]

\* The tasks of `new` are built by p with completion task c and enqueued in p's
\* submission; together they add |new| to c's dependency count.
Enqueue(p, new, c) ==
    /\ stage' = [t \in Tasks |-> IF t \in new THEN "local" ELSE IF t = p THEN "running" ELSE stage[t]]
    /\ holder' = [t \in Tasks |-> IF t \in new THEN p ELSE holder[t]]
    /\ completion' = [t \in Tasks |-> IF t \in new THEN c ELSE completion[t]]
    /\ pending' = [t \in Tasks |-> IF t = c THEN pending[t] + Cardinality(new) ELSE pending[t]]

\* Mutant: workers do not submit what the tasks they ran made ready.
MergedByHosts(p) == [t \in Tasks |-> IF stage[t] = "local" /\ holder[t] = p /\ p \in Users THEN "ready" ELSE stage[t]]

\* The thread or task p hands its submission to the executor.
Merged(p) == [t \in Tasks |-> IF stage[t] = "local" /\ holder[t] = p THEN "ready" ELSE stage[t]]

\* Mutant: the fence follows the issue command instead of the retire command.
LinkFenceAfterIssue(b, t) ==
    CASE t = WaitCmd(b) -> IssueCmd(b)
      [] t = IssueCmd(b) -> Fence(b)
      [] t = RetireCmd(b) -> NoTask

\* The completion tasks of a batch's commands.
Link(b, t) ==
    CASE t = WaitCmd(b) -> IssueCmd(b)
      [] t = IssueCmd(b) -> RetireCmd(b)
      [] t = RetireCmd(b) -> Fence(b)

\* submit_batch up to the queue mutex: the retire command with its arena, the
\* fence that begins a submission in the scope, the wait command if there is
\* something to wait for, and the issue command; the root goes to a submission.
Build(u) ==
    LET b == Arg(u)
        root == IF Waits[b] = {} THEN IssueCmd(b) ELSE WaitCmd(b)
        built == {root, IssueCmd(b), RetireCmd(b)}
    IN /\ Calls(u, "submit")
       /\ completion' = [t \in Tasks |-> IF t \in built THEN Link(b, t) ELSE completion[t]]
       /\ pending' = [t \in Tasks |-> IF \E f \in built : Link(b, f) = t THEN 1 ELSE pending[t]]
       /\ stage' = [t \in Tasks |-> IF t = root THEN "local"
                                    ELSE IF t \in built \cup {Fence(b)} THEN "idle" ELSE stage[t]]
       /\ holder' = [holder EXCEPT ![root] = u]
       /\ scope' = [scope EXCEPT ![Queue[b]] = @ + 1]
       /\ step' = [step EXCEPT ![u] = "chain"]
       /\ UNCHANGED <<value, tail, at, freed, chained, faulted, unflushed>>

\* The call of u that is being made has batches up to position i of its program,
\* and had some before this one.
CallEndsAt(u, i) ==
    /\ i \in at[u] .. Len(Programs[u]) /\ Programs[u][i][2] \notin Continued
    /\ \A j \in at[u] .. i - 1 : Programs[u][j][2] \in Continued
InLaterBatch(u) == at[u] > 1 /\ Programs[u][at[u] - 1][2] \in Continued

\* The wait or issue command cannot be allocated: the arena goes, and the fence
\* that was acquired is never submitted.  Or the retire command cannot: there is
\* nothing to undo.  The call returns the error, without its other batches and
\* without flushing the earlier ones.
BuildFails(u) ==
    /\ AllocFails
    /\ Calls(u, "submit")
    /\ \/ scope' = [scope EXCEPT ![Queue[Arg(u)]] = @ + 1] /\ freed' = freed \cup {Arg(u)}
       \/ UNCHANGED <<scope, freed>>
    /\ \E i \in 1 .. Len(Programs[u]) : CallEndsAt(u, i) /\ at' = [at EXCEPT ![u] = i + 1]
    /\ unflushed' = (unflushed \/ InLaterBatch(u))
    /\ UNCHANGED <<tasks, value, tail, step, chained, faulted>>

\* The fence cannot be acquired: it is made the retire command's completion task
\* all the same, and counting through the null pointer ends the process.
FenceFails(u) ==
    /\ AllocFails
    /\ Calls(u, "submit")
    /\ crashed' = TRUE
    /\ UNCHANGED <<tasks, value, tail, scope, at, step, freed, chained, faulted, unflushed>>

\* Under the queue mutex: the issue in flight, if any, gets this batch's issue
\* as its completion task (in place of the one it had) and becomes the old tail.
Chain(u) ==
    LET b == Arg(u)
        prev == tail[Queue[b]]
    IN /\ step[u] = "chain"
       /\ IF prev = NoTask
          THEN UNCHANGED <<completion, pending, chained>>
          ELSE /\ completion' = [completion EXCEPT ![prev] = IssueCmd(b)]
               /\ pending' = [pending EXCEPT ![IssueCmd(b)] = @ + 1]
               /\ chained' = chained \cup {b}
       /\ tail' = [tail EXCEPT ![Queue[b]] = IssueCmd(b)]
       /\ step' = [step EXCEPT ![u] = "submit"]
       /\ UNCHANGED <<stage, holder, value, scope, at, freed, faulted, unflushed>>

\* The batch goes to the executor, which the last batch of a call flushes.
Submit(u) ==
    /\ step[u] = "submit"
    /\ unflushed' = (unflushed /\ Arg(u) \in Continued)
    /\ stage' = Merged(u)
    /\ step' = [step EXCEPT ![u] = "call"]
    /\ at' = [at EXCEPT ![u] = @ + 1]
    /\ UNCHANGED <<pending, completion, holder, value, tail, scope, freed, chained, faulted>>

WaitIdle(u) ==
    /\ Calls(u, "wait_idle")
    /\ scope[Arg(u)] = 0
    /\ at' = [at EXCEPT ![u] = @ + 1]
    /\ UNCHANGED <<tasks, value, tail, scope, step, freed, chained, faulted, unflushed>>

\* The host signals a semaphore itself.
HostSignal(u) ==
    /\ Calls(u, "signal")
    /\ value' = [value EXCEPT ![Arg(u)[1]] = IF Arg(u)[2] > @ THEN Arg(u)[2] ELSE @]
    /\ at' = [at EXCEPT ![u] = @ + 1]
    /\ UNCHANGED <<tasks, tail, scope, step, freed, chained, faulted, unflushed>>

-----------------------------------------------------------------------------
\* The waits of b that are not satisfied yet.
Unreached(b) == {w \in Waits[b] : value[w[1]] < w[2]}

\* Mutant: the timepoints are enqueued but complete into nothing.
WaitCmdRunsUncounted(b) ==
    /\ stage[WaitCmd(b)] = "ready"
    /\ Enqueue(WaitCmd(b), {Timepoint(b, w) : w \in Unreached(b)}, NoTask)
    /\ UNCHANGED <<value, tail, scope, at, step, freed, chained, faulted, unflushed>>

\* iree_hal_task_queue_wait_cmd: a timepoint for every semaphore that is not
\* there yet, completing into the wait command's own completion task.
WaitCmdRuns(b) ==
    /\ stage[WaitCmd(b)] = "ready"
    /\ Enqueue(WaitCmd(b), {Timepoint(b, w) : w \in Unreached(b)}, completion[WaitCmd(b)])
    /\ UNCHANGED <<value, tail, scope, at, step, freed, chained, faulted, unflushed>>

\* The same when an event cannot be acquired: the rest is not waited for.
WaitCmdFails(b) ==
    /\ AllocFails
    /\ stage[WaitCmd(b)] = "ready"
    /\ \E some \in SUBSET Unreached(b) :
          /\ some # Unreached(b)
          /\ Enqueue(WaitCmd(b), {Timepoint(b, w) : w \in some}, completion[WaitCmd(b)])
    /\ faulted' = faulted \cup {b}
    /\ UNCHANGED <<value, tail, scope, at, step, freed, chained, unflushed>>

\* iree_hal_task_queue_issue_cmd: the commands of the command buffers, holding
\* back whatever is the issue command's completion task now.
IssueCmdRuns(b) ==
    /\ stage[IssueCmd(b)] = "ready"
    /\ Enqueue(IssueCmd(b), CommandsOf(b), completion[IssueCmd(b)])
    /\ UNCHANGED <<value, tail, scope, at, step, freed, chained, faulted, unflushed>>

CommandRuns(b, c) ==
    /\ stage[Command(b, c)] = "ready"
    /\ stage' = [stage EXCEPT ![Command(b, c)] = "running"]
    /\ UNCHANGED <<pending, completion, holder, value, tail, scope, at, step, freed, chained, faulted, unflushed>>

\* iree_hal_task_queue_retire_cmd signals in order up to the first signal that
\* would not increase its semaphore, an error that stops the list and nothing
\* else: the signals of b on s that are made.
Increases(sigs, i) ==
    /\ sigs[i][2] > value[sigs[i][1]]
    /\ \A j \in 1 .. i - 1 : sigs[j][1] = sigs[i][1] => sigs[j][2] < sigs[i][2]
SignalsOn(b, s) ==
    {i \in DOMAIN Signals[b] : Signals[b][i][1] = s /\ \A j \in 1 .. i : Increases(Signals[b], j)}

RetireCmdRuns(b) ==
    /\ stage[RetireCmd(b)] = "ready"
    /\ stage' = [stage EXCEPT ![RetireCmd(b)] = "running"]
    /\ value' = [s \in Semaphores |-> IF SignalsOn(b, s) = {} THEN value[s]
                                      ELSE Signals[b][Max(SignalsOn(b, s))][2]]
    /\ UNCHANGED <<pending, completion, holder, tail, scope, at, step, freed, chained, faulted, unflushed>>

\* iree_task_retire up to the cleanup.
Retire(t) ==
    LET c == completion[t]
    IN /\ completion' = [completion EXCEPT ![t] = NoTask]
       /\ IF c = NoTask
          THEN stage' = [stage EXCEPT ![t] = "retired"] /\ UNCHANGED <<pending, holder>>
          ELSE /\ pending' = [pending EXCEPT ![c] = @ - 1]
               /\ IF pending[c] = 1
                  THEN /\ stage' = [stage EXCEPT ![t] = "retired", ![c] = "local"]
                       /\ holder' = [holder EXCEPT ![c] = t]
                  ELSE stage' = [stage EXCEPT ![t] = "retired"] /\ UNCHANGED holder

\* Back in iree_task_call_execute: a call with dependencies of its own stays
\* and will be run again when they are gone; the others retire.
CallReturns(t) ==
    /\ stage[t] = "running"
    /\ IF pending[t] = 0
       THEN Retire(t)
       ELSE /\ stage' = [Merged(t) EXCEPT ![t] = "idle"]
            /\ UNCHANGED <<pending, completion, holder>>
    /\ UNCHANGED <<value, tail, scope, at, step, freed, chained, faulted, unflushed>>

\* The semaphore has reached the timepoint: the coordinator, which handles one
\* wait at a time, retires and cleans it up and schedules what became ready.
TimepointReached(b, w) ==
    LET t == Timepoint(b, w)
        c == completion[t]
    IN /\ stage[t] = "ready"
       /\ value[w[1]] >= w[2]
       /\ completion' = [completion EXCEPT ![t] = NoTask]
       /\ pending' = [pending EXCEPT ![c] = @ - 1]
       /\ stage' = [stage EXCEPT ![t] = "done", ![c] = IF pending[c] = 1 THEN "ready" ELSE @]
       /\ UNCHANGED <<holder, value, tail, scope, at, step, freed, chained, faulted, unflushed>>

\* iree_task_fence_retire ends the submission in the scope.
FenceRetires(b) ==
    /\ stage[Fence(b)] = "ready"
    /\ scope' = [scope EXCEPT ![Queue[b]] = @ - 1]
    /\ stage' = [stage EXCEPT ![Fence(b)] = "done"]
    /\ UNCHANGED <<pending, completion, holder, value, tail, at, step, freed, chained, faulted, unflushed>>

\* Mutant: the finished issue stays the tail of its queue.
TailKept(t) == tail

\* iree_hal_task_queue_issue_cmd_cleanup: the issue leaves the tail if it is
\* still there.
TailWithout(t) == [q \in Queues |-> IF tail[q] = t THEN NoTask ELSE tail[q]]

\* iree_hal_task_queue_retire_cmd_cleanup is always told that the command was
\* fine: it drops the arena and fails no semaphore.
FreedWith(t) == freed \cup {b \in Batches : t = RetireCmd(b)}

\* iree_task_cleanup, after which the worker submits what the task made ready.
Cleanup(t) ==
    /\ stage[t] = "retired"
    /\ stage' = [Merged(t) EXCEPT ![t] = "done"]
    /\ tail' = TailWithout(t)
    /\ freed' = FreedWith(t)
    /\ UNCHANGED <<pending, completion, holder, value, scope, at, step, chained, faulted, unflushed>>

-----------------------------------------------------------------------------
Step ==
    \/ \E u \in Users : Build(u) \/ BuildFails(u) \/ Chain(u) \/ Submit(u) \/ WaitIdle(u) \/ HostSignal(u)
    \/ \E b \in Batches :
          \/ WaitCmdRuns(b) \/ WaitCmdFails(b) \/ IssueCmdRuns(b) \/ RetireCmdRuns(b)
          \/ FenceRetires(b)
          \/ \E c \in Commands[b] : CommandRuns(b, c)
          \/ \E w \in Waits[b] : TimepointReached(b, w)
    \/ \E t \in Tasks : CallReturns(t) \/ Cleanup(t)

Next == ~crashed /\ ((Step /\ UNCHANGED crashed) \/ \E u \in Users : FenceFails(u))

Spec == Init /\ [][Next]_vars
FairSpec == Spec /\ WF_vars(Next)

-----------------------------------------------------------------------------
Typed ==
    /\ pending \in [Tasks -> Nat]
    /\ completion \in [Tasks -> Tasks \cup {NoTask}]
    /\ stage \in [Tasks -> Stages]
    /\ holder \in [Tasks -> Tasks \cup Users \cup {NoTask}]
    /\ value \in [Semaphores -> Nat]
    /\ tail \in [Queues -> {IssueCmd(b) : b \in Batches} \cup {NoTask}]
    /\ scope \in [Queues -> Nat]
    /\ at \in [Users -> Nat \ {0}] /\ step \in [Users -> {"call", "chain", "submit"}]
    /\ freed \subseteq Batches /\ chained \subseteq Batches /\ faulted \subseteq Batches
TypeOK == Typed /\ unflushed \in BOOLEAN /\ crashed \in BOOLEAN

Begun(t) == stage[t] \in {"running", "retired", "done"}
Done(t) == stage[t] = "done"

\* What the graph of a batch promises: its commands start after every semaphore
\* it waits for has reached its value, unless an event could not be acquired, and
\* its semaphores are signaled after every command has retired.
BatchOrder ==
    \A b \in Batches :
        /\ b \notin faulted /\ (\E t \in CommandsOf(b) : Begun(t)) => Unreached(b) = {}
        /\ Begun(RetireCmd(b)) => \A t \in CommandsOf(b) : stage[t] \in {"retired", "done"}

\* The retire command drops the memory of the whole submission: by then the
\* other tasks in it are finished with, and the queue does not point into it,
\* as long as no batch finds an issue in flight.
ArenaOutlivesTasks ==
    chained = {} => \A b \in freed : tail[Queue[b]] # IssueCmd(b) /\ \A t \in ArenaTasks(b) : stage[t] \in {"absent", "done"}

\* As long as no batch finds an issue in flight, a queue that is idle has run all
\* its batches and has no tail: what wait_idle promises, and deinitialize asserts.
IdleMeansFinished ==
    \A q \in Queues : scope[q] = 0 /\ chained = {} =>
        /\ tail[q] = NoTask
        /\ \A b \in Batches : Queue[b] = q /\ stage[IssueCmd(b)] # "absent" => Done(RetireCmd(b))

\* A batch that could not be allocated and left its fence behind.
FenceLost == \E b \in freed : stage[Fence(b)] = "absent"

\* A batch that waits for a semaphore which a batch that was refused was to signal.
Refused(b) ==
    /\ stage[IssueCmd(b)] = "absent"
    /\ \E u \in Users : \E i \in DOMAIN Programs[u] : i < at[u] /\ Programs[u][i] = <<"submit", b>>
Starved ==
    \E b, c \in Batches : \E w \in Unreached(b), i \in DOMAIN Signals[c] :
        stage[IssueCmd(b)] # "absent" /\ Refused(c) /\ Signals[c][i][1] = w[1]

\* Under fair scheduling, as long as no batch finds an issue in flight or waits
\* for one that was refused, no fence is left behind or missing, and what a
\* failed call submitted is flushed by a later one, every host thread gets
\* through its calls and every queue becomes idle.
QueuesDrain == <>[](\/ chained # {} \/ Starved \/ FenceLost \/ crashed \/ unflushed
                    \/ /\ \A u \in Users : at[u] > Len(Programs[u])
                       /\ \A q \in Queues : scope[q] = 0)

\* task_queue.c says that after all commands of a batch complete the submission
\* is retired and all its semaphores are signaled: every batch gets there.
EveryBatchRetires == \A b \in Batches : stage[IssueCmd(b)] # "absent" ~> Done(RetireCmd(b))

\* scope.h says that a scope is idle when it has no pending or in-flight tasks: a
\* queue with no fence outstanding is idle, whatever submissions failed.
FinishedMeansIdle ==
    \A q \in Queues : (\A b \in Batches : Queue[b] = q => stage[Fence(b)] \in {"absent", "done"})
        => scope[q] = 0

\* submit_batch says that command buffers are only issued after all waits have
\* completed, whatever happens to the wait command.
IssuedAfterAllWaits == \A b \in Batches : Begun(IssueCmd(b)) => Unreached(b) = {}

=============================================================================
