---------------------------- MODULE CommandBuffer ----------------------------
(***************************************************************************)
(* The command buffer of the task device (iree/hal/local/                  *)
(* task_command_buffer.c): recording builds the graph of tasks that the    *)
(* issue command of a submission hands to the executor.  Commands between  *)
(* two barriers may run in any order; a barrier joins what was recorded    *)
(* before it and forks to what is recorded after it.  Its fork is only     *)
(* wired up when the next barrier or the end of the recording flushes the  *)
(* open tasks.  A buffer that is recorded again or destroyed without being *)
(* issued discards its tasks.                                              *)
(*                                                                         *)
(* Tasks are numbered in the order of recording, commands and barriers     *)
(* alike; how the executor runs a graph is module TaskGraph, here reduced  *)
(* to one step per task.  Lists of tasks are sets, except the worklist of  *)
(* a discard, whose order matters.  Asserts are compiled out.              *)
(***************************************************************************)
EXTENDS Integers, Sequences, FiniteSets

CONSTANT MaxTasks       \* bound on the tasks of one recording

ASSUME MaxTasksAssumption == MaxTasks \in Nat \ {0}

Tasks == 1..MaxTasks
NULL == 0
Retire == MaxTasks + 1  \* the retire command of the submission
Nodes == Tasks \cup {Retire}

VARIABLES
    cb,         \* the command buffer and the links and counters of its tasks
    kind,       \* what was recorded, in order
    phase,      \* "recording", "failed", "executable", "issued" or "discarding"
    queue,      \* issued tasks that have been enqueued and not run
    ran,        \* tasks that have run
    done,       \* tasks that have run and retired
    worklist,   \* the list iree_task_list_discard works on
    discarded   \* tasks that the discard has cleaned up, and how often (history)

vars == <<cb, kind, phase, queue, ran, done, worklist, discarded>>

Empty == [root_tasks   |-> {},
          leaf_tasks   |-> {},
          open_barrier |-> NULL,
          open_tasks   |-> {},
          completion   |-> [t \in Tasks |-> NULL],
          dependents   |-> [t \in Tasks |-> {}],
          \* The retire command already waits for the issue command.
          pending      |-> [t \in Nodes |-> IF t = Retire THEN 1 ELSE 0]]

-----------------------------------------------------------------------------
\* Recording, as functions from command buffer to command buffer.

\* iree_task_set_completion_task of every task of a list.
Join(c, list, to) ==
    [c EXCEPT !.completion = [t \in Tasks |-> IF t \in list THEN to ELSE @[t]],
              !.pending[to] = @ + Cardinality(list)]

\* Mutant: only the first open task becomes dependent on the barrier.
FlushFirst(c) ==
    LET first == {t \in c.open_tasks : \A u \in c.open_tasks : t <= u}
    IN [c EXCEPT !.completion = [t \in Tasks |-> IF t = c.open_barrier /\ first # {}
                                                 THEN CHOOSE u \in first : TRUE ELSE @[t]],
                 !.pending = [t \in Nodes |-> IF t \in first THEN @[t] + 1 ELSE @[t]],
                 !.open_barrier = NULL,
                 !.leaf_tasks = IF c.open_tasks = {} THEN @ ELSE c.open_tasks,
                 !.open_tasks = {}]

\* One task after the open barrier is its completion task, several are its
\* dependents; in both cases they wait for it.  The open tasks become the leaves.
Flush(c) ==
    LET open == c.open_tasks
        forked == IF c.open_barrier = NULL THEN {} ELSE open
    IN [c EXCEPT
          !.completion = [t \in Tasks |-> IF t = c.open_barrier /\ Cardinality(forked) = 1
                                          THEN CHOOSE u \in forked : TRUE ELSE @[t]],
          !.dependents = [t \in Tasks |-> IF t = c.open_barrier /\ Cardinality(forked) > 1
                                          THEN forked ELSE @[t]],
          !.pending = [t \in Nodes |-> IF t \in forked THEN @[t] + 1 ELSE @[t]],
          !.open_barrier = NULL,
          !.leaf_tasks = IF open = {} THEN @ ELSE open,
          !.open_tasks = {}]

\* Mutant: the leaves replace the roots of the first layer.
LeavesBecomeRootsAlways(c) ==
    IF c.leaf_tasks # {} THEN [c EXCEPT !.root_tasks = c.leaf_tasks, !.leaf_tasks = {}] ELSE c

\* The first layer that was recorded holds the roots.
LeavesBecomeRoots(c) ==
    IF c.root_tasks = {} /\ c.leaf_tasks # {}
    THEN [c EXCEPT !.root_tasks = c.leaf_tasks, !.leaf_tasks = {}] ELSE c

\* Mutant: the tasks before the barrier are not joined to it.
GlobalBarrierUnjoined(c, barrier) ==
    [LeavesBecomeRoots(Flush(c)) EXCEPT !.leaf_tasks = {barrier}, !.open_barrier = barrier]

GlobalBarrier(c, barrier) ==
    LET flushed == Flush(c)
        joined == LeavesBecomeRoots(Join(flushed, flushed.leaf_tasks, barrier))
    IN [joined EXCEPT !.leaf_tasks = {barrier}, !.open_barrier = barrier]

ExecutionTask(c, task) ==
    IF c.open_barrier = NULL THEN [c EXCEPT !.leaf_tasks = @ \cup {task}]
                             ELSE [c EXCEPT !.open_tasks = @ \cup {task}]

EndOf(c) == LeavesBecomeRoots(Flush(c))

\* The retire command waits for the leaves, or for the only layer there is.
Issued(c) == Join(c, IF c.leaf_tasks # {} THEN c.leaf_tasks ELSE c.root_tasks, Retire)

-----------------------------------------------------------------------------
Init ==
    /\ cb = Empty
    /\ kind = <<>>
    /\ phase = "recording"
    /\ queue = {} /\ ran = {} /\ done = {}
    /\ worklist = <<>>
    /\ discarded = [t \in Tasks |-> 0]

Recorded == 1..Len(kind)
execution == <<queue, ran, done>>
discard == <<worklist, discarded>>

\* fill_buffer, update_buffer, copy_buffer, dispatch and dispatch_indirect; a
\* dispatch whose grid will be found empty is a kind of its own.
RecordCommand ==
    /\ phase = "recording" /\ Len(kind) < MaxTasks
    /\ \E k \in {"command", "empty"} : kind' = Append(kind, k)
    /\ cb' = ExecutionTask(cb, Len(kind) + 1)
    /\ UNCHANGED <<phase, execution, discard>>

\* execution_barrier and wait_events.
RecordBarrier ==
    /\ phase = "recording" /\ Len(kind) < MaxTasks
    /\ kind' = Append(kind, "barrier")
    /\ cb' = GlobalBarrier(cb, Len(kind) + 1)
    /\ UNCHANGED <<phase, execution, discard>>

\* The arena is exhausted: the list of dependents cannot be allocated, or the
\* barrier after the flush.  The recording is given up.
RecordFails ==
    /\ phase = "recording"
    /\ \/ cb' = Flush(cb)
       \/ Cardinality(cb.open_tasks) > 1 /\ cb' = cb
    /\ phase' = "failed"
    /\ UNCHANGED <<kind, execution, discard>>

End ==
    /\ phase = "recording"
    /\ cb' = EndOf(cb)
    /\ phase' = "executable"
    /\ UNCHANGED <<kind, execution, discard>>

\* The issue command: the roots are enqueued, and the issue command retires.
Issue ==
    /\ phase = "executable"
    /\ LET c == IF cb.root_tasks = {} THEN cb ELSE Issued(cb)
       IN /\ cb' = [c EXCEPT !.pending[Retire] = @ - 1, !.root_tasks = {}, !.leaf_tasks = {}]
          /\ queue' = IF c.pending[Retire] = 1 THEN cb.root_tasks \cup {Retire} ELSE cb.root_tasks
    /\ phase' = "issued"
    /\ UNCHANGED <<kind, ran, done, discard>>

\* The tasks that wait for t.
Followers(t) == IF t = Retire THEN {} ELSE cb.dependents[t] \cup ({cb.completion[t]} \ {NULL})

\* A call retires after its function when nothing is pending, a dispatch when
\* its last shard leaves nothing pending; a barrier, and a dispatch without
\* workgroups, retire whatever their count is.
Retires(t) == cb.pending[t] = 0 \/ (t # Retire /\ kind[t] # "command")

\* A worker runs a task.  When the task retires, what it was the last to wait for
\* is enqueued.
Execute(t) ==
    /\ phase = "issued" /\ t \in queue
    /\ ran' = ran \cup {t}
    /\ \/ /\ Retires(t)
          /\ cb' = [cb EXCEPT !.pending = [u \in Nodes |-> IF u \in Followers(t) THEN @[u] - 1
                                                                            ELSE @[u]]]
          /\ queue' = (queue \ {t}) \cup {u \in Followers(t) : cb.pending[u] = 1}
          /\ done' = done \cup {t}
       \/ /\ ~Retires(t)
          /\ queue' = queue \ {t}
          /\ UNCHANGED <<cb, done>>
    /\ UNCHANGED <<kind, phase, discard>>

-----------------------------------------------------------------------------
InOrder(set) == SelectSeq([i \in Tasks |-> i], LAMBDA t : t \in set)
InReverse(set) == SelectSeq([i \in Tasks |-> MaxTasks + 1 - i], LAMBDA t : t \in set)

\* begin of a buffer that has been recorded, or its destruction: the recording
\* state is cleared and the leaves are discarded, then the roots.
Reset ==
    /\ phase \in {"recording", "failed", "executable"} /\ kind # <<>>
    /\ worklist' = InOrder(cb.leaf_tasks)
    /\ cb' = [cb EXCEPT !.open_barrier = NULL, !.open_tasks = {}, !.leaf_tasks = {}]
    /\ phase' = "discarding"
    /\ UNCHANGED <<kind, execution, discarded>>

\* iree_task_discard of the head of the list: what it leads to goes to the
\* front, the last dependent first.
DiscardOne ==
    /\ phase = "discarding" /\ worklist # <<>>
    /\ LET t == Head(worklist)
       IN /\ worklist' = InReverse(Followers(t)) \o Tail(worklist)
          /\ discarded' = [discarded EXCEPT ![t] = @ + 1]
    /\ UNCHANGED <<cb, kind, phase, execution>>

DiscardRoots ==
    /\ phase = "discarding" /\ worklist = <<>> /\ cb.root_tasks # {}
    /\ worklist' = InOrder(cb.root_tasks)
    /\ cb' = [cb EXCEPT !.root_tasks = {}]
    /\ UNCHANGED <<kind, phase, execution, discarded>>

\* The arena is reset and recording starts over.
Discarded ==
    /\ phase = "discarding" /\ worklist = <<>> /\ cb.root_tasks = {}
    /\ cb' = Empty /\ kind' = <<>> /\ phase' = "recording"
    /\ discarded' = [t \in Tasks |-> 0]
    /\ UNCHANGED <<execution, worklist>>

-----------------------------------------------------------------------------
Next ==
    \/ RecordCommand \/ RecordBarrier \/ RecordFails \/ End
    \/ Issue \/ \E t \in Nodes : Execute(t)
    \/ Reset \/ DiscardOne \/ DiscardRoots \/ Discarded

Spec == Init /\ [][Next]_vars
FairSpec == Spec /\ \A t \in Nodes : WF_vars(Execute(t))

-----------------------------------------------------------------------------
Commands == {t \in Recorded : kind[t] # "barrier"}
Barriers == {t \in Recorded : kind[t] = "barrier"}
\* Commands that were recorded before a barrier that is before t.
Before(t) == {a \in Commands : \E b \in Barriers : a < b /\ b < t}

TypeOK ==
    /\ cb \in [root_tasks : SUBSET Tasks, leaf_tasks : SUBSET Tasks,
               open_barrier : Tasks \cup {NULL}, open_tasks : SUBSET Tasks,
               completion : [Tasks -> Nodes \cup {NULL}],
               dependents : [Tasks -> SUBSET Tasks],
               pending : [Nodes -> 0..MaxTasks + 1]]
    /\ cb.open_tasks # {} => cb.open_barrier # NULL
    /\ kind \in Seq({"command", "empty", "barrier"}) /\ Len(kind) <= MaxTasks
    /\ phase \in {"recording", "failed", "executable", "issued", "discarding"}
    /\ queue \subseteq Nodes /\ ran \subseteq Nodes /\ done \subseteq ran
    /\ worklist \in Seq(Tasks)
    /\ discarded \in [Tasks -> Nat]

\* However commands and barriers are mixed, a command starts to run after all
\* commands on the other side of a barrier before it have retired, and the retire
\* command, which signals the submission's semaphores, is enqueued after every
\* command has.
BarriersRespected ==
    /\ \A c \in Commands \cap ran : Before(c) \subseteq done
    /\ Retire \in queue \cup ran => Commands \subseteq done

\* Nothing is ordered that no barrier orders: when the commands before its
\* barriers have retired and no barrier is left to run, a command has been
\* enqueued.
NoNeedlessWait ==
    phase = "issued" /\ queue \cap Barriers = {} =>
        \A c \in Commands : Before(c) \subseteq done => c \in queue \cup ran

\* The commands that directly follow a barrier with which the recording starts
\* become the roots in its place, and still count it as a dependency.
BehindFirstBarrier ==
    {c \in Recorded : kind[c] = "command" /\ 1 \in Barriers /\ \A b \in Barriers : b < c => b = 1}

\* An issued command buffer, empty or ending with barriers or with barriers in a
\* row as it may be, lets its submission retire, unless it has a command behind a
\* barrier at its start.
ReachesRetire == phase = "issued" /\ BehindFirstBarrier = {} ~> Retire \in done

\* Its safety half: the workers never run out of tasks before the submission has
\* retired.
NeverHalts == phase = "issued" /\ BehindFirstBarrier = {} /\ queue = {} => Retire \in done

\* The task queue says of a submission: "After all commands within the batch
\* complete the submission is retired".
EveryBufferRetires == phase = "issued" ~> Retire \in done

\* A discard never pushes a task that is on the list already, which would cut
\* the list short: iree_task_list_push_front overwrites its next_task.
WorklistDistinct == \A i, j \in DOMAIN worklist : worklist[i] = worklist[j] => i = j

\* iree_task_submission_enqueue asserts that a root is ready: "must be a root
\* task to be enqueued on a submission".
RootsReady == phase = "executable" => \A t \in cb.root_tasks : cb.pending[t] = 0

\* iree_task_discard says of a task it cleaned up: "task is invalidated here and
\* cannot be used!"
DiscardedOnce == \A t \in Tasks : discarded[t] <= 1

=============================================================================
