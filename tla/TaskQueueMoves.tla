--------------------------- MODULE TaskQueueMoves ---------------------------
(***************************************************************************)
(* The inductive invariant of TaskQueue and one lemma for each action that *)
(* keeps it, up to NextKeeps.  What is needed of finite sets is part of    *)
(* the invariant (Counting, Maxima); TaskQueueProofs proves that part from *)
(* the library and draws the theorems.                                     *)
(***************************************************************************)
EXTENDS TaskQueue, TLAPS

\* All tasks of a batch, and the issue commands.
TasksOf(b) == ArenaTasks(b) \cup CommandsOf(b) \cup {Fence(b)}
Issues == {IssueCmd(b) : b \in Batches}

\* The tasks of a batch are tasks, and each task is one of the six kinds.
LEMMA Members ==
    /\ \A b \in Batches : /\ WaitCmd(b) \in Tasks /\ IssueCmd(b) \in Tasks /\ RetireCmd(b) \in Tasks /\ Fence(b) \in Tasks
                          /\ Timepoints(b) \subseteq Tasks /\ CommandsOf(b) \subseteq Tasks
                          /\ TasksOf(b) \subseteq Tasks
    /\ \A b \in Batches : \A w \in Waits[b] : Timepoint(b, w) \in Timepoints(b)
    /\ \A b \in Batches : \A c \in Commands[b] : Command(b, c) \in CommandsOf(b)
    /\ Issues \subseteq Tasks
<1>1. \A b \in Batches : TasksOf(b) \subseteq Tasks
  BY Zenon DEF Tasks, TasksOf
<1>2. \A b \in Batches : /\ WaitCmd(b) \in TasksOf(b) /\ IssueCmd(b) \in TasksOf(b) /\ RetireCmd(b) \in TasksOf(b)
                          /\ Fence(b) \in TasksOf(b)
                          /\ Timepoints(b) \subseteq TasksOf(b) /\ CommandsOf(b) \subseteq TasksOf(b)
  BY Zenon DEF TasksOf, ArenaTasks
<1>3. \A b \in Batches : \A w \in Waits[b] : Timepoint(b, w) \in Timepoints(b)
  BY Zenon DEF Timepoints
<1>4. \A b \in Batches : \A c \in Commands[b] : Command(b, c) \in CommandsOf(b)
  BY Zenon DEF CommandsOf
<1> QED
  BY <1>1, <1>2, <1>3, <1>4, Zenon DEF Issues

\* Every task is one of the six kinds.
LEMMA Kinds ==
    ASSUME NEW t \in Tasks
    PROVE  \E b \in Batches : \/ t = WaitCmd(b) \/ t \in Timepoints(b) \/ t = IssueCmd(b)
                              \/ t \in CommandsOf(b) \/ t = RetireCmd(b) \/ t = Fence(b)
BY Zenon DEF Tasks, ArenaTasks

\* Every task of a batch is one of its six kinds.
LEMMA KindsOf ==
    ASSUME NEW b \in Batches, NEW t \in TasksOf(b)
    PROVE  \/ t = WaitCmd(b) \/ t \in Timepoints(b) \/ t = IssueCmd(b)
           \/ t \in CommandsOf(b) \/ t = RetireCmd(b) \/ t = Fence(b)
BY Zenon DEF TasksOf, ArenaTasks

\* The kinds are disjoint and a task belongs to one batch.
LEMMA WaitApart ==
    ASSUME NEW b, NEW d
    PROVE  /\ WaitCmd(b) = WaitCmd(d) => b = d
           /\ WaitCmd(b) # IssueCmd(d) /\ WaitCmd(b) # RetireCmd(d) /\ WaitCmd(b) # Fence(d)
           /\ WaitCmd(b) \notin Timepoints(d) /\ WaitCmd(b) \notin CommandsOf(d)
BY SMT DEF WaitCmd, IssueCmd, RetireCmd, Fence, Timepoint, Timepoints, Command, CommandsOf

\* Likewise for issue commands,
LEMMA IssueApart ==
    ASSUME NEW b, NEW d
    PROVE  /\ IssueCmd(b) = IssueCmd(d) => b = d
           /\ IssueCmd(b) # WaitCmd(d) /\ IssueCmd(b) # RetireCmd(d) /\ IssueCmd(b) # Fence(d)
           /\ IssueCmd(b) \notin Timepoints(d) /\ IssueCmd(b) \notin CommandsOf(d)
BY SMT DEF WaitCmd, IssueCmd, RetireCmd, Fence, Timepoint, Timepoints, Command, CommandsOf

\* retire commands,
LEMMA RetireApart ==
    ASSUME NEW b, NEW d
    PROVE  /\ RetireCmd(b) = RetireCmd(d) => b = d
           /\ RetireCmd(b) # WaitCmd(d) /\ RetireCmd(b) # IssueCmd(d) /\ RetireCmd(b) # Fence(d)
           /\ RetireCmd(b) \notin Timepoints(d) /\ RetireCmd(b) \notin CommandsOf(d)
BY SMT DEF WaitCmd, IssueCmd, RetireCmd, Fence, Timepoint, Timepoints, Command, CommandsOf

\* fences,
LEMMA FenceApart ==
    ASSUME NEW b, NEW d
    PROVE  /\ Fence(b) = Fence(d) => b = d
           /\ Fence(b) # WaitCmd(d) /\ Fence(b) # IssueCmd(d) /\ Fence(b) # RetireCmd(d)
           /\ Fence(b) \notin Timepoints(d) /\ Fence(b) \notin CommandsOf(d)
BY SMT DEF WaitCmd, IssueCmd, RetireCmd, Fence, Timepoint, Timepoints, Command, CommandsOf

\* timepoints,
LEMMA TimepointApart ==
    ASSUME NEW b, NEW d, NEW t \in Timepoints(b)
    PROVE  /\ t \in Timepoints(d) => b = d
           /\ t # WaitCmd(d) /\ t # IssueCmd(d) /\ t # RetireCmd(d) /\ t # Fence(d) /\ t \notin CommandsOf(d)
BY SMT DEF WaitCmd, IssueCmd, RetireCmd, Fence, Timepoint, Timepoints, Command, CommandsOf

\* whose waits tell them apart,
LEMMA TimepointInjective ==
    ASSUME NEW b, NEW v, NEW w, Timepoint(b, v) = Timepoint(b, w)
    PROVE  v = w
BY SMT DEF Timepoint

\* and recorded commands.
LEMMA CommandApart ==
    ASSUME NEW b, NEW d, NEW t \in CommandsOf(b)
    PROVE  /\ t \in CommandsOf(d) => b = d
           /\ t # WaitCmd(d) /\ t # IssueCmd(d) /\ t # RetireCmd(d) /\ t # Fence(d) /\ t \notin Timepoints(d)
BY SMT DEF WaitCmd, IssueCmd, RetireCmd, Fence, Timepoint, Timepoints, Command, CommandsOf

\* NoTask and the host threads are no tasks.
LEMMA NoTaskApart == NoTask \notin Tasks /\ \A u \in Users : u \notin Tasks /\ u # NoTask
BY QueueAssumption, Zenon

-----------------------------------------------------------------------------
\* What finite sets give: the subsets of U can be counted, and a set of indices
\* has a greatest element.  TaskQueueProofs proves both from the library.
Counting(U) ==
    \A S \in SUBSET U :
        /\ Cardinality(S) \in Nat
        /\ Cardinality(S) = 0 <=> S = {}
        /\ \A x \in S : Cardinality(S \ {x}) = Cardinality(S) - 1
        /\ \A x \in U \ S : Cardinality(S \cup {x}) = Cardinality(S) + 1
        /\ \A T \in SUBSET S : Cardinality(T) <= Cardinality(S)
        /\ \A T \in SUBSET U : Cardinality(S \cup T) <= Cardinality(S) + Cardinality(T)
Maxima == \A n \in Nat : \A S \in SUBSET (1 .. n) : S # {} => Max(S) \in S

\* A count is a number, and zero for the empty set only.
LEMMA CountOf ==
    ASSUME NEW U, Counting(U), NEW S \in SUBSET U
    PROVE  Cardinality(S) \in Nat /\ (Cardinality(S) = 0 <=> S = {})
BY Zenon DEF Counting

\* A part counts no more than the whole,
LEMMA CountPart ==
    ASSUME NEW U, Counting(U), NEW S \in SUBSET U, NEW T \in SUBSET S
    PROVE  T \in SUBSET U /\ Cardinality(T) \in Nat /\ Cardinality(T) <= Cardinality(S)
BY Zenon DEF Counting

\* one less without an element,
LEMMA CountLess ==
    ASSUME NEW U, Counting(U), NEW S \in SUBSET U, NEW x \in S
    PROVE  Cardinality(S \ {x}) = Cardinality(S) - 1
BY Zenon DEF Counting

\* one more with another,
LEMMA CountMore ==
    ASSUME NEW U, Counting(U), NEW S \in SUBSET U, NEW x \in U, x \notin S
    PROVE  Cardinality(S \cup {x}) = Cardinality(S) + 1
BY Zenon DEF Counting

\* and one for a single element.
LEMMA CountOne ==
    ASSUME NEW U, Counting(U), NEW x \in U
    PROVE  Cardinality({}) = 0 /\ Cardinality({x}) = 1
<1>1. Cardinality({}) = 0
  BY CountOf, Zenon
<1>2. Cardinality({} \cup {x}) = Cardinality({}) + 1
  BY CountMore, Zenon
<1>3. {} \cup {x} = {x}
  OBVIOUS
<1> QED
  BY <1>1, <1>2, <1>3

\* A count that grows by at most one stays within a bound that grows by one.
LEMMA OneMore ==
    ASSUME NEW p \in Nat, NEW n \in Nat, n <= p, NEW m, m = n \/ m = n + 1
    PROVE  m <= p + 1
BY SMT

-----------------------------------------------------------------------------
\* The tasks that complete into c under the links f.
Into(f, c) == {t \in Tasks : f[t] = c}

\* The tasks completing into one task can be counted.
LEMMA IntoCount ==
    ASSUME Counting(Tasks), NEW f, NEW c
    PROVE  Into(f, c) \in SUBSET Tasks /\ Cardinality(Into(f, c)) \in Nat
<1>1. Into(f, c) \in SUBSET Tasks
  BY Zenon DEF Into
<1> QED
  BY <1>1, CountOf, Zenon

\* A task that is the only one left.
LEMMA IntoAlone ==
    ASSUME Counting(Tasks), NEW f, NEW c, NEW t \in Into(f, c), Cardinality(Into(f, c)) <= 1
    PROVE  Into(f, c) = {t}
<1>1. Cardinality(Into(f, c) \ {t}) = Cardinality(Into(f, c)) - 1
  BY IntoCount, CountLess, Zenon
<1>2. Into(f, c) \ {t} \in SUBSET Tasks /\ Cardinality(Into(f, c) \ {t}) \in Nat
  <2>1. Into(f, c) \ {t} \in SUBSET Tasks
    BY IntoCount, Zenon
  <2> QED
    BY <2>1, CountOf, Zenon
<1>3. Cardinality(Into(f, c) \ {t}) = 0
  BY <1>1, <1>2, IntoCount, SMT
<1>4. Into(f, c) \ {t} = {}
  BY <1>2, <1>3, CountOf, Zenon
<1> QED
  BY <1>4, Zenon

\* A count of zero means that no task is left.
LEMMA IntoNone ==
    ASSUME Counting(Tasks), NEW f, NEW c, Cardinality(Into(f, c)) <= 0
    PROVE  Into(f, c) = {}
<1>1. Cardinality(Into(f, c)) = 0
  BY IntoCount, SMT
<1> QED
  BY <1>1, IntoCount, CountOf, Zenon

-----------------------------------------------------------------------------
\* A task has retired; a task is enqueued or running.
Finished(t) == stage[t] \in {"retired", "done"}
Live(t) == stage[t] \in {"local", "ready", "running"}

\* The tasks that complete into c.
Sources(c) == Into(completion, c)

\* What each kind of task may complete into.  An issue command, and with it the
\* commands it issues, completes into its retire command or, once chained, into
\* a later issue command.
Linked ==
    \A b \in Batches :
        /\ completion[WaitCmd(b)] \in {IssueCmd(b), NoTask}
        /\ \A t \in Timepoints(b) : completion[t] \in {IssueCmd(b), NoTask}
        /\ completion[IssueCmd(b)] \in {RetireCmd(b), NoTask} \cup Issues
        /\ \A t \in CommandsOf(b) : completion[t] \in {RetireCmd(b), NoTask} \cup Issues
        /\ completion[RetireCmd(b)] \in {Fence(b), NoTask}
        /\ completion[Fence(b)] = NoTask

\* A task's count covers every task that completes into it.  It may exceed them:
\* chaining takes a link away from a retire command and not from its count.
Counted == \A c \in Tasks : Cardinality(Sources(c)) <= pending[c]

\* Nothing completes into a task that has retired, or is not there yet.
FinishedFree == \A c \in Tasks : Finished(c) => Sources(c) = {}
AbsentFree ==
    \A c \in Tasks : stage[c] = "absent" => Sources(c) = {} /\ pending[c] = 0 /\ completion[c] = NoTask

\* The tasks nothing completes into never wait, and where timepoints and fences
\* can be.
Free ==
    \A b \in Batches :
        /\ pending[WaitCmd(b)] = 0 /\ stage[WaitCmd(b)] # "idle"
        /\ \A t \in Timepoints(b) : pending[t] = 0 /\ stage[t] \in {"absent", "local", "ready", "done"}
        /\ \A t \in CommandsOf(b) : pending[t] = 0 /\ stage[t] # "idle"
        /\ stage[Fence(b)] \in {"absent", "idle", "local", "ready", "done"}

\* A batch is built as a whole, with a wait command if it waits for something.
Built ==
    \A b \in Batches :
        /\ stage[IssueCmd(b)] = "absent" => \A t \in TasksOf(b) : stage[t] = "absent"
        /\ stage[IssueCmd(b)] # "absent" => stage[RetireCmd(b)] # "absent" /\ stage[Fence(b)] # "absent"
        /\ stage[WaitCmd(b)] = "absent" <=> (stage[IssueCmd(b)] = "absent" \/ Waits[b] = {})

\* While the wait command or a timepoint is at work the issue command has not
\* been enqueued, and the timepoints start when the wait command is done.
WaitPhase ==
    \A b \in Batches :
        /\ Live(WaitCmd(b)) => completion[WaitCmd(b)] = IssueCmd(b) /\ stage[IssueCmd(b)] = "idle"
        /\ \A t \in Timepoints(b) :
             /\ Live(t) => completion[t] = IssueCmd(b) /\ stage[IssueCmd(b)] = "idle"
             /\ stage[t] # "absent" => stage[WaitCmd(b)] \in {"running", "retired", "done"}
             /\ stage[t] \in {"ready", "done"} => Done(WaitCmd(b))
             /\ stage[t] = "local" => holder[t] = WaitCmd(b)

\* A wait that has no timepoint was satisfied, or could not be waited for; a
\* timepoint that is done was reached.
Waited ==
    \A b \in Batches : \A w \in Waits[b] :
        /\ stage[WaitCmd(b)] \in {"running", "retired", "done"} =>
              stage[Timepoint(b, w)] # "absent" \/ value[w[1]] >= w[2] \/ b \in faulted
        /\ Done(Timepoint(b, w)) => value[w[1]] >= w[2]

\* The wait command and all timepoints of b are over.
WaitsOver(b) ==
    Waits[b] = {} \/ (Finished(WaitCmd(b)) /\ \A t \in Timepoints(b) : stage[t] \in {"absent", "done"})

\* Commands are there once the waits are over, and an issue command that has
\* run has issued all of them.
Issued ==
    \A b \in Batches :
        /\ \A t \in CommandsOf(b) : stage[t] # "absent" => WaitsOver(b)
        /\ stage[IssueCmd(b)] \in {"running", "retired", "done"} => \A t \in CommandsOf(b) : stage[t] # "absent"

\* The retire command is enqueued after the issue command and all commands have
\* retired.  Until then either a count is lost, and it never will be, or the
\* issue command and whatever it issued still lead to it.
Gate ==
    \A b \in Batches :
        /\ stage[RetireCmd(b)] \notin {"absent", "idle"} =>
              /\ pending[RetireCmd(b)] = 0
              /\ Finished(IssueCmd(b)) /\ \A t \in CommandsOf(b) : Finished(t)
        /\ stage[RetireCmd(b)] = "idle" =>
              \/ Cardinality(Sources(RetireCmd(b))) < pending[RetireCmd(b)]
              \/ /\ completion[IssueCmd(b)] = RetireCmd(b) \/ Finished(IssueCmd(b))
                 /\ \A t \in CommandsOf(b) : Live(t) => completion[t] = RetireCmd(b)

\* The fence follows the retire command.
FenceLast ==
    \A b \in Batches :
        /\ Finished(RetireCmd(b)) => completion[RetireCmd(b)] = NoTask
        /\ stage[Fence(b)] = "local" => holder[Fence(b)] = RetireCmd(b) /\ Finished(RetireCmd(b))
        /\ stage[Fence(b)] \in {"ready", "done"} => Done(RetireCmd(b))

\* The submissions a queue's scope counts: batches whose fence has not retired,
\* and those whose fence was acquired and left behind.
Open(b) == stage[Fence(b)] \notin {"absent", "done"} \/ (b \in freed /\ stage[Fence(b)] = "absent")
ScopeExact == \A q \in Queues : scope[q] = Cardinality({b \in Batches : Queue[b] = q /\ Open(b)})

\* An arena goes with its retire command, or the batch was never built.
FreedLast == \A b \in freed : Done(RetireCmd(b)) \/ stage[IssueCmd(b)] = "absent"

\* The tail of a queue is an issue command of it that has not been cleaned up.
TailInFlight ==
    \A q \in Queues, b \in Batches :
        tail[q] = IssueCmd(b) => Queue[b] = q /\ stage[IssueCmd(b)] \notin {"absent", "done"}

\* The task a submission hands to the executor.
Root(b) == IF Waits[b] = {} THEN IssueCmd(b) ELSE WaitCmd(b)

\* Host thread u has built batch b and is about to chain it.
Chaining(u, b) == step[u] = "chain" /\ at[u] \in DOMAIN Programs[u] /\ Programs[u][at[u]] = <<"submit", b>>

\* Between building a batch and chaining it nobody else knows of it.
InCall ==
    \A u \in Users :
        /\ step[u] = "chain" => \E b \in Batches : Chaining(u, b)
        /\ \A b \in Batches : Chaining(u, b) =>
             /\ stage[Root(b)] = "local" /\ holder[Root(b)] = u /\ Sources(Root(b)) = {}
             /\ \A q \in Queues : tail[q] # IssueCmd(b)

\* Call i of host thread u has not been made.
Ahead(u, i) == i > at[u] \/ (i = at[u] /\ step[u] = "call")

\* A batch is not there before it is submitted.
Fresh ==
    \A u \in Users : \A i \in DOMAIN Programs[u], b \in Batches :
        Programs[u][i] = <<"submit", b>> /\ Ahead(u, i) => stage[IssueCmd(b)] = "absent" /\ b \notin freed

\* As long as nothing was chained: commands start when the issue command is
\* done, which starts when the wait command is done, and the retire command
\* starts when the issue command is done.
Apart ==
    chained = {} => \A b \in Batches :
        /\ completion[IssueCmd(b)] \in {RetireCmd(b), NoTask}
        /\ stage[IssueCmd(b)] # "idle" => pending[IssueCmd(b)] = 0
        /\ \A t \in CommandsOf(b) :
             /\ completion[t] \in {RetireCmd(b), NoTask}
             /\ stage[t] \in {"ready", "running", "retired", "done"} => Done(IssueCmd(b))
             /\ stage[t] = "local" => holder[t] = IssueCmd(b) /\ stage[IssueCmd(b)] \in {"running", "retired"}
        /\ Waits[b] # {} =>
             /\ stage[IssueCmd(b)] = "local" => holder[IssueCmd(b)] = WaitCmd(b) \/ Done(WaitCmd(b))
             /\ stage[IssueCmd(b)] \in {"ready", "running", "retired", "done"} => Done(WaitCmd(b))
        /\ stage[RetireCmd(b)] = "local" => holder[RetireCmd(b)] = IssueCmd(b) \/ Done(IssueCmd(b))
        /\ stage[RetireCmd(b)] \in {"ready", "running", "retired", "done"} => Done(IssueCmd(b))

\* The inductive invariant.
IInv ==
    /\ Counting(Tasks) /\ Counting(Batches) /\ Maxima
    /\ Typed
    /\ Linked /\ Counted /\ FinishedFree /\ AbsentFree
    /\ Free /\ Built
    /\ WaitPhase /\ Waited /\ Issued
    /\ Gate /\ FenceLast
    /\ ScopeExact /\ FreedLast /\ TailInFlight
    /\ InCall /\ Fresh
    /\ Apart

-----------------------------------------------------------------------------
\* What leads where, seen from the target.
LEMMA TargetKinds ==
    ASSUME Linked, NEW t \in Tasks, NEW b \in Batches
    PROVE  /\ completion[t] = RetireCmd(b) => t = IssueCmd(b) \/ t \in CommandsOf(b)
           /\ completion[t] = Fence(b) => t = RetireCmd(b)
           /\ completion[t] # WaitCmd(b)
           /\ completion[t] \notin Timepoints(b)
           /\ completion[t] \notin CommandsOf(b)
<1>1. PICK d \in Batches : \/ t = WaitCmd(d) \/ t \in Timepoints(d) \/ t = IssueCmd(d)
                          \/ t \in CommandsOf(d) \/ t = RetireCmd(d) \/ t = Fence(d)
  BY Kinds, Zenon
<1>2. NoTask # RetireCmd(b) /\ NoTask # Fence(b) /\ NoTask # WaitCmd(b) /\ NoTask \notin Timepoints(b) /\ NoTask \notin CommandsOf(b)
  BY NoTaskApart, Members, Zenon
<1>3. \A x \in Issues : x # RetireCmd(b) /\ x # Fence(b) /\ x # WaitCmd(b) /\ x \notin Timepoints(b) /\ x \notin CommandsOf(b)
  BY IssueApart DEF Issues
<1>4. IssueCmd(d) \in Issues
  BY Zenon DEF Issues
<1>5. CASE t = WaitCmd(d) \/ t \in Timepoints(d)
  <2>1. completion[t] \in {IssueCmd(d), NoTask}
    BY <1>5, Zenon DEF Linked
  <2> QED
    BY <1>2, <1>3, <1>4, <2>1, Zenon
<1>6. CASE t = IssueCmd(d) \/ t \in CommandsOf(d)
  <2>1. completion[t] \in {RetireCmd(d), NoTask} \cup Issues
    BY <1>6, Zenon DEF Linked
  <2>2. CASE completion[t] = RetireCmd(d)
    BY <1>6, <2>2, RetireApart
  <2> QED
    BY <1>2, <1>3, <2>1, <2>2, Zenon
<1>7. CASE t = RetireCmd(d)
  BY <1>2, <1>7, FenceApart DEF Linked
<1>8. CASE t = Fence(d)
  BY <1>2, <1>8, Zenon DEF Linked
<1> QED
  BY <1>1, <1>5, <1>6, <1>7, <1>8, Zenon

\* What the counts say about the last task that leads to c.
LEMMA Counts ==
    ASSUME Counting(Tasks), Typed, Counted, NEW t \in Tasks, NEW c \in Tasks, completion[t] = c
    PROVE  /\ t \in Sources(c)
           /\ pending[c] \in Nat /\ pending[c] >= 1
           /\ pending[c] = 1 => Sources(c) = {t}
           /\ Cardinality(Sources(c)) \in Nat /\ Cardinality(Sources(c)) >= 1
<1>1. t \in Into(completion, c)
  BY Zenon DEF Into
<1>2. pending[c] \in Nat /\ Cardinality(Into(completion, c)) <= pending[c]
  BY Zenon DEF Typed, Counted, Sources
<1>3. Cardinality(Into(completion, c)) \in Nat
  BY IntoCount, Zenon
<1>4. Cardinality(Into(completion, c)) # 0
  BY <1>1, IntoCount, CountOf, Zenon
<1>5. Cardinality(Into(completion, c)) >= 1 /\ pending[c] >= 1
  BY <1>2, <1>3, <1>4, SMT
<1>6. pending[c] = 1 => Into(completion, c) = {t}
  BY <1>1, <1>2, IntoAlone, Zenon
<1> QED
  BY <1>1, <1>2, <1>3, <1>5, <1>6, Zenon DEF Sources

\* A task that waits for nothing is the completion of no task.
LEMMA NoCounts ==
    ASSUME Counting(Tasks), Counted, NEW c \in Tasks, pending[c] = 0
    PROVE  Sources(c) = {}
BY IntoNone, Zenon DEF Counted, Sources

\* Without chaining only the wait command and the timepoints of its own batch
\* lead to an issue command.
LEMMA ApartTargets ==
    ASSUME Apart, Linked, chained = {}, NEW t \in Tasks, NEW b \in Batches, completion[t] = IssueCmd(b)
    PROVE  t = WaitCmd(b) \/ t \in Timepoints(b)
<1>1. PICK d \in Batches : \/ t = WaitCmd(d) \/ t \in Timepoints(d) \/ t = IssueCmd(d)
                          \/ t \in CommandsOf(d) \/ t = RetireCmd(d) \/ t = Fence(d)
  BY Kinds, Zenon
<1>2. IssueCmd(b) # NoTask
  BY NoTaskApart, Members, Zenon
<1>3. CASE t = WaitCmd(d) \/ t \in Timepoints(d)
  <2>1. completion[t] \in {IssueCmd(d), NoTask}
    BY <1>3, Zenon DEF Linked
  <2>2. b = d
    BY <1>2, <2>1, IssueApart, Zenon
  <2> QED
    BY <1>3, <2>2, Zenon
<1>4. CASE t = IssueCmd(d) \/ t \in CommandsOf(d)
  <2>1. completion[t] \in {RetireCmd(d), NoTask}
    BY <1>4, Zenon DEF Apart
  <2> QED
    BY <1>2, <2>1, IssueApart, Zenon
<1>5. CASE t = RetireCmd(d) \/ t = Fence(d)
  <2>1. completion[t] \in {Fence(d), NoTask}
    BY <1>5, Zenon DEF Linked
  <2> QED
    BY <1>2, <2>1, IssueApart, Zenon
<1> QED
  BY <1>1, <1>3, <1>4, <1>5, Zenon

-----------------------------------------------------------------------------
\* A task completes: t ends in stage e, and what it leads to loses a count and is
\* enqueued in stage r when that was the last one.  Calls retire; timepoints are
\* handled by the coordinator in one step.
Completes(t, e, r) ==
    /\ completion' = [completion EXCEPT ![t] = NoTask]
    /\ \A x \in Tasks : pending'[x] = IF x = completion[t] THEN pending[x] - 1 ELSE pending[x]
    /\ stage'[t] = e
    /\ \A x \in Tasks : x # t => \/ stage'[x] = stage[x] /\ holder'[x] = holder[x]
                                 \/ /\ x = completion[t] /\ pending[x] = 1
                                    /\ stage'[x] = r /\ (r = "local" => holder'[x] = t)
    /\ UNCHANGED <<value, tail, scope, at, step, freed, chained, faulted>>

Completing(t, e, r) ==
    \/ e = "retired" /\ r = "local" /\ stage[t] = "running" /\ pending[t] = 0
    \/ /\ e = "done" /\ r = "ready" /\ stage[t] = "ready"
       /\ \E b \in Batches : \E w \in Waits[b] : t = Timepoint(b, w) /\ value[w[1]] >= w[2]

\* The completion of a task keeps the invariant: what it does to each task and to
\* the counts, then the links, the order of waits and issue, the order of commands,
\* retire command and fence, what the queue and the host threads know, and the
\* stricter order that holds as long as nothing was chained.
LEMMA CompletesKeeps ==
    ASSUME IInv, Typed', NEW t \in Tasks, NEW e, NEW r, Completing(t, e, r), Completes(t, e, r)
    PROVE  IInv'
<1>1. /\ Sources(t) = {} /\ Live(t)
      /\ completion'[t] = NoTask
      /\ \A x \in Tasks : x # t => completion'[x] = completion[x]
      /\ \A x \in Tasks : x # t =>
            \/ stage'[x] = stage[x] /\ holder'[x] = holder[x]
            \/ /\ x = completion[t] /\ Sources(x) = {t} /\ pending[x] = 1 /\ pending'[x] = 0
               /\ stage[x] \notin {"absent", "retired", "done"}
               /\ stage'[x] = r /\ (r = "local" => holder'[x] = t)
      /\ \A x \in Tasks : stage'[x] = "absent" <=> stage[x] = "absent"
      /\ \A x \in Tasks : Finished(x) => stage'[x] = stage[x]
      /\ (e = "retired" /\ r = "local" /\ stage[t] = "running") \/ (e = "done" /\ r = "ready" /\ stage[t] = "ready")
      /\ \A x \in Tasks : x # completion[t] => pending'[x] = pending[x]
  <2> USE DEF IInv
  <2>1. pending[t] = 0
    BY Members, Zenon DEF Completing, Free
  <2>2. Sources(t) = {}
    BY <2>1, NoCounts, Zenon
  <2>3. stage[t] \in {"running", "ready"}
    BY Zenon DEF Completing
  <2>4. completion'[t] = NoTask /\ \A x \in Tasks : x # t => completion'[x] = completion[x]
    BY Zenon DEF Completes, Typed
  <2>5. ASSUME NEW x \in Tasks, x # t, x = completion[t]
        PROVE  /\ t \in Sources(x) /\ stage[x] \notin {"absent", "retired", "done"}
               /\ pending[x] = 1 => Sources(x) = {t} /\ pending'[x] = 0
    <3>1. t \in Sources(x) /\ (pending[x] = 1 => Sources(x) = {t})
      BY <2>5, Counts, Zenon
    <3>2. stage[x] \notin {"absent", "retired", "done"}
      BY <3>1, Zenon DEF AbsentFree, FinishedFree, Finished
    <3>3. pending[x] = 1 => pending'[x] = 0
      BY <2>5 DEF Completes
    <3> QED
      BY <3>1, <3>2, <3>3, Zenon
  <2>6. \A x \in Tasks : x # t =>
           \/ stage'[x] = stage[x] /\ holder'[x] = holder[x]
           \/ /\ x = completion[t] /\ Sources(x) = {t} /\ pending[x] = 1 /\ pending'[x] = 0
              /\ stage[x] \notin {"absent", "retired", "done"}
              /\ stage'[x] = r /\ (r = "local" => holder'[x] = t)
    BY <2>5, Zenon DEF Completes
  <2>7. (e = "retired" /\ r = "local" /\ stage[t] = "running") \/ (e = "done" /\ r = "ready" /\ stage[t] = "ready")
    BY Zenon DEF Completing
  <2>8. stage'[t] = e
    BY Zenon DEF Completes
  <2>9. \A x \in Tasks : stage'[x] = "absent" <=> stage[x] = "absent"
    BY <2>6, <2>7, <2>8, Zenon
  <2>10. \A x \in Tasks : Finished(x) => stage'[x] = stage[x]
    BY <2>3, <2>6, Zenon DEF Finished
  <2>11. \A x \in Tasks : x # completion[t] => pending'[x] = pending[x]
    BY Zenon DEF Completes
  <2>12. Live(t)
    BY <2>3, Zenon DEF Live
  <2> QED
    BY <2>2, <2>4, <2>6, <2>7, <2>9, <2>10, <2>11, <2>12, Zenon
<1>2. ASSUME NEW x \in Tasks
      PROVE  /\ completion[t] # x => Sources(x)' = Sources(x) /\ pending'[x] = pending[x]
             /\ completion[t] = x => /\ Sources(x)' = Sources(x) \ {t}
                                     /\ Cardinality(Sources(x)') = Cardinality(Sources(x)) - 1
                                     /\ pending'[x] = pending[x] - 1
  <2>1. completion'[t] = NoTask
    BY <1>1, Zenon
  <2>2. \A y \in Tasks : y # t => completion'[y] = completion[y]
    BY <1>1, Zenon
  <2>3. completion[t] # x => Into(completion', x) = Into(completion, x)
    BY <2>1, <2>2, NoTaskApart, Zenon DEF Into
  <2>6. Counting(Tasks) /\ t \in Tasks
    BY <1>1, Zenon DEF IInv
  <2>4. ASSUME completion[t] = x
        PROVE  /\ Into(completion', x) = Into(completion, x) \ {t}
               /\ Cardinality(Into(completion', x)) = Cardinality(Into(completion, x)) - 1
    <3>1. Into(completion', x) = Into(completion, x) \ {t} /\ t \in Into(completion, x)
      BY <2>1, <2>2, <2>4, <2>6, NoTaskApart, Zenon DEF Into
    <3>2. Cardinality(Into(completion, x) \ {t}) = Cardinality(Into(completion, x)) - 1
      BY <2>6, <3>1, IntoCount, CountLess, Zenon
    <3> QED
      BY <3>1, <3>2, Zenon
  <2>5. pending'[x] = IF x = completion[t] THEN pending[x] - 1 ELSE pending[x]
    BY Zenon DEF Completes
  <2> QED
    BY <2>3, <2>4, <2>5, Zenon DEF Sources
<1>3. Linked' /\ Counted' /\ FinishedFree' /\ AbsentFree'
  <2> USE DEF IInv
  <2>1. completion'[t] = NoTask /\ \A x \in Tasks : x # t => completion'[x] = completion[x]
    BY <1>1, Zenon
  <2>2. Linked'
    BY <2>1, Members, Zenon DEF Linked
  <2>4. Sources(t) = {}
    BY <1>1, Zenon
  <2>7. Counted'
    <3> SUFFICES ASSUME NEW x \in Tasks PROVE Cardinality(Sources(x)') <= pending'[x]
      BY Zenon DEF Counted
    <3>1. Cardinality(Sources(x)) <= pending[x] /\ pending[x] \in Nat /\ Cardinality(Sources(x)) \in Nat
      BY IntoCount, Zenon DEF Counted, Sources, Typed
    <3>2. CASE completion[t] # x
      BY <3>1, <3>2, <1>2, Zenon
    <3>3. CASE completion[t] = x
      <4>1. Cardinality(Sources(x)') = Cardinality(Sources(x)) - 1 /\ pending'[x] = pending[x] - 1
        BY <3>3, <1>2, Zenon
      <4> QED
        BY <3>1, <4>1, SMT
    <3> QED
      BY <3>2, <3>3, Zenon
  <2>8. \A x \in Tasks : Sources(x) = {} => Sources(x)' = {}
    BY <1>2, Zenon
  <2>9. FinishedFree'
    <3> SUFFICES ASSUME NEW x \in Tasks, Finished(x)' PROVE Sources(x)' = {}
      BY Zenon DEF FinishedFree
    <3>1. x = t \/ Finished(x)
      BY <1>1, Zenon DEF Finished
    <3> QED
      BY <2>4, <2>8, <3>1, Zenon DEF FinishedFree
  <2>10. AbsentFree'
    <3> SUFFICES ASSUME NEW x \in Tasks, stage'[x] = "absent" PROVE Sources(x)' = {} /\ pending'[x] = 0 /\ completion'[x] = NoTask
      BY Zenon DEF AbsentFree
    <3>1. stage[x] = "absent"
      BY <1>1, Zenon
    <3>2. Sources(x) = {} /\ pending[x] = 0 /\ completion[x] = NoTask
      BY <3>1, Zenon DEF AbsentFree
    <3>3. x # completion[t]
      BY <3>2, Counts, Zenon
    <3>4. pending'[x] = 0
      BY <3>2, <3>3, Zenon DEF Completes
    <3> QED
      BY <2>1, <2>8, <3>2, <3>4, Zenon
  <2> QED
    BY <2>2, <2>7, <2>9, <2>10, Zenon
<1>4. Free' /\ Built' /\ WaitPhase' /\ Waited' /\ Issued'
  <2> USE DEF IInv
  <2>1. \A b \in Batches : /\ completion[t] # WaitCmd(b) /\ completion[t] \notin Timepoints(b)
                           /\ completion[t] \notin CommandsOf(b)
    BY TargetKinds, Zenon
  <2>2. \A x \in Tasks : x # t /\ x # completion[t] => stage'[x] = stage[x] /\ holder'[x] = holder[x]
    BY Zenon DEF Completes
  <2>3. stage'[t] = e
    BY Zenon DEF Completes
  <2>4. (e = "retired" /\ r = "local" /\ stage[t] = "running") \/ (e = "done" /\ r = "ready" /\ stage[t] = "ready")
    BY <1>1, Zenon
  <2>5. \A b \in Batches : \A x \in Timepoints(b) : x = t => e = "done" /\ stage[t] = "ready"
    BY <2>4, Members, Zenon DEF Free
  <2>6. \A b \in Batches : WaitCmd(b) = t => e = "retired" /\ stage[t] = "running"
    <3> SUFFICES ASSUME NEW b \in Batches, WaitCmd(b) = t PROVE e # "done"
      BY <2>4, Zenon
    <3> QED
      BY WaitApart, Members DEF Completing
  <2>7. Free'
    <3> SUFFICES ASSUME NEW b \in Batches
                 PROVE  /\ pending'[WaitCmd(b)] = 0 /\ stage'[WaitCmd(b)] # "idle"
                        /\ \A x \in Timepoints(b) : pending'[x] = 0 /\ stage'[x] \in {"absent", "local", "ready", "done"}
                        /\ \A x \in CommandsOf(b) : pending'[x] = 0 /\ stage'[x] # "idle"
                        /\ stage'[Fence(b)] \in {"absent", "idle", "local", "ready", "done"}
      BY Zenon DEF Free
    <3>1. \A x \in Tasks : x # completion[t] => pending'[x] = pending[x]
      BY <1>1, Zenon
    <3>2. pending'[WaitCmd(b)] = 0 /\ stage'[WaitCmd(b)] # "idle"
      BY <2>1, <2>2, <2>3, <2>4, <3>1, Members, Zenon DEF Free
    <3>3. \A x \in Timepoints(b) : pending'[x] = 0 /\ stage'[x] \in {"absent", "local", "ready", "done"}
      BY <2>1, <2>2, <2>3, <2>5, <3>1, Members, ZenonT(60) DEF Free
    <3>4. \A x \in CommandsOf(b) : pending'[x] = 0 /\ stage'[x] # "idle"
      BY <2>1, <2>2, <2>3, <2>4, <3>1, Members, ZenonT(60) DEF Free
    <3>5. Fence(b) # t
      BY <2>4, FenceApart, Members, SMTT(60) DEF Free, Completing
    <3>6. stage'[Fence(b)] \in {"absent", "idle", "local", "ready", "done"}
      BY <2>4, <3>5, <1>1, Members, Zenon DEF Free
    <3> QED
      BY <3>2, <3>3, <3>4, <3>6, Zenon
  <2>8. Built'
    <3>1. \A x \in Tasks : stage'[x] = "absent" <=> stage[x] = "absent"
      BY <1>1, Zenon
    <3> QED
      BY <3>1, Members, Zenon DEF Built
  <2>9. WaitPhase'
    <3> SUFFICES ASSUME NEW b \in Batches
                 PROVE  /\ Live(WaitCmd(b))' => completion'[WaitCmd(b)] = IssueCmd(b) /\ stage'[IssueCmd(b)] = "idle"
                        /\ \A x \in Timepoints(b) :
                             /\ Live(x)' => completion'[x] = IssueCmd(b) /\ stage'[IssueCmd(b)] = "idle"
                             /\ stage'[x] # "absent" => stage'[WaitCmd(b)] \in {"running", "retired", "done"}
                             /\ stage'[x] \in {"ready", "done"} => Done(WaitCmd(b))'
                             /\ stage'[x] = "local" => holder'[x] = WaitCmd(b)
      BY Zenon DEF WaitPhase
    <3>1. ASSUME NEW x \in Tasks, x = WaitCmd(b) \/ x \in Timepoints(b), Live(x)'
          PROVE  completion'[x] = IssueCmd(b) /\ stage'[IssueCmd(b)] = "idle"
      <4>1. x # t
        BY <2>3, <2>4, <3>1, Zenon DEF Live
      <4>2. Live(x)
        BY <2>1, <2>2, <3>1, <4>1, Zenon DEF Live
      <4>3. completion[x] = IssueCmd(b) /\ stage[IssueCmd(b)] = "idle"
        BY <3>1, <4>2, Zenon DEF WaitPhase
      <4>4. completion'[x] = IssueCmd(b)
        BY <3>1, <4>1, <4>3, <1>1, Zenon
      <4>5. IssueCmd(b) \in Tasks /\ x \in Sources(IssueCmd(b))
        BY <4>3, Members, Zenon DEF Sources, Into
      <4>6. IssueCmd(b) # t
        BY <2>4, <4>3, Zenon
      <4>7. Sources(IssueCmd(b)) # {t}
        BY <4>1, <4>5, ZenonT(60)
      <4>8. stage'[IssueCmd(b)] = "idle"
        BY <4>3, <4>5, <4>6, <4>7, <1>1, Zenon
      <4> QED
        BY <4>4, <4>8, Zenon
    <3>2. stage[WaitCmd(b)] \in {"running", "retired", "done"} => stage'[WaitCmd(b)] \in {"running", "retired", "done"}
      BY <2>1, <2>2, <2>3, <2>6, Members, Zenon
    <3>3. Done(WaitCmd(b)) => Done(WaitCmd(b))'
      BY <1>1, Members, Zenon DEF Done, Finished
    <3>4. ASSUME NEW x \in Timepoints(b)
          PROVE  /\ stage'[x] # "absent" => stage'[WaitCmd(b)] \in {"running", "retired", "done"}
                 /\ stage'[x] \in {"ready", "done"} => Done(WaitCmd(b))'
                 /\ stage'[x] = "local" => holder'[x] = WaitCmd(b)
      <4>1. x \in Tasks
        BY Members, ZenonT(60)
      <4>2. CASE x = t
        BY <2>3, <2>5, <3>2, <3>3, <4>2, Zenon DEF WaitPhase
      <4>3. CASE x # t
        BY <2>1, <2>2, <3>2, <3>3, <4>1, <4>3, ZenonT(60) DEF WaitPhase
      <4> QED
        BY <4>2, <4>3, Zenon
    <3> QED
      BY <3>1, <3>4, Members, Zenon
  <2>10. \A b \in Batches : Finished(WaitCmd(b)) => Finished(WaitCmd(b))'
    BY <1>1, Members, ZenonT(60) DEF Finished
  <2>11. \A b \in Batches : \A x \in Timepoints(b) : stage[x] \in {"absent", "done"} => stage'[x] = stage[x]
    BY <2>1, <2>2, <2>5, Members, Zenon
  <2>12. Waited'
    <3> SUFFICES ASSUME NEW b \in Batches, NEW w \in Waits[b]
                 PROVE  /\ stage'[WaitCmd(b)] \in {"running", "retired", "done"} =>
                              stage'[Timepoint(b, w)] # "absent" \/ value[w[1]] >= w[2] \/ b \in faulted
                        /\ Done(Timepoint(b, w))' => value[w[1]] >= w[2]
      BY Zenon DEF Waited, Completes
    <3>1. Timepoint(b, w) \in Timepoints(b) /\ Timepoint(b, w) \in Tasks
      BY Members, ZenonT(60)
    <3>2. stage'[WaitCmd(b)] \in {"running", "retired", "done"} => stage[WaitCmd(b)] \in {"running", "retired", "done"}
      BY <2>1, <2>2, <2>3, <2>6, Members, Zenon
    <3>3. stage'[Timepoint(b, w)] = "absent" <=> stage[Timepoint(b, w)] = "absent"
      BY <3>1, <1>1, Zenon
    <3>4. CASE Timepoint(b, w) = t
      <4>1. value[w[1]] >= w[2]
        <5>1. PICK d \in Batches : \E v \in Waits[d] : t = Timepoint(d, v) /\ value[v[1]] >= v[2]
          BY <2>5, <3>1, <3>4, Zenon DEF Completing
        <5>2. PICK v \in Waits[d] : t = Timepoint(d, v) /\ value[v[1]] >= v[2]
          BY <5>1, Zenon
        <5>3. t \in Timepoints(d) /\ t \in Timepoints(b)
          BY <3>1, <3>4, <5>2, Members, Zenon
        <5>4. d = b
          BY <5>3, TimepointApart, Zenon
        <5>5. v = w
          BY <3>4, <5>2, <5>4, TimepointInjective, Zenon
        <5> QED
          BY <5>2, <5>5, ZenonT(60)
      <4> QED
        BY <4>1, Zenon
    <3>5. CASE Timepoint(b, w) # t
      BY <2>1, <2>2, <3>1, <3>2, <3>3, <3>5, ZenonT(60) DEF Waited, Done
    <3> QED
      BY <3>4, <3>5, Zenon
  <2>13. Issued'
    <3> SUFFICES ASSUME NEW b \in Batches
                 PROVE  /\ \A x \in CommandsOf(b) : stage'[x] # "absent" => WaitsOver(b)'
                        /\ stage'[IssueCmd(b)] \in {"running", "retired", "done"} => \A x \in CommandsOf(b) : stage'[x] # "absent"
      BY Zenon DEF Issued
    <3>1. WaitsOver(b) => WaitsOver(b)'
      BY <2>10, <2>11, Zenon DEF WaitsOver
    <3>2. \A x \in CommandsOf(b) : stage'[x] = "absent" <=> stage[x] = "absent"
      BY <1>1, Members, Zenon
    <3>3. stage'[IssueCmd(b)] \in {"running", "retired", "done"} => stage[IssueCmd(b)] \in {"running", "retired", "done"}
      <4>1. IssueCmd(b) \in Tasks
        BY Members, ZenonT(60)
      <4>2. CASE IssueCmd(b) = t
        BY <2>4, <4>2, IssueApart, Members, SMTT(60) DEF Completing
      <4>3. CASE IssueCmd(b) # t
        BY <2>4, <4>1, <4>3, <1>1, Zenon
      <4> QED
        BY <4>2, <4>3, Zenon
    <3> QED
      BY <3>1, <3>2, <3>3, Zenon DEF Issued
  <2> QED
    BY <2>7, <2>8, <2>9, <2>12, <2>13, Zenon
<1>5. Gate' /\ FenceLast'
  <2> USE DEF IInv
  <2>1. (e = "retired" /\ r = "local" /\ stage[t] = "running") \/ (e = "done" /\ r = "ready" /\ stage[t] = "ready")
    BY <1>1, Zenon
  <2>2. stage'[t] = e
    BY Zenon DEF Completes
  <2>3. e = "done" => \E d \in Batches : t \in Timepoints(d)
    BY Members, Zenon DEF Completing
  <2>4. \A b \in Batches : t = IssueCmd(b) \/ t \in CommandsOf(b) \/ t = RetireCmd(b) => e = "retired"
    BY <2>1, <2>3, TimepointApart, Zenon
  <2>5. \A x \in Tasks : Finished(x) => Finished(x)'
    BY <1>1, Zenon DEF Finished
  <2>6. e = "retired" => Finished(t)'
    BY <2>2, Zenon DEF Finished
  <2>7. ~Live(t)'
    BY <2>1, <2>2, Zenon DEF Live
  <2>8. \A x \in Tasks : x # t /\ completion[t] # x => stage'[x] = stage[x]
    BY Zenon DEF Completes
  <2>12. \A x \in Tasks : x # t => completion'[x] = completion[x]
    BY <1>1, Zenon
  <2>9. \A b \in Batches : \A x \in CommandsOf(b) : Live(x)' => x # t /\ Live(x) /\ completion'[x] = completion[x]
    <3> SUFFICES ASSUME NEW b \in Batches, NEW x \in CommandsOf(b), Live(x)' PROVE x # t /\ Live(x) /\ completion'[x] = completion[x]
      BY Zenon
    <3>1. x \in Tasks /\ x # t /\ completion[t] # x
      BY <2>7, TargetKinds, Members
    <3>2. completion'[x] = completion[x]
      BY <3>1, <2>12, Zenon
    <3> QED
      BY <2>8, <3>1, <3>2, Zenon DEF Live
  <2>10. Gate'
    <3> SUFFICES ASSUME NEW b \in Batches
                 PROVE  /\ stage'[RetireCmd(b)] \notin {"absent", "idle"} =>
                              /\ pending'[RetireCmd(b)] = 0
                              /\ Finished(IssueCmd(b))' /\ \A x \in CommandsOf(b) : Finished(x)'
                        /\ stage'[RetireCmd(b)] = "idle" =>
                              \/ Cardinality(Sources(RetireCmd(b))') < pending'[RetireCmd(b)]
                              \/ /\ completion'[IssueCmd(b)] = RetireCmd(b) \/ Finished(IssueCmd(b))'
                                 /\ \A x \in CommandsOf(b) : Live(x)' => completion'[x] = RetireCmd(b)
      BY Zenon DEF Gate
    <3> DEFINE R == RetireCmd(b)
    <3>1. R \in Tasks /\ IssueCmd(b) \in Tasks /\ \A x \in CommandsOf(b) : x \in Tasks
      BY Members, Zenon
    <3>2. ASSUME stage[R] \notin {"absent", "idle"}
          PROVE  pending'[R] = 0 /\ Finished(IssueCmd(b))' /\ \A x \in CommandsOf(b) : Finished(x)'
      <4>1. pending[R] = 0 /\ Finished(IssueCmd(b)) /\ \A x \in CommandsOf(b) : Finished(x)
        BY <3>2, Zenon DEF Gate
      <4>2. completion[t] # R
        BY <3>1, <4>1, Counts
      <4>3. pending'[R] = 0
        BY <3>1, <4>1, <4>2, <1>2, Zenon
      <4> QED
        BY <2>5, <3>1, <4>1, <4>3, Zenon
    <3>3. ASSUME stage[R] = "idle", stage'[R] \notin {"absent", "idle"}
          PROVE  pending'[R] = 0 /\ Finished(IssueCmd(b))' /\ \A x \in CommandsOf(b) : Finished(x)'
      <4>1. R # t
        BY <2>1, <3>3, Zenon
      <4>2. R = completion[t] /\ Sources(R) = {t} /\ pending[R] = 1 /\ pending'[R] = 0
        BY <3>1, <3>3, <4>1, <1>1, ZenonT(60)
      <4>3. t = IssueCmd(b) \/ t \in CommandsOf(b)
        BY <4>2, TargetKinds, Zenon
      <4>4. Finished(t)'
        BY <2>4, <2>6, <4>3, Zenon
      <4>5. Cardinality(Sources(R)) = 1
        BY <4>2, CountOne, ZenonT(60)
      <4>12. ~(Cardinality(Sources(R)) < pending[R])
        <5> HIDE DEF R
        <5> QED
          BY <4>2, <4>5
      <4>6. /\ completion[IssueCmd(b)] = R \/ Finished(IssueCmd(b))
            /\ \A x \in CommandsOf(b) : Live(x) => completion[x] = R
        BY <3>3, <4>12, Zenon DEF Gate
      <4>7. IssueCmd(b) = t \/ Finished(IssueCmd(b))
        BY <3>1, <4>2, <4>6, Zenon DEF Sources, Into
      <4>8. \A x \in CommandsOf(b) : Live(x) => x = t
        BY <3>1, <4>2, <4>6, Zenon DEF Sources, Into
      <4>9. IssueCmd(b) = t => stage[IssueCmd(b)] = "running"
        BY <2>1, <2>4, Zenon
      <4>10. \A x \in CommandsOf(b) : stage[x] # "absent"
        BY <4>7, <4>9, ZenonT(60) DEF Issued, Finished
      <4>11. \A x \in CommandsOf(b) : Live(x) \/ Finished(x)
        BY <3>1, <4>10, ZenonT(60) DEF Free, Typed, Stages, Live, Finished
      <4> QED
        BY <2>5, <3>1, <4>2, <4>4, <4>7, <4>8, <4>11, Zenon
    <3>4. ASSUME stage'[R] = "idle"
          PROVE  \/ Cardinality(Sources(R)') < pending'[R]
                 \/ /\ completion'[IssueCmd(b)] = R \/ Finished(IssueCmd(b))'
                    /\ \A x \in CommandsOf(b) : Live(x)' => completion'[x] = R
      <4>1. R # t
        BY <2>1, <2>2, <3>4, Zenon
      <4>2. stage[R] = "idle"
        BY <2>1, <3>1, <3>4, <4>1, <1>1, Zenon
      <4>3. CASE Cardinality(Sources(R)) < pending[R]
        <5>1. Cardinality(Sources(R)) \in Nat /\ pending[R] \in Nat
          BY <3>1, IntoCount, Zenon DEF Sources, Typed
        <5>2. CASE completion[t] # R
          BY <3>1, <4>3, <5>2, <1>2, ZenonT(60)
        <5>3. CASE completion[t] = R
          <6>1. Cardinality(Sources(R)') = Cardinality(Sources(R)) - 1 /\ pending'[R] = pending[R] - 1
            BY <3>1, <5>3, <1>2, Zenon
          <6> QED
            BY <4>3, <5>1, <6>1, SMTT(60)
        <5> QED
          BY <5>2, <5>3, Zenon
      <4>4. CASE /\ completion[IssueCmd(b)] = R \/ Finished(IssueCmd(b))
                 /\ \A x \in CommandsOf(b) : Live(x) => completion[x] = R
        <5>1. IssueCmd(b) = t => Finished(IssueCmd(b))'
          BY <2>4, <2>6, Zenon
        <5>2. IssueCmd(b) # t => completion'[IssueCmd(b)] = completion[IssueCmd(b)]
          BY <3>1, <2>12, Zenon
        <5>3. completion'[IssueCmd(b)] = R \/ Finished(IssueCmd(b))'
          BY <2>5, <3>1, <4>4, <5>1, <5>2, Zenon
        <5> QED
          BY <2>9, <4>4, <5>3, Zenon
      <4> QED
        BY <4>2, <4>3, <4>4, ZenonT(60) DEF Gate
    <3>5. stage[R] = "absent" => stage'[R] = "absent"
      BY <3>1, <1>1, Zenon
    <3> QED
      BY <3>2, <3>3, <3>4, <3>5, Zenon
  <2>11. FenceLast'
    <3> SUFFICES ASSUME NEW b \in Batches
                 PROVE  /\ Finished(RetireCmd(b))' => completion'[RetireCmd(b)] = NoTask
                        /\ stage'[Fence(b)] = "local" => holder'[Fence(b)] = RetireCmd(b) /\ Finished(RetireCmd(b))'
                        /\ stage'[Fence(b)] \in {"ready", "done"} => Done(RetireCmd(b))'
      BY Zenon DEF FenceLast
    <3>1. Fence(b) \in Tasks /\ RetireCmd(b) \in Tasks
      BY Members, Zenon
    <3>6. Finished(RetireCmd(b))' => completion'[RetireCmd(b)] = NoTask
      <4>1. CASE RetireCmd(b) = t
        BY <4>1, <1>1, Zenon
      <4>2. CASE RetireCmd(b) # t
        <5>1. Finished(RetireCmd(b))' => Finished(RetireCmd(b))
          BY <2>1, <3>1, <4>2, <1>1, Zenon DEF Finished
        <5> QED
          BY <2>12, <3>1, <4>2, <5>1, ZenonT(60) DEF FenceLast
      <4> QED
        BY <4>1, <4>2, Zenon
    <3>2. Fence(b) # t
      BY <2>1, <2>3, FenceApart DEF Free
    <3>3. Done(RetireCmd(b)) => Done(RetireCmd(b))'
      BY <3>1, <1>1, ZenonT(60) DEF Done, Finished
    <3>4. CASE Fence(b) = completion[t]
      <4>1. t = RetireCmd(b)
        BY <3>4, TargetKinds, Zenon
      <4>2. r = "local" /\ Finished(RetireCmd(b))'
        BY <2>1, <2>4, <2>6, <4>1, Zenon
      <4>3. ~Finished(t)
        BY <2>1, <2>4, <4>1, Zenon DEF Finished
      <4>4. stage[Fence(b)] \notin {"local", "ready", "done"}
        BY <4>1, <4>3, Zenon DEF FenceLast, Finished, Done
      <4> QED
        BY <3>1, <3>2, <3>4, <4>1, <4>2, <4>4, <1>1, Zenon
    <3>5. CASE Fence(b) # completion[t]
      <4>1. stage'[Fence(b)] = stage[Fence(b)] /\ holder'[Fence(b)] = holder[Fence(b)]
        BY <3>1, <3>2, <3>5, Zenon DEF Completes
      <4> QED
        BY <2>5, <3>1, <3>3, <3>6, <4>1, ZenonT(60) DEF FenceLast
    <3> QED
      BY <3>4, <3>5, <3>6, Zenon
  <2> QED
    BY <2>10, <2>11, ZenonT(60)
<1>6. ScopeExact' /\ FreedLast' /\ TailInFlight' /\ InCall' /\ Fresh'
  <2> USE DEF IInv
  <2>1. (e = "retired" /\ r = "local" /\ stage[t] = "running") \/ (e = "done" /\ r = "ready" /\ stage[t] = "ready")
    BY <1>1, Zenon
  <2>2. stage'[t] = e
    BY Zenon DEF Completes
  <2>3. e = "done" => \E d \in Batches : t \in Timepoints(d)
    BY Members DEF Completing
  <2>4. UNCHANGED <<tail, scope, at, step, freed>>
    BY Zenon DEF Completes
  <2>5. \A x \in Tasks : stage'[x] = "absent" <=> stage[x] = "absent"
    BY <1>1, Zenon
  <2>6. ASSUME NEW x \in Tasks, \A d \in Batches : x \notin Timepoints(d)
        PROVE  stage'[x] = "done" <=> stage[x] = "done"
    <3>1. CASE x = t
      BY <2>1, <2>2, <2>3, <2>6, <3>1, Zenon
    <3>2. CASE x # t
      BY <2>1, <3>2, <1>1, Zenon
    <3> QED
      BY <3>1, <3>2, Zenon
  <2>7. \A b \in Batches : Open(b)' <=> Open(b)
    <3> SUFFICES ASSUME NEW b \in Batches PROVE Open(b)' <=> Open(b)
      BY Zenon
    <3>1. Fence(b) \in Tasks /\ \A d \in Batches : Fence(b) \notin Timepoints(d)
      BY Members, FenceApart, ZenonT(60)
    <3>2. stage'[Fence(b)] \in {"absent", "done"} <=> stage[Fence(b)] \in {"absent", "done"}
      BY <2>5, <2>6, <3>1, Zenon
    <3> QED
      BY <2>4, <2>5, <3>1, <3>2, Zenon DEF Open
  <2>8. ScopeExact'
    BY <2>4, <2>7, Zenon DEF ScopeExact
  <2>9. FreedLast'
    <3>1. \A b \in Batches : Done(RetireCmd(b)) => Done(RetireCmd(b))'
      BY <1>1, Members, Zenon DEF Done, Finished
    <3> QED
      BY <2>4, <2>5, <3>1, Members, Zenon DEF FreedLast, Typed
  <2>10. TailInFlight'
    <3>1. \A b \in Batches : stage'[IssueCmd(b)] \in {"absent", "done"} <=> stage[IssueCmd(b)] \in {"absent", "done"}
      <4> SUFFICES ASSUME NEW b \in Batches
                   PROVE  stage'[IssueCmd(b)] \in {"absent", "done"} <=> stage[IssueCmd(b)] \in {"absent", "done"}
        BY Zenon
      <4>1. IssueCmd(b) \in Tasks /\ \A d \in Batches : IssueCmd(b) \notin Timepoints(d)
        BY Members, IssueApart, Zenon
      <4> QED
        BY <2>5, <2>6, <4>1
    <3> QED
      BY <2>4, <3>1, Zenon DEF TailInFlight
  <2>11. InCall'
    <3>1. \A u \in Users, b \in Batches : Chaining(u, b)' <=> Chaining(u, b)
      BY <2>4, Zenon DEF Chaining
    <3>2. ASSUME NEW u \in Users, NEW b \in Batches, Chaining(u, b)
          PROVE  stage'[Root(b)] = "local" /\ holder'[Root(b)] = u /\ Sources(Root(b))' = {}
      <4>1. stage[Root(b)] = "local" /\ holder[Root(b)] = u /\ Sources(Root(b)) = {}
        BY <3>2, Zenon DEF InCall
      <4>2. Root(b) \in Tasks
        BY Members, Zenon DEF Root
      <4>3. Root(b) # t
        BY <2>1, <4>1, Zenon
      <4>4. completion[t] # Root(b)
        BY <4>1, <4>2, Zenon DEF Sources, Into
      <4>5. Sources(Root(b))' = {}
        BY <4>1, <4>2, <4>4, <1>2, Zenon DEF Sources, Root
      <4> QED
        BY <4>1, <4>2, <4>3, <4>4, <4>5, Zenon DEF Completes
    <3>3. \A u \in Users : step'[u] = "chain" => \E b \in Batches : Chaining(u, b)'
      BY <2>4, <3>1, Zenon DEF InCall
    <3>4. ASSUME NEW u \in Users, NEW b \in Batches, Chaining(u, b)'
          PROVE  /\ (stage[Root(b)] = "local" /\ holder[Root(b)] = u /\ Sources(Root(b)) = {})'
                 /\ \A q \in Queues : tail'[q] # IssueCmd(b)
      <4>1. Chaining(u, b)
        BY <3>1, <3>4, Zenon
      <4>2. \A q \in Queues : tail'[q] # IssueCmd(b)
        BY <2>4, <4>1, ZenonT(60) DEF InCall
      <4> QED
        BY <3>2, <4>1, <4>2, Zenon DEF Root
    <3> QED
      BY <3>3, <3>4, Zenon DEF InCall
  <2>12. Fresh'
    BY <2>4, <2>5, Members, Zenon DEF Fresh, Ahead
  <2> QED
    BY <2>8, <2>9, <2>10, <2>11, <2>12, ZenonT(60)
<1>7. Apart'
  <2> USE DEF IInv
  <2> SUFFICES ASSUME chained = {}, NEW b \in Batches
               PROVE  /\ completion'[IssueCmd(b)] \in {RetireCmd(b), NoTask}
                      /\ stage'[IssueCmd(b)] # "idle" => pending'[IssueCmd(b)] = 0
                      /\ \A x \in CommandsOf(b) :
                           /\ completion'[x] \in {RetireCmd(b), NoTask}
                           /\ stage'[x] \in {"ready", "running", "retired", "done"} => Done(IssueCmd(b))'
                           /\ stage'[x] = "local" => holder'[x] = IssueCmd(b) /\ stage'[IssueCmd(b)] \in {"running", "retired"}
                      /\ Waits[b] # {} =>
                           /\ stage'[IssueCmd(b)] = "local" => holder'[IssueCmd(b)] = WaitCmd(b) \/ Done(WaitCmd(b))'
                           /\ stage'[IssueCmd(b)] \in {"ready", "running", "retired", "done"} => Done(WaitCmd(b))'
                      /\ stage'[RetireCmd(b)] = "local" => holder'[RetireCmd(b)] = IssueCmd(b) \/ Done(IssueCmd(b))'
                      /\ stage'[RetireCmd(b)] \in {"ready", "running", "retired", "done"} => Done(IssueCmd(b))'
    <3>1. chained' = chained
      BY Zenon DEF Completes
    <3> QED
      BY <3>1, Zenon DEF Apart
  <2> DEFINE I == IssueCmd(b)
             R == RetireCmd(b)
  <2>1. (e = "retired" /\ r = "local" /\ stage[t] = "running") \/ (e = "done" /\ r = "ready" /\ stage[t] = "ready")
    BY <1>1, Zenon
  <2>2. stage'[t] = e
    BY Zenon DEF Completes
  <2>3. e = "done" => \E d \in Batches : t \in Timepoints(d)
    BY Members, Zenon DEF Completing
  <2>4. t = I \/ t \in CommandsOf(b) \/ t = R \/ t = WaitCmd(b) => e = "retired" /\ r = "local" /\ stage[t] = "running"
    BY <2>1, <2>3, TimepointApart, Zenon
  <2>5. t \in Timepoints(b) => r = "ready" /\ stage[t] = "ready"
    BY <2>1, Zenon DEF Free
  <2>6. I \in Tasks /\ R \in Tasks /\ WaitCmd(b) \in Tasks /\ \A x \in CommandsOf(b) : x \in Tasks
    BY Members, Zenon
  <2>7. completion'[t] = NoTask
    BY <1>1, Zenon
  <2>8. \A x \in Tasks : x # t => completion'[x] = completion[x]
    BY <1>1, Zenon
  <2>9. \A x \in Tasks : x # t /\ completion[t] # x => stage'[x] = stage[x] /\ holder'[x] = holder[x]
    BY Zenon DEF Completes
  <2>10. \A x \in Tasks : Done(x) => Done(x)'
    BY <1>1, Zenon DEF Done, Finished
  \* The issue command was idle if this step enqueues it.
  <2>11. I # t => \/ stage'[I] = stage[I] /\ holder'[I] = holder[I]
                  \/ /\ I = completion[t] /\ stage[I] = "idle" /\ pending'[I] = 0
                     /\ stage'[I] = r /\ (r = "local" => holder'[I] = t)
    <3>1. I # t => \/ stage'[I] = stage[I] /\ holder'[I] = holder[I]
                   \/ /\ I = completion[t] /\ pending[I] = 1 /\ pending'[I] = 0
                      /\ stage'[I] = r /\ (r = "local" => holder'[I] = t)
      BY <2>6, <1>1, Zenon
    <3>2. pending[I] = 1 => stage[I] = "idle"
      BY DEF Apart
    <3> QED
      BY <3>1, <3>2, ZenonT(60)
  <2>12. completion'[I] \in {R, NoTask}
    BY <2>6, <2>7, <2>8, Zenon DEF Apart
  <2>13. stage'[I] # "idle" => pending'[I] = 0
    <3>1. CASE I = completion[t]
      <4>1. pending[I] # 0
        BY <2>6, <3>1, Counts
      <4>2. stage[I] = "idle"
        BY <4>1, Zenon DEF Apart
      <4>3. I # t
        BY <2>1, <4>2, Zenon
      <4> QED
        BY <2>11, <4>2, <4>3, ZenonT(60)
    <3>2. CASE I # completion[t]
      <4>1. pending'[I] = pending[I]
        BY <2>6, <3>2, ZenonT(60) DEF Completes
      <4>2. stage[I] = "idle" => stage'[I] = "idle"
        BY <2>1, <2>6, <2>9, <3>2, Zenon
      <4> QED
        BY <4>1, <4>2, Zenon DEF Apart
    <3> QED
      BY <3>1, <3>2, Zenon
  <2>14. ASSUME NEW x \in CommandsOf(b)
         PROVE  /\ completion'[x] \in {R, NoTask}
                /\ stage'[x] \in {"ready", "running", "retired", "done"} => Done(I)'
                /\ stage'[x] = "local" => holder'[x] = I /\ stage'[I] \in {"running", "retired"}
    <3>1. completion'[x] \in {R, NoTask}
      BY <2>6, <2>7, <2>8, ZenonT(60) DEF Apart
    <3>2. completion[t] # x
      BY TargetKinds, SMTT(60)
    <3>3. CASE x = t
      <4>1. stage[x] = "running" /\ stage'[x] = "retired"
        BY <2>2, <2>4, <3>3, Zenon
      <4>2. Done(I)
        BY <4>1, Zenon DEF Apart
      <4>3. Done(I)'
        BY <2>6, <2>10, <4>2, Zenon
      <4> QED
        BY <3>1, <4>1, <4>3, Zenon
    <3>4. CASE x # t
      <4>1. stage'[x] = stage[x] /\ holder'[x] = holder[x]
        BY <2>6, <2>9, <3>2, <3>4, ZenonT(60)
      <4>2. stage[I] \in {"running", "retired"} => stage'[I] \in {"running", "retired"}
        BY <2>2, <2>4, <2>11, Zenon
      <4> QED
        BY <2>6, <2>10, <3>1, <4>1, <4>2, Zenon DEF Apart
    <3> QED
      BY <3>3, <3>4, Zenon
  <2>15. ASSUME Waits[b] # {}
         PROVE  /\ stage'[I] = "local" => holder'[I] = WaitCmd(b) \/ Done(WaitCmd(b))'
                /\ stage'[I] \in {"ready", "running", "retired", "done"} => Done(WaitCmd(b))'
    <3>1. CASE I = t
      BY <2>2, <2>4, <2>6, <2>10, <2>15, <3>1, Zenon DEF Apart
    <3>2. CASE I # t /\ stage'[I] = stage[I] /\ holder'[I] = holder[I]
      BY <2>6, <2>10, <2>15, <3>2, Zenon DEF Apart
    <3>3. CASE I = completion[t] /\ stage'[I] = r /\ (r = "local" => holder'[I] = t)
      <4>1. CASE t = WaitCmd(b)
        BY <2>4, <3>3, <4>1, Zenon
      <4>2. CASE t \in Timepoints(b)
        <5>1. Done(WaitCmd(b))
          BY <2>5, <4>2, Zenon DEF WaitPhase
        <5> QED
          BY <2>6, <2>10, <5>1, Zenon
      <4> QED
        BY <3>3, <4>1, <4>2, ApartTargets, ZenonT(60)
    <3> QED
      BY <2>11, <3>1, <3>2, <3>3, ZenonT(60)
  <2>16. /\ stage'[R] = "local" => holder'[R] = I \/ Done(I)'
         /\ stage'[R] \in {"ready", "running", "retired", "done"} => Done(I)'
    <3>1. CASE R = t
      BY <2>2, <2>4, <2>6, <2>10, <3>1, Zenon DEF Apart
    <3>2. CASE R # t /\ stage'[R] = stage[R] /\ holder'[R] = holder[R]
      BY <2>6, <2>10, <3>2, ZenonT(60) DEF Apart
    <3>3. CASE R = completion[t] /\ stage'[R] = r /\ (r = "local" => holder'[R] = t)
      <4>1. t = I \/ t \in CommandsOf(b)
        BY <3>3, TargetKinds, ZenonT(60)
      <4>2. t \in CommandsOf(b) => Done(I)
        BY <2>4, Zenon DEF Apart
      <4> QED
        BY <2>4, <2>6, <2>10, <3>3, <4>1, <4>2, Zenon
    <3>4. R # t => \/ stage'[R] = stage[R] /\ holder'[R] = holder[R]
                   \/ R = completion[t] /\ stage'[R] = r /\ (r = "local" => holder'[R] = t)
      BY <2>6, Zenon DEF Completes
    <3> QED
      BY <3>1, <3>2, <3>3, <3>4, ZenonT(60)
  <2> QED
    BY <2>12, <2>13, <2>14, <2>15, <2>16, Zenon
<1> QED
  BY <1>3, <1>4, <1>5, <1>6, <1>7, Zenon DEF IInv

-----------------------------------------------------------------------------
\* A submission is handed over: what p enqueued becomes ready, and the tasks of S,
\* none or p itself, go to stage e.
Merges(p, S, e) ==
    /\ \A x \in Tasks : stage'[x] = IF x \in S THEN e
                                    ELSE IF stage[x] = "local" /\ holder[x] = p THEN "ready" ELSE stage[x]
    /\ UNCHANGED <<pending, completion, holder, value, scope, chained, faulted>>

\* A host thread submits; a task is cleaned up; an issue command that was chained
\* while it ran stays.
Merging(p, S, e) ==
    \/ S = {} /\ p \in Users
    \/ S = {p} /\ p \in Tasks /\ e = "done" /\ stage[p] = "retired"
    \/ S = {p} /\ p \in Issues /\ e = "idle" /\ stage[p] = "running" /\ chained # {}

\* The queue's side of the three steps: a host thread's call ends, a cleaned up
\* task leaves the tail and frees its arena, a task that stays does neither.
Handover(p, S, e) ==
    \/ /\ S = {} /\ p \in Users /\ step[p] = "submit"
       /\ step' = [step EXCEPT ![p] = "call"] /\ at' = [at EXCEPT ![p] = @ + 1]
       /\ UNCHANGED <<tail, freed>>
    \/ S = {p} /\ e = "done" /\ tail' = TailWithout(p) /\ freed' = FreedWith(p) /\ UNCHANGED <<at, step>>
    \/ S = {p} /\ e = "idle" /\ UNCHANGED <<tail, freed, at, step>>

\* A hand-over keeps the invariant, by the same parts.
LEMMA MergesKeeps ==
    ASSUME IInv, Typed', NEW p, NEW S, NEW e, Merging(p, S, e), Merges(p, S, e), Handover(p, S, e)
    PROVE  IInv'
<1>1. ASSUME NEW x \in Tasks
      PROVE  /\ \/ stage'[x] = stage[x]
                \/ stage[x] = "local" /\ stage'[x] = "ready" /\ holder[x] = p
                \/ x = p /\ stage[x] = "retired" /\ stage'[x] = "done"
                \/ x = p /\ x \in Issues /\ stage[x] = "running" /\ stage'[x] = "idle" /\ chained # {}
             /\ stage'[x] = "absent" <=> stage[x] = "absent"
             /\ Finished(x)' <=> Finished(x)
             /\ Done(x) => Done(x)'
             /\ Live(x)' => Live(x)
             /\ stage[x] = "idle" => stage'[x] = "idle"
             /\ p = x /\ x \notin Issues => stage'[x] = "done"
             /\ p = x /\ chained = {} => stage'[x] = "done"
             /\ Sources(x)' = Sources(x)
  <2>1. Sources(x)' = Sources(x)
    BY Zenon DEF Merges, Sources, Into
  <2>2. x \notin Users
    BY NoTaskApart, ZenonT(60)
  <2>3. stage[x] \in Stages
    BY Zenon DEF IInv, Typed
  <2>4. /\ stage'[x] = IF x \in S THEN e ELSE IF stage[x] = "local" /\ holder[x] = p THEN "ready" ELSE stage[x]
        /\ (x \in S => x = p) /\ (p = x => x \in S)
        /\ x \in S => \/ e = "done" /\ stage[x] = "retired"
                      \/ x \in Issues /\ e = "idle" /\ stage[x] = "running" /\ chained # {}
    <3>1. stage'[x] = IF x \in S THEN e ELSE IF stage[x] = "local" /\ holder[x] = p THEN "ready" ELSE stage[x]
      BY Zenon DEF Merges
    <3>2. (x \in S => x = p) /\ (p = x => x \in S)
      BY <2>2, Zenon DEF Merging
    <3>3. x \in S => \/ e = "done" /\ stage[x] = "retired"
                     \/ x \in Issues /\ e = "idle" /\ stage[x] = "running" /\ chained # {}
      BY <3>2, ZenonT(60) DEF Merging
    <3> QED
      BY <3>1, <3>2, <3>3, Zenon
  <2> HIDE DEF IInv
  <2>5. CASE x \in S
    BY <2>1, <2>4, <2>5, Zenon DEF Finished, Done, Live
  <2>6. CASE x \notin S
    BY <2>1, <2>4, <2>6, Zenon DEF Finished, Done, Live
  <2> QED
    BY <2>5, <2>6, Zenon
<1>2. Linked' /\ Counted' /\ FinishedFree' /\ AbsentFree'
  <2> USE DEF IInv
  <2>1. completion' = completion /\ pending' = pending
    BY Zenon DEF Merges
  <2>2. \A x \in Tasks : Sources(x)' = Sources(x)
    BY <1>1, Zenon
  <2>3. \A x \in Tasks : Finished(x)' <=> Finished(x)
    BY <1>1, Zenon
  <2>4. \A x \in Tasks : stage'[x] = "absent" <=> stage[x] = "absent"
    BY <1>1, Zenon
  <2>5. Linked'
    BY <2>1, Zenon DEF Linked
  <2>6. Counted'
    BY <2>1, <2>2, Zenon DEF Counted
  <2>7. FinishedFree'
    BY <2>2, <2>3, Zenon DEF FinishedFree
  <2>8. AbsentFree'
    BY <2>1, <2>2, <2>4, Zenon DEF AbsentFree
  <2> QED
    BY <2>5, <2>6, <2>7, <2>8, Zenon
<1>3. Free' /\ Built' /\ WaitPhase' /\ Waited' /\ Issued'
  <2> USE DEF IInv
  <2>1. UNCHANGED <<pending, completion, holder, value, chained, faulted>>
    BY Zenon DEF Merges
  <2>2. \A x \in Tasks : \/ stage'[x] = stage[x]
                         \/ stage[x] = "local" /\ stage'[x] = "ready" /\ holder[x] = p
                         \/ x = p /\ stage[x] = "retired" /\ stage'[x] = "done"
                         \/ x \in Issues /\ stage[x] = "running" /\ stage'[x] = "idle"
    BY <1>1, Zenon
  <2>3. \A x \in Tasks : stage'[x] = "absent" <=> stage[x] = "absent"
    BY <1>1, Zenon
  <2>4. \A x \in Tasks : p = x /\ x \notin Issues => stage'[x] = "done"
    BY <1>1, Zenon
  <2>5. \A b \in Batches : /\ WaitCmd(b) \notin Issues /\ Fence(b) \notin Issues
                           /\ \A x \in Timepoints(b) : x \notin Issues
                           /\ \A x \in CommandsOf(b) : x \notin Issues
    BY IssueApart DEF Issues
  <2>6. Free'
    <3> SUFFICES ASSUME NEW b \in Batches
                 PROVE  /\ pending'[WaitCmd(b)] = 0 /\ stage'[WaitCmd(b)] # "idle"
                        /\ \A x \in Timepoints(b) : pending'[x] = 0 /\ stage'[x] \in {"absent", "local", "ready", "done"}
                        /\ \A x \in CommandsOf(b) : pending'[x] = 0 /\ stage'[x] # "idle"
                        /\ stage'[Fence(b)] \in {"absent", "idle", "local", "ready", "done"}
      BY ZenonT(60) DEF Free
    <3>1. pending'[WaitCmd(b)] = 0 /\ stage'[WaitCmd(b)] # "idle"
      BY <2>1, <2>2, <2>5, Members, Zenon DEF Free
    <3>2. \A x \in Timepoints(b) : pending'[x] = 0 /\ stage'[x] \in {"absent", "local", "ready", "done"}
      BY <2>1, <2>2, <2>5, Members, Zenon DEF Free
    <3>3. \A x \in CommandsOf(b) : pending'[x] = 0 /\ stage'[x] # "idle"
      BY <2>1, <2>2, <2>5, Members, ZenonT(60) DEF Free
    <3>4. stage'[Fence(b)] \in {"absent", "idle", "local", "ready", "done"}
      BY <2>1, <2>2, <2>5, Members, Zenon DEF Free
    <3> QED
      BY <3>1, <3>2, <3>3, <3>4, Zenon
  <2>7. Built'
    BY <2>3, Members, Zenon DEF Built
  <2>8. \A b \in Batches : stage'[WaitCmd(b)] \in {"running", "retired", "done"} <=> stage[WaitCmd(b)] \in {"running", "retired", "done"}
    BY <2>2, <2>5, Members, Zenon
  <2>9. \A b \in Batches : \A x \in Timepoints(b) :
           /\ stage'[x] = stage[x] \/ (stage[x] = "local" /\ stage'[x] = "ready" /\ holder[x] = p)
           /\ x \in Tasks
    BY <2>2, <2>5, Members, Zenon DEF Free
  <2>10. WaitPhase'
    <3> SUFFICES ASSUME NEW b \in Batches
                 PROVE  /\ Live(WaitCmd(b))' => completion'[WaitCmd(b)] = IssueCmd(b) /\ stage'[IssueCmd(b)] = "idle"
                        /\ \A x \in Timepoints(b) :
                             /\ Live(x)' => completion'[x] = IssueCmd(b) /\ stage'[IssueCmd(b)] = "idle"
                             /\ stage'[x] # "absent" => stage'[WaitCmd(b)] \in {"running", "retired", "done"}
                             /\ stage'[x] \in {"ready", "done"} => Done(WaitCmd(b))'
                             /\ stage'[x] = "local" => holder'[x] = WaitCmd(b)
      BY ZenonT(60) DEF WaitPhase
    <3>1. stage[IssueCmd(b)] = "idle" => stage'[IssueCmd(b)] = "idle"
      BY <1>1, Members, ZenonT(60)
    <3>2. Live(WaitCmd(b))' => Live(WaitCmd(b))
      BY <1>1, Members, Zenon
    <3>3. \A x \in Timepoints(b) : Live(x)' => Live(x)
      BY <1>1, Members, Zenon
    <3>4. Done(WaitCmd(b)) => Done(WaitCmd(b))'
      BY <1>1, Members, ZenonT(60)
    <3>5. WaitCmd(b) = p => Done(WaitCmd(b))'
      BY <2>4, <2>5, Members, Zenon DEF Done
    <3>6. ASSUME NEW x \in Timepoints(b), stage'[x] \in {"ready", "done"} PROVE Done(WaitCmd(b))'
      <4>1. stage[x] \in {"ready", "done"} \/ (stage[x] = "local" /\ holder[x] = p)
        BY <2>9, <3>6, ZenonT(60)
      <4> QED
        BY <3>4, <3>5, <4>1, ZenonT(60) DEF WaitPhase
    <3> QED
      BY <2>1, <2>8, <2>9, <2>3, <3>1, <3>2, <3>3, <3>6, Zenon DEF WaitPhase
  <2>11. Waited'
    <3>1. \A b \in Batches : \A w \in Waits[b] :
             /\ stage'[Timepoint(b, w)] = "absent" <=> stage[Timepoint(b, w)] = "absent"
             /\ Done(Timepoint(b, w))' => Done(Timepoint(b, w))
      BY <2>9, Members, ZenonT(60) DEF Done
    <3> QED
      BY <2>1, <2>8, <3>1, ZenonT(60) DEF Waited
  <2>12. Issued'
    <3> SUFFICES ASSUME NEW b \in Batches
                 PROVE  /\ \A x \in CommandsOf(b) : stage'[x] # "absent" => WaitsOver(b)'
                        /\ stage'[IssueCmd(b)] \in {"running", "retired", "done"} => \A x \in CommandsOf(b) : stage'[x] # "absent"
      BY ZenonT(60) DEF Issued
    <3>1. Finished(WaitCmd(b)) => Finished(WaitCmd(b))'
      BY <1>1, Members, Zenon
    <3>2. WaitsOver(b) => WaitsOver(b)'
      BY <2>9, <3>1, ZenonT(60) DEF WaitsOver
    <3>3. stage'[IssueCmd(b)] \in {"running", "retired", "done"} => stage[IssueCmd(b)] \in {"running", "retired", "done"}
      BY <2>2, Members, ZenonT(60)
    <3> QED
      BY <2>3, <3>2, <3>3, Members, ZenonT(60) DEF Issued
  <2> QED
    BY <2>6, <2>7, <2>10, <2>11, <2>12, Zenon
<1>4. Gate' /\ FenceLast'
  <2> USE DEF IInv
  <2>1. UNCHANGED <<pending, completion, holder>>
    BY Zenon DEF Merges
  <2>2. \A x \in Tasks : \/ stage'[x] = stage[x]
                         \/ stage[x] = "local" /\ stage'[x] = "ready" /\ holder[x] = p
                         \/ x = p /\ stage[x] = "retired" /\ stage'[x] = "done"
                         \/ x \in Issues /\ stage[x] = "running" /\ stage'[x] = "idle"
    BY <1>1, Zenon
  <2>3. \A x \in Tasks : Finished(x)' <=> Finished(x)
    BY <1>1, Zenon
  <2>4. \A x \in Tasks : Live(x)' => Live(x)
    BY <1>1, Zenon
  <2>5. \A b \in Batches : RetireCmd(b) \notin Issues /\ Fence(b) \notin Issues
    BY IssueApart, Zenon DEF Issues
  <2>6. \A b \in Batches : /\ RetireCmd(b) \in Tasks /\ IssueCmd(b) \in Tasks /\ Fence(b) \in Tasks
                           /\ \A x \in CommandsOf(b) : x \in Tasks
    BY Members, Zenon
  <2>7. Gate'
    <3> SUFFICES ASSUME NEW b \in Batches
                 PROVE  /\ stage'[RetireCmd(b)] \notin {"absent", "idle"} =>
                              /\ pending'[RetireCmd(b)] = 0
                              /\ Finished(IssueCmd(b))' /\ \A x \in CommandsOf(b) : Finished(x)'
                        /\ stage'[RetireCmd(b)] = "idle" =>
                              \/ Cardinality(Sources(RetireCmd(b))') < pending'[RetireCmd(b)]
                              \/ /\ completion'[IssueCmd(b)] = RetireCmd(b) \/ Finished(IssueCmd(b))'
                                 /\ \A x \in CommandsOf(b) : Live(x)' => completion'[x] = RetireCmd(b)
      BY ZenonT(60) DEF Gate
    <3>1. stage'[RetireCmd(b)] \in {"absent", "idle"} => stage'[RetireCmd(b)] = stage[RetireCmd(b)]
      BY <2>2, <2>5, <2>6, Zenon
    <3>2. stage[RetireCmd(b)] \in {"absent", "idle"} => stage'[RetireCmd(b)] = stage[RetireCmd(b)]
      BY <2>2, <2>5, <2>6, Zenon
    <3>3. Sources(RetireCmd(b))' = Sources(RetireCmd(b))
      BY <2>6, <1>1, Zenon
    <3>4. stage'[RetireCmd(b)] \notin {"absent", "idle"} => stage[RetireCmd(b)] \notin {"absent", "idle"}
      BY <3>2, Zenon
    <3>5. stage'[RetireCmd(b)] = "idle" => stage[RetireCmd(b)] = "idle"
      BY <3>1, ZenonT(60)
    <3> QED
      BY <2>1, <2>3, <2>4, <2>6, <3>3, <3>4, <3>5, Zenon DEF Gate
  <2>8. FenceLast'
    <3> SUFFICES ASSUME NEW b \in Batches
                 PROVE  /\ Finished(RetireCmd(b))' => completion'[RetireCmd(b)] = NoTask
                        /\ stage'[Fence(b)] = "local" => holder'[Fence(b)] = RetireCmd(b) /\ Finished(RetireCmd(b))'
                        /\ stage'[Fence(b)] \in {"ready", "done"} => Done(RetireCmd(b))'
      BY ZenonT(60) DEF FenceLast
    <3>1. stage'[Fence(b)] = stage[Fence(b)] \/ (stage[Fence(b)] = "local" /\ stage'[Fence(b)] = "ready" /\ holder[Fence(b)] = p)
      BY <2>2, <2>5, <2>6, Zenon DEF Free
    <3>2. Done(RetireCmd(b)) => Done(RetireCmd(b))'
      BY <2>6, <1>1, ZenonT(60)
    <3>3. p = RetireCmd(b) => Done(RetireCmd(b))'
      BY <2>5, <2>6, <1>1, Zenon DEF Done
    <3> QED
      BY <2>1, <2>3, <2>6, <3>1, <3>2, <3>3, Zenon DEF FenceLast
  <2> QED
    BY <2>7, <2>8, Zenon
<1>5. Apart'
  <2> USE DEF IInv
  <2>1. UNCHANGED <<pending, completion, holder, chained>>
    BY Zenon DEF Merges
  <2> SUFFICES ASSUME chained = {}, NEW b \in Batches
               PROVE  /\ completion'[IssueCmd(b)] \in {RetireCmd(b), NoTask}
                      /\ stage'[IssueCmd(b)] # "idle" => pending'[IssueCmd(b)] = 0
                      /\ \A x \in CommandsOf(b) :
                           /\ completion'[x] \in {RetireCmd(b), NoTask}
                           /\ stage'[x] \in {"ready", "running", "retired", "done"} => Done(IssueCmd(b))'
                           /\ stage'[x] = "local" => holder'[x] = IssueCmd(b) /\ stage'[IssueCmd(b)] \in {"running", "retired"}
                      /\ Waits[b] # {} =>
                           /\ stage'[IssueCmd(b)] = "local" => holder'[IssueCmd(b)] = WaitCmd(b) \/ Done(WaitCmd(b))'
                           /\ stage'[IssueCmd(b)] \in {"ready", "running", "retired", "done"} => Done(WaitCmd(b))'
                      /\ stage'[RetireCmd(b)] = "local" => holder'[RetireCmd(b)] = IssueCmd(b) \/ Done(IssueCmd(b))'
                      /\ stage'[RetireCmd(b)] \in {"ready", "running", "retired", "done"} => Done(IssueCmd(b))'
    BY <2>1, Zenon DEF Apart
  <2>2. \A x \in Tasks : \/ stage'[x] = stage[x]
                         \/ stage[x] = "local" /\ stage'[x] = "ready" /\ holder[x] = p
                         \/ x = p /\ stage[x] = "retired" /\ stage'[x] = "done"
    BY <1>1, Zenon
  <2>3. \A x \in Tasks : Done(x) \/ x = p => Done(x)'
    BY <1>1, Zenon DEF Done
  <2>4. RetireCmd(b) \in Tasks /\ IssueCmd(b) \in Tasks /\ WaitCmd(b) \in Tasks /\ \A x \in CommandsOf(b) : x \in Tasks
    BY Members, ZenonT(60)
  <2>5. ASSUME NEW x \in Tasks, stage'[x] \in {"ready", "running", "retired", "done"}
        PROVE  stage[x] \in {"ready", "running", "retired", "done"} \/ (stage[x] = "local" /\ holder[x] = p)
    BY <2>2, <2>5, Zenon
  <2>6. ASSUME NEW x \in Tasks, stage'[x] = "local"
        PROVE  stage[x] = "local" /\ holder[x] # p
    <3>1. stage[x] = "local"
      BY <2>2, <2>6, Zenon
    <3>2. holder[x] = p => stage'[x] # "local"
      BY <2>6, <3>1, Zenon DEF Merges, Merging
    <3> QED
      BY <2>6, <3>1, <3>2, ZenonT(60)
  <2>7. ASSUME NEW x \in CommandsOf(b)
        PROVE  /\ stage'[x] \in {"ready", "running", "retired", "done"} => Done(IssueCmd(b))'
               /\ stage'[x] = "local" => holder'[x] = IssueCmd(b) /\ stage'[IssueCmd(b)] \in {"running", "retired"}
    <3>1. x \in Tasks
      BY <2>4, Zenon
    <3>2. stage'[x] \in {"ready", "running", "retired", "done"} => Done(IssueCmd(b))'
      BY <2>3, <2>4, <2>5, <3>1, ZenonT(60) DEF Apart
    <3>3. ASSUME stage'[x] = "local" PROVE holder'[x] = IssueCmd(b) /\ stage'[IssueCmd(b)] \in {"running", "retired"}
      <4>1. stage[x] = "local" /\ holder[x] # p
        BY <2>6, <3>1, <3>3, Zenon
      <4>2. holder[x] = IssueCmd(b) /\ stage[IssueCmd(b)] \in {"running", "retired"}
        BY <4>1, Zenon DEF Apart
      <4> QED
        BY <2>1, <2>2, <2>4, <4>1, <4>2, Zenon
    <3> QED
      BY <3>2, <3>3, Zenon
  <2>8. ASSUME Waits[b] # {}
        PROVE  /\ stage'[IssueCmd(b)] = "local" => holder'[IssueCmd(b)] = WaitCmd(b) \/ Done(WaitCmd(b))'
               /\ stage'[IssueCmd(b)] \in {"ready", "running", "retired", "done"} => Done(WaitCmd(b))'
    BY <2>1, <2>3, <2>4, <2>5, <2>6, <2>8, Zenon DEF Apart
  <2>9. /\ stage'[RetireCmd(b)] = "local" => holder'[RetireCmd(b)] = IssueCmd(b) \/ Done(IssueCmd(b))'
        /\ stage'[RetireCmd(b)] \in {"ready", "running", "retired", "done"} => Done(IssueCmd(b))'
    BY <2>1, <2>3, <2>4, <2>5, <2>6, Zenon DEF Apart
  <2>10. stage'[IssueCmd(b)] # "idle" => pending'[IssueCmd(b)] = 0
    <3>1. stage[IssueCmd(b)] = "idle" => stage'[IssueCmd(b)] = "idle"
      BY <2>4, <1>1, Zenon
    <3> QED
      BY <2>1, <3>1, Zenon DEF Apart
  <2> QED
    BY <2>1, <2>7, <2>8, <2>9, <2>10, Zenon DEF Apart
<1>6. ScopeExact' /\ FreedLast' /\ TailInFlight' /\ InCall' /\ Fresh'
  <2> USE DEF IInv
  <2>1. \A x \in Tasks : \/ stage'[x] = stage[x]
                         \/ stage[x] = "local" /\ stage'[x] = "ready" /\ holder[x] = p
                         \/ x = p /\ stage[x] = "retired" /\ stage'[x] = "done"
                         \/ x = p /\ x \in Issues /\ stage[x] = "running" /\ stage'[x] = "idle"
    BY <1>1, Zenon
  <2>2. \A x \in Tasks : stage'[x] = "absent" <=> stage[x] = "absent"
    BY <1>1, Zenon
  <2>3. ASSUME NEW b \in freed'
        PROVE  b \in Batches /\ (b \in freed \/ (p = RetireCmd(b) /\ Done(RetireCmd(b))' /\ stage[IssueCmd(b)] # "absent"))
    <3>1. CASE b \in freed
      BY <3>1, Zenon DEF Typed
    <3>2. CASE b \notin freed
      <4>1. b \in Batches /\ p = RetireCmd(b) /\ S = {p} /\ e = "done"
        BY <3>2, Zenon DEF Handover, FreedWith
      <4>2. RetireCmd(b) \in Tasks /\ RetireCmd(b) \notin Users
        BY <4>1, Members, NoTaskApart, ZenonT(60)
      <4>3. stage'[RetireCmd(b)] = "done"
        BY <4>1, <4>2, Zenon DEF Merges
      <4>4. stage[RetireCmd(b)] # "absent"
        BY <2>2, <4>2, <4>3, Zenon
      <4>5. stage[IssueCmd(b)] # "absent"
        BY <4>1, <4>4, Zenon DEF Built, TasksOf, ArenaTasks
      <4> QED
        BY <4>1, <4>3, <4>5, Zenon DEF Done
    <3> QED
      BY <3>1, <3>2, ZenonT(60)
  <2>4. freed \subseteq freed'
    BY Zenon DEF Handover, FreedWith
  <2>5. \A b \in Batches : Open(b)' <=> Open(b)
    <3> SUFFICES ASSUME NEW b \in Batches PROVE Open(b)' <=> Open(b)
      BY ZenonT(60)
    <3>1. Fence(b) \in Tasks /\ Fence(b) \notin Issues
      BY Members, IssueApart, Zenon DEF Issues
    <3>2. stage'[Fence(b)] \in {"absent", "done"} <=> stage[Fence(b)] \in {"absent", "done"}
      BY <2>1, <3>1, Zenon DEF Free
    <3>3. stage[Fence(b)] = "absent" => stage[IssueCmd(b)] = "absent"
      BY Zenon DEF Built
    <3>4. stage[Fence(b)] = "absent" => (b \in freed' <=> b \in freed)
      BY <2>3, <2>4, <3>3, Zenon
    <3> QED
      BY <2>2, <3>1, <3>2, <3>4, Zenon DEF Open
  <2>6. ScopeExact'
    <3>1. scope' = scope
      BY Zenon DEF Merges
    <3> QED
      BY <2>5, <3>1, Zenon DEF ScopeExact
  <2>7. FreedLast'
    <3> SUFFICES ASSUME NEW b \in freed' PROVE Done(RetireCmd(b))' \/ stage'[IssueCmd(b)] = "absent"
      BY Zenon DEF FreedLast
    <3>1. Done(RetireCmd(b)) => Done(RetireCmd(b))'
      BY <2>3, <1>1, Members, Zenon
    <3> QED
      BY <2>2, <2>3, <3>1, Members, Zenon DEF FreedLast
  <2>8. \A q \in Queues : /\ tail'[q] = tail[q] \/ tail'[q] = NoTask
                          /\ S = {p} /\ e = "done" /\ p # NoTask => tail'[q] # p
    BY Zenon DEF Handover, TailWithout
  <2>9. TailInFlight'
    <3> SUFFICES ASSUME NEW q \in Queues, NEW b \in Batches, tail'[q] = IssueCmd(b)
                 PROVE  Queue[b] = q /\ stage'[IssueCmd(b)] \notin {"absent", "done"}
      BY Zenon DEF TailInFlight
    <3>1. IssueCmd(b) \in Tasks /\ IssueCmd(b) # NoTask /\ IssueCmd(b) \notin Users
      BY Members, NoTaskApart, Zenon
    <3>2. Queue[b] = q /\ stage[IssueCmd(b)] \notin {"absent", "done"}
      BY <2>8, <3>1, Zenon DEF TailInFlight
    <3>3. stage[IssueCmd(b)] = "retired" /\ IssueCmd(b) = p => S = {p} /\ e = "done"
      BY <3>1, Zenon DEF Merging
    <3>4. stage'[IssueCmd(b)] # "done"
      BY <2>1, <2>8, <3>1, <3>2, <3>3, Zenon
    <3> QED
      BY <2>2, <3>1, <3>2, <3>4, Zenon
  <2>10. \A u \in Users : /\ step'[u] = "chain" => step[u] = "chain" /\ u # p
                          /\ step'[u] = "call" /\ u = p => step[u] = "submit" /\ at'[u] = at[u] + 1
                          /\ u # p => step'[u] = step[u] /\ at'[u] = at[u]
                          /\ u = p => step'[u] = "call"
    <3>1. CASE S = {}
      <4>1. p \in Users /\ step[p] = "submit" /\ step' = [step EXCEPT ![p] = "call"] /\ at' = [at EXCEPT ![p] = @ + 1]
        BY <3>1, Zenon DEF Handover
      <4> QED
        BY <4>1, ZenonT(60) DEF Typed
    <3>2. CASE S # {}
      <4>1. p \notin Users
        BY <3>2, NoTaskApart, Members, Zenon DEF Merging
      <4>2. UNCHANGED <<at, step>>
        BY <3>2, Zenon DEF Handover
      <4> QED
        BY <4>1, <4>2, Zenon
    <3> QED
      BY <3>1, <3>2, ZenonT(60)
  <2>11. InCall'
    <3>1. \A u \in Users, b \in Batches : Chaining(u, b)' => Chaining(u, b) /\ u # p
      BY <2>10, Zenon DEF Chaining
    <3>2. \A u \in Users : step'[u] = "chain" => \E b \in Batches : Chaining(u, b)'
      <4> SUFFICES ASSUME NEW u \in Users, step'[u] = "chain" PROVE \E b \in Batches : Chaining(u, b)'
        BY Zenon
      <4>1. step[u] = "chain" /\ at'[u] = at[u]
        BY <2>10, Zenon
      <4>2. PICK b \in Batches : Chaining(u, b)
        BY <4>1, Zenon DEF InCall
      <4>3. Chaining(u, b)'
        BY <4>1, <4>2, Zenon DEF Chaining
      <4> QED
        BY <4>3, Zenon
    <3>3. ASSUME NEW u \in Users, NEW b \in Batches, Chaining(u, b)'
          PROVE  /\ (stage[Root(b)] = "local" /\ holder[Root(b)] = u /\ Sources(Root(b)) = {})'
                 /\ \A q \in Queues : tail'[q] # IssueCmd(b)
      <4>1. /\ stage[Root(b)] = "local" /\ holder[Root(b)] = u /\ Sources(Root(b)) = {} /\ u # p
            /\ \A q \in Queues : tail[q] # IssueCmd(b)
        BY <3>1, <3>3, Zenon DEF InCall
      <4>2. Root(b) \in Tasks /\ IssueCmd(b) # NoTask
        BY Members, NoTaskApart, Zenon DEF Root
      <4>3. \A q \in Queues : tail'[q] # IssueCmd(b)
        BY <2>8, <4>1, <4>2, Zenon
      <4>4. stage'[Root(b)] = "local"
        BY <2>1, <4>1, <4>2, Zenon
      <4>5. Sources(Root(b))' = {}
        BY <4>1, <4>2, <1>1, Zenon DEF Root
      <4>6. holder' = holder
        BY Zenon DEF Merges
      <4> QED
        BY <4>1, <4>3, <4>4, <4>5, <4>6, Zenon DEF Root
    <3> QED
      BY <3>2, <3>3, Zenon DEF InCall
  <2>12. Fresh'
    <3> SUFFICES ASSUME NEW u \in Users, NEW i \in DOMAIN Programs[u], NEW b \in Batches,
                        Programs[u][i] = <<"submit", b>>, Ahead(u, i)'
                 PROVE  stage'[IssueCmd(b)] = "absent" /\ b \notin freed'
      BY Zenon DEF Fresh
    <3>1. Ahead(u, i)
      <4>1. i \in Nat /\ at[u] \in Nat
        BY QueueAssumption DEF Typed
      <4> QED
        BY <2>10, <4>1, SMTT(60) DEF Ahead
    <3>2. stage[IssueCmd(b)] = "absent" /\ b \notin freed
      BY <3>1, Zenon DEF Fresh
    <3> QED
      BY <2>2, <2>3, <3>2, Members, Zenon
  <2> QED
    BY <2>6, <2>7, <2>9, <2>11, <2>12, Zenon
<1> QED
  BY <1>2, <1>3, <1>4, <1>5, <1>6, Zenon DEF IInv

-----------------------------------------------------------------------------
\* A call runs: p is running and has enqueued the tasks of `new`, which complete
\* into what p completes into.  Semaphores may advance meanwhile.
Runs(p, new) ==
    /\ \A x \in Tasks :
         /\ stage'[x] = IF x \in new THEN "local" ELSE IF x = p THEN "running" ELSE stage[x]
         /\ holder'[x] = IF x \in new THEN p ELSE holder[x]
         /\ completion'[x] = IF x \in new THEN completion[p] ELSE completion[x]
         /\ pending'[x] = IF x = completion[p] THEN pending[x] + Cardinality(new) ELSE pending[x]
    /\ \A s \in Semaphores : value'[s] >= value[s]
    /\ faulted \subseteq faulted'
    /\ UNCHANGED <<tail, scope, at, step, freed, chained>>

\* A wait command makes timepoints, an issue command its commands; the commands
\* and the retire command make nothing.
Running(p, new, b) ==
    /\ stage[p] = "ready"
    /\ \/ /\ p = WaitCmd(b) /\ new \subseteq Timepoints(b)
          /\ \A w \in Waits[b] : Timepoint(b, w) \in new \/ value[w[1]] >= w[2] \/ b \in faulted'
       \/ p = IssueCmd(b) /\ new = CommandsOf(b)
       \/ p \in CommandsOf(b) /\ new = {}
       \/ p = RetireCmd(b) /\ new = {}

\* A command that issues tasks keeps the invariant: what the tasks are, what it
\* does to the counts and to each task, and then by the same parts.
LEMMA RunsKeeps ==
    ASSUME IInv, Typed', NEW b \in Batches, NEW p, NEW new, Running(p, new, b), Runs(p, new)
    PROVE  IInv'
<1>1. /\ p \in Tasks /\ new \subseteq Tasks /\ p \notin new
      /\ \A x \in new : \/ p = WaitCmd(b) /\ x \in Timepoints(b)
                        \/ p = IssueCmd(b) /\ x \in CommandsOf(b)
      /\ \A d : WaitCmd(d) \notin new /\ IssueCmd(d) \notin new /\ RetireCmd(d) \notin new /\ Fence(d) \notin new
      /\ \A d : Fence(d) # p /\ p \notin Timepoints(d)
      /\ p \in TasksOf(b)
  <2>1. p \in Tasks /\ new \subseteq Tasks
    BY Members, Zenon DEF Running
  <2>2. \A x \in new : \/ p = WaitCmd(b) /\ x \in Timepoints(b)
                       \/ p = IssueCmd(b) /\ x \in CommandsOf(b)
    BY Zenon DEF Running
  <2>3. p \notin new
    BY <2>2, TimepointApart, CommandApart, Zenon
  <2>4. \A d : WaitCmd(d) \notin new /\ IssueCmd(d) \notin new /\ RetireCmd(d) \notin new /\ Fence(d) \notin new
    BY <2>2, TimepointApart, CommandApart, Zenon
  <2>5. p = WaitCmd(b) \/ p = IssueCmd(b) \/ p \in CommandsOf(b) \/ p = RetireCmd(b)
    BY Zenon DEF Running
  <2>6. \A d : Fence(d) # p
    BY <2>5, FenceApart
  <2>7. \A d : p \notin Timepoints(d)
    BY <2>5, TimepointApart, Zenon
  <2>8. p \in TasksOf(b)
    BY <2>5, Zenon DEF TasksOf, ArenaTasks
  <2> QED
    BY <2>1, <2>2, <2>3, <2>4, <2>6, <2>7, <2>8, Zenon
<1>2. ASSUME NEW x \in Tasks
      PROVE  /\ completion[p] = x => /\ Sources(x) # {} /\ pending[x] # 0
                                     /\ Sources(x)' = Sources(x) \cup new
                                     /\ Cardinality(Sources(x)') <= Cardinality(Sources(x)) + Cardinality(new)
                                     /\ Cardinality(new) \in Nat
                                     /\ pending'[x] = pending[x] + Cardinality(new)
             /\ completion[p] # x => /\ Sources(x)' = Sources(x) \ new
                                     /\ Cardinality(Sources(x)') <= Cardinality(Sources(x))
                                     /\ pending'[x] = pending[x]
  <2> PICK c : c = completion[p]
    OBVIOUS
  <2>1. p \in Tasks /\ new \in SUBSET Tasks
    BY <1>1, Zenon
  <2>2. \A t \in Tasks : completion'[t] = IF t \in new THEN c ELSE completion[t]
    BY Zenon DEF Runs
  <2>3. pending'[x] = IF x = c THEN pending[x] + Cardinality(new) ELSE pending[x]
    BY Zenon DEF Runs
  <2>4. Into(completion', c) = Into(completion, c) \cup new
    BY <2>1, <2>2, Zenon DEF Into
  <2>11. Counting(Tasks)
    BY Zenon DEF IInv
  <2>7. Cardinality(Into(completion', c)) <= Cardinality(Into(completion, c)) + Cardinality(new)
    <3>1. Into(completion, c) \in SUBSET Tasks
      BY <2>11, IntoCount, Zenon
    <3> QED
      BY <2>1, <2>4, <2>11, <3>1, Zenon DEF Counting
  <2>8. Cardinality(new) \in Nat
    BY <2>1, CountOf, Zenon DEF IInv
  <2>9. x # c => Into(completion', x) = Into(completion, x) \ new
    BY <2>1, <2>2, Zenon DEF Into
  <2>10. ASSUME x # c PROVE Cardinality(Into(completion', x)) <= Cardinality(Into(completion, x))
    <3>1. Into(completion, x) \in SUBSET Tasks
      BY <2>11, IntoCount, Zenon
    <3>2. Into(completion', x) \in SUBSET Into(completion, x)
      BY <2>9, <2>10, Zenon
    <3> QED
      BY <2>11, <3>1, <3>2, Zenon DEF Counting
  <2>5. completion[p] = x => p \in Sources(x) /\ pending[x] >= 1
    BY <2>1, Counts, Zenon DEF IInv
  <2>6. completion[p] = x => pending[x] # 0
    BY <2>5
  <2> QED
    BY <2>3, <2>4, <2>5, <2>6, <2>7, <2>8, <2>9, <2>10, ZenonT(60) DEF Sources
<1>3. ASSUME NEW x \in Tasks
      PROVE  /\ \/ x \notin new /\ stage'[x] = stage[x]
                \/ x \in new /\ stage'[x] = "local" /\ holder'[x] = p
                \/ x = p /\ x \notin new /\ stage[x] = "ready" /\ stage'[x] = "running"
             /\ x \notin new => /\ completion'[x] = completion[x] /\ holder'[x] = holder[x]
                                /\ Finished(x)' <=> Finished(x)
                                /\ Done(x)' <=> Done(x)
                                /\ Live(x)' <=> Live(x)
                                /\ stage'[x] = "absent" <=> stage[x] = "absent"
                                /\ stage'[x] = "idle" <=> stage[x] = "idle"
             /\ x \in new => completion'[x] = completion[p]
  <2>1. /\ stage'[x] = IF x \in new THEN "local" ELSE IF x = p THEN "running" ELSE stage[x]
        /\ holder'[x] = IF x \in new THEN p ELSE holder[x]
        /\ completion'[x] = IF x \in new THEN completion[p] ELSE completion[x]
    BY Zenon DEF Runs
  <2>2. stage[p] = "ready"
    BY Zenon DEF Running
  <2> QED
    BY <2>1, <2>2 DEF Finished, Done, Live
<1>4. Linked' /\ Counted' /\ FinishedFree' /\ AbsentFree'
  <2> USE DEF IInv
  <2>1. \A x \in Tasks : x \notin new => completion'[x] = completion[x]
    BY <1>3, Zenon
  <2>2. \A x \in Tasks : x \in new => completion'[x] = completion[p]
    BY Zenon DEF Runs
  <2>3. \A d : WaitCmd(d) \notin new /\ IssueCmd(d) \notin new /\ RetireCmd(d) \notin new /\ Fence(d) \notin new
    BY <1>1, Zenon
  <2>4. Linked'
    <3> SUFFICES ASSUME NEW d \in Batches
                 PROVE  /\ completion'[WaitCmd(d)] \in {IssueCmd(d), NoTask}
                        /\ \A x \in Timepoints(d) : completion'[x] \in {IssueCmd(d), NoTask}
                        /\ completion'[IssueCmd(d)] \in {RetireCmd(d), NoTask} \cup Issues
                        /\ \A x \in CommandsOf(d) : completion'[x] \in {RetireCmd(d), NoTask} \cup Issues
                        /\ completion'[RetireCmd(d)] \in {Fence(d), NoTask}
                        /\ completion'[Fence(d)] = NoTask
      BY Zenon DEF Linked
    <3>1. ASSUME NEW x \in Timepoints(d) PROVE completion'[x] \in {IssueCmd(d), NoTask}
      <4>1. x \in Tasks
        BY Members, Zenon
      <4>2. x \in new => d = b /\ p = WaitCmd(b)
        BY <1>1, TimepointApart, CommandApart, Zenon
      <4> QED
        BY <2>1, <2>2, <4>1, <4>2, Zenon DEF Linked
    <3>2. ASSUME NEW x \in CommandsOf(d) PROVE completion'[x] \in {RetireCmd(d), NoTask} \cup Issues
      <4>1. x \in Tasks
        BY Members, Zenon
      <4>2. x \in new => d = b /\ p = IssueCmd(b)
        BY <1>1, TimepointApart, CommandApart, Zenon
      <4> QED
        BY <2>1, <2>2, <4>1, <4>2, Zenon DEF Linked
    <3>3. WaitCmd(d) \in Tasks /\ IssueCmd(d) \in Tasks /\ RetireCmd(d) \in Tasks /\ Fence(d) \in Tasks
      BY Members, Zenon
    <3> QED
      BY <2>1, <2>3, <3>1, <3>2, <3>3, Zenon DEF Linked
  <2>5. Counted'
    <3> SUFFICES ASSUME NEW x \in Tasks PROVE Cardinality(Sources(x)') <= pending'[x]
      BY Zenon DEF Counted
    <3>1. Cardinality(Sources(x)) <= pending[x] /\ pending[x] \in Nat /\ Cardinality(Sources(x)) \in Nat
      BY IntoCount, Zenon DEF Counted, Sources, Typed
    <3>2. Cardinality(Sources(x)') \in Nat
      BY IntoCount, Zenon DEF Sources
    <3>3. CASE completion[p] = x
      <4>1. /\ Cardinality(Sources(x)') <= Cardinality(Sources(x)) + Cardinality(new)
            /\ Cardinality(new) \in Nat /\ pending'[x] = pending[x] + Cardinality(new)
        BY <3>3, <1>2, Zenon
      <4> QED
        BY <3>1, <3>2, <4>1, SMTT(60)
    <3>4. CASE completion[p] # x
      <4>1. Cardinality(Sources(x)') <= Cardinality(Sources(x)) /\ pending'[x] = pending[x]
        BY <3>4, <1>2, Zenon
      <4> QED
        BY <3>1, <3>2, <4>1, SMTT(60)
    <3> QED
      BY <3>3, <3>4, Zenon
  <2>6. \A x \in Tasks : Sources(x) = {} => Sources(x)' = {} /\ pending'[x] = pending[x]
    BY <1>2, Zenon
  <2>7. FinishedFree'
    <3> SUFFICES ASSUME NEW x \in Tasks, Finished(x)' PROVE Sources(x)' = {}
      BY Zenon DEF FinishedFree
    <3>1. Finished(x)
      BY <1>3, Zenon DEF Finished
    <3> QED
      BY <2>6, <3>1, Zenon DEF FinishedFree
  <2>8. AbsentFree'
    <3> SUFFICES ASSUME NEW x \in Tasks, stage'[x] = "absent" PROVE Sources(x)' = {} /\ pending'[x] = 0 /\ completion'[x] = NoTask
      BY ZenonT(60) DEF AbsentFree
    <3>1. x \notin new /\ stage[x] = "absent"
      BY <1>3, Zenon
    <3> QED
      BY <2>1, <2>6, <3>1, Zenon DEF AbsentFree
  <2> QED
    BY <2>4, <2>5, <2>7, <2>8, Zenon
<1>5. Free' /\ Built' /\ WaitPhase' /\ Waited' /\ Issued'
  <2> USE DEF IInv
  <2>1. \A x \in Tasks : \/ x \notin new /\ stage'[x] = stage[x]
                         \/ x \in new /\ stage'[x] = "local" /\ holder'[x] = p
                         \/ x = p /\ x \notin new /\ stage[x] = "ready" /\ stage'[x] = "running"
    BY <1>3, Zenon
  <2>2. \A x \in Tasks : x \notin new => completion'[x] = completion[x] /\ holder'[x] = holder[x]
    BY Zenon DEF Runs
  <2>3. \A x \in Tasks : x \in new => completion'[x] = completion[p]
    BY Zenon DEF Runs
  <2>4. \A d : WaitCmd(d) \notin new /\ IssueCmd(d) \notin new /\ RetireCmd(d) \notin new /\ Fence(d) \notin new
    BY <1>1, Zenon
  <2>5. \A d : Fence(d) # p /\ p \notin Timepoints(d)
    BY <1>1, Zenon
  <2>6. p \in Tasks /\ stage[p] = "ready"
    BY <1>1, Zenon DEF Running
  <2>7. \A d \in Batches : \A x \in Timepoints(d) : x \in new => d = b /\ p = WaitCmd(b)
    BY <1>1, TimepointApart, CommandApart, Zenon
  <2>8. \A d \in Batches : \A x \in CommandsOf(d) : x \in new => d = b /\ p = IssueCmd(b)
    BY <1>1, TimepointApart, CommandApart, Zenon
  <2>9. \A d \in Batches : /\ WaitCmd(d) \in Tasks /\ IssueCmd(d) \in Tasks /\ RetireCmd(d) \in Tasks /\ Fence(d) \in Tasks
                           /\ \A x \in Timepoints(d) : x \in Tasks
                           /\ \A x \in CommandsOf(d) : x \in Tasks
    BY Members, Zenon
  <2>10. Free'
    <3> SUFFICES ASSUME NEW d \in Batches
                 PROVE  /\ pending'[WaitCmd(d)] = 0 /\ stage'[WaitCmd(d)] # "idle"
                        /\ \A x \in Timepoints(d) : pending'[x] = 0 /\ stage'[x] \in {"absent", "local", "ready", "done"}
                        /\ \A x \in CommandsOf(d) : pending'[x] = 0 /\ stage'[x] # "idle"
                        /\ stage'[Fence(d)] \in {"absent", "idle", "local", "ready", "done"}
      BY Zenon DEF Free
    <3>1. completion[p] # WaitCmd(d) /\ completion[p] \notin Timepoints(d) /\ completion[p] \notin CommandsOf(d)
      BY <2>6, TargetKinds, Zenon
    <3>2. \A x \in Tasks : x # completion[p] => pending'[x] = pending[x]
      BY Zenon DEF Runs
    <3>3. pending'[WaitCmd(d)] = 0 /\ stage'[WaitCmd(d)] # "idle"
      BY <2>1, <2>4, <2>9, <3>1, <3>2, Zenon DEF Free
    <3>4. \A x \in Timepoints(d) : pending'[x] = 0 /\ stage'[x] \in {"absent", "local", "ready", "done"}
      BY <2>1, <2>5, <2>9, <3>1, <3>2, ZenonT(60) DEF Free
    <3>5. \A x \in CommandsOf(d) : pending'[x] = 0 /\ stage'[x] # "idle"
      BY <2>1, <2>9, <3>1, <3>2, ZenonT(60) DEF Free
    <3>6. stage'[Fence(d)] \in {"absent", "idle", "local", "ready", "done"}
      BY <2>1, <2>4, <2>5, <2>9, Zenon DEF Free
    <3> QED
      BY <3>3, <3>4, <3>5, <3>6, Zenon
  <2>11. \A x \in Tasks : x \notin new => (stage'[x] = "absent" <=> stage[x] = "absent")
    BY <2>1, Zenon
  <2>12. Built'
    <3> SUFFICES ASSUME NEW d \in Batches
                 PROVE  /\ stage'[IssueCmd(d)] = "absent" => \A x \in TasksOf(d) : stage'[x] = "absent"
                        /\ stage'[IssueCmd(d)] # "absent" => stage'[RetireCmd(d)] # "absent" /\ stage'[Fence(d)] # "absent"
                        /\ stage'[WaitCmd(d)] = "absent" <=> (stage'[IssueCmd(d)] = "absent" \/ Waits[d] = {})
      BY Zenon DEF Built
    <3>1. ASSUME stage[IssueCmd(d)] = "absent", NEW x \in TasksOf(d) PROVE stage'[x] = "absent"
      <4>1. stage[x] = "absent" /\ x \in Tasks
        BY <3>1, Members, ZenonT(60) DEF Built
      <4>2. d # b
        BY <2>6, <3>1, <1>1, Zenon DEF Built
      <4>3. x \notin new
        BY <2>4, <2>7, <2>8, <4>2, KindsOf, ZenonT(60)
      <4> QED
        BY <2>11, <4>1, <4>3, Zenon
    <3> QED
      BY <2>4, <2>9, <2>11, <3>1, Zenon DEF Built
  <2>13. \A x \in Tasks : x \notin new => (Live(x)' <=> Live(x)) /\ (Done(x)' <=> Done(x)) /\ (Finished(x)' <=> Finished(x))
    BY <2>1, Zenon DEF Live, Done, Finished
  <2>14. WaitPhase'
    <3> SUFFICES ASSUME NEW d \in Batches
                 PROVE  /\ Live(WaitCmd(d))' => completion'[WaitCmd(d)] = IssueCmd(d) /\ stage'[IssueCmd(d)] = "idle"
                        /\ \A x \in Timepoints(d) :
                             /\ Live(x)' => completion'[x] = IssueCmd(d) /\ stage'[IssueCmd(d)] = "idle"
                             /\ stage'[x] # "absent" => stage'[WaitCmd(d)] \in {"running", "retired", "done"}
                             /\ stage'[x] \in {"ready", "done"} => Done(WaitCmd(d))'
                             /\ stage'[x] = "local" => holder'[x] = WaitCmd(d)
      BY Zenon DEF WaitPhase
    <3>1. stage[IssueCmd(d)] = "idle" => stage'[IssueCmd(d)] = "idle"
      BY <2>1, <2>4, <2>9, Zenon
    <3>2. Live(WaitCmd(d))' => completion'[WaitCmd(d)] = IssueCmd(d) /\ stage'[IssueCmd(d)] = "idle"
      BY <2>2, <2>4, <2>9, <2>13, <3>1, ZenonT(60) DEF WaitPhase
    <3>3. ASSUME NEW x \in Timepoints(d), x \in new
          PROVE  /\ completion'[x] = IssueCmd(d) /\ stage'[IssueCmd(d)] = "idle"
                 /\ stage'[WaitCmd(d)] \in {"running", "retired", "done"}
                 /\ stage'[x] = "local" /\ holder'[x] = WaitCmd(d)
      <4>1. d = b /\ p = WaitCmd(d) /\ x \in Tasks
        BY <2>7, <2>9, <3>3, Zenon
      <4>2. Live(WaitCmd(d))
        BY <2>6, <4>1, Zenon DEF Live
      <4>3. completion[p] = IssueCmd(d) /\ stage[IssueCmd(d)] = "idle"
        BY <4>1, <4>2, ZenonT(60) DEF WaitPhase
      <4>4. stage'[WaitCmd(d)] = "running"
        BY <2>1, <2>4, <2>6, <4>1, Zenon DEF Runs
      <4> QED
        BY <2>1, <2>3, <3>1, <3>3, <4>1, <4>3, <4>4, ZenonT(60)
    <3>4. ASSUME NEW x \in Timepoints(d), x \notin new
          PROVE  /\ Live(x)' => completion'[x] = IssueCmd(d) /\ stage'[IssueCmd(d)] = "idle"
                 /\ stage'[x] # "absent" => stage'[WaitCmd(d)] \in {"running", "retired", "done"}
                 /\ stage'[x] \in {"ready", "done"} => Done(WaitCmd(d))'
                 /\ stage'[x] = "local" => holder'[x] = WaitCmd(d)
      <4>1. x \in Tasks /\ x # p
        BY <2>5, <2>9, Zenon
      <4>2. stage'[x] = stage[x]
        BY <2>1, <3>4, <4>1, Zenon
      <4>3. stage[WaitCmd(d)] \in {"running", "retired", "done"} => stage'[WaitCmd(d)] = stage[WaitCmd(d)]
        BY <2>1, <2>4, <2>9, Zenon
      <4> QED
        BY <2>2, <2>4, <2>9, <2>13, <3>1, <3>4, <4>1, <4>2, <4>3, ZenonT(60) DEF WaitPhase
    <3>5. \A x \in Timepoints(d) : x \in new => stage'[x] \notin {"ready", "done"}
      BY <3>3, Zenon
    <3> QED
      BY <3>2, <3>3, <3>4, <3>5, Zenon
  <2>15. Waited'
    <3> SUFFICES ASSUME NEW d \in Batches, NEW w \in Waits[d]
                 PROVE  /\ stage'[WaitCmd(d)] \in {"running", "retired", "done"} =>
                              stage'[Timepoint(d, w)] # "absent" \/ value'[w[1]] >= w[2] \/ d \in faulted'
                        /\ Done(Timepoint(d, w))' => value'[w[1]] >= w[2]
      BY Zenon DEF Waited
    <3>1. Timepoint(d, w) \in Timepoints(d) /\ Timepoint(d, w) \in Tasks
      BY Members, Zenon
    <3>2. value[w[1]] >= w[2] => value'[w[1]] >= w[2]
      <4>1. w[1] \in Semaphores /\ w[2] \in Nat
        BY QueueAssumption
      <4>2. value'[w[1]] >= value[w[1]] /\ value[w[1]] \in Nat /\ value'[w[1]] \in Nat
        BY <4>1, ZenonT(60) DEF Runs, Typed
      <4> QED
        BY <4>1, <4>2, SMTT(60)
    <3>3. Done(Timepoint(d, w))' => Done(Timepoint(d, w))
      BY <2>1, <3>1, Zenon DEF Done
    <3>4. stage'[Timepoint(d, w)] = "absent" => stage[Timepoint(d, w)] = "absent" /\ Timepoint(d, w) \notin new
      BY <2>1, <3>1, Zenon
    <3>5. faulted \subseteq faulted'
      BY Zenon DEF Runs
    <3>6. CASE WaitCmd(d) = p
      <4>1. d = b /\ \A v \in Waits[b] : Timepoint(b, v) \in new \/ value[v[1]] >= v[2] \/ b \in faulted'
        BY <3>6, WaitApart, Zenon DEF Running
      <4> QED
        BY <3>2, <3>3, <3>4, <4>1, ZenonT(60) DEF Waited
    <3>7. CASE WaitCmd(d) # p
      <4>1. stage'[WaitCmd(d)] = stage[WaitCmd(d)]
        BY <2>1, <2>4, <2>9, <3>7, Zenon
      <4> QED
        BY <3>2, <3>3, <3>4, <3>5, <4>1, Zenon DEF Waited
    <3> QED
      BY <3>6, <3>7, Zenon
  <2>16. Issued'
    <3> SUFFICES ASSUME NEW d \in Batches
                 PROVE  /\ \A x \in CommandsOf(d) : stage'[x] # "absent" => WaitsOver(d)'
                        /\ stage'[IssueCmd(d)] \in {"running", "retired", "done"} => \A x \in CommandsOf(d) : stage'[x] # "absent"
      BY Zenon DEF Issued
    <3>1. WaitsOver(d) => WaitsOver(d)'
      <4>1. Finished(WaitCmd(d)) => WaitCmd(d) # p
        BY <2>6, Zenon DEF Finished
      <4>2. Finished(WaitCmd(d)) => \A x \in Timepoints(d) : x \notin new
        BY <2>7, <4>1, Zenon
      <4>3. \A x \in Timepoints(d) : x \notin new => stage'[x] = stage[x]
        BY <2>1, <2>5, <2>9, Zenon
      <4> QED
        BY <2>4, <2>9, <2>13, <4>2, <4>3, Zenon DEF WaitsOver
    <3>2. ASSUME p = IssueCmd(d), Waits[d] # {} PROVE WaitsOver(d)
      <4>1. stage[IssueCmd(d)] = "ready"
        BY <2>6, <3>2, ZenonT(60)
      <4>2. ~Live(WaitCmd(d)) /\ stage[WaitCmd(d)] # "idle" /\ stage[WaitCmd(d)] # "absent"
        BY <3>2, <4>1, Zenon DEF WaitPhase, Free, Built
      <4>3. Finished(WaitCmd(d))
        BY <2>9, <4>2, Zenon DEF Finished, Live, Typed, Stages
      <4>4. \A x \in Timepoints(d) : ~Live(x) /\ stage[x] \in {"absent", "local", "ready", "done"}
        BY <4>1, Zenon DEF WaitPhase, Free
      <4> QED
        BY <4>3, <4>4, Zenon DEF Live, WaitsOver
    <3>3. ASSUME NEW x \in CommandsOf(d), stage'[x] # "absent" PROVE WaitsOver(d)'
      <4>1. CASE x \in new
        <5>1. p = IssueCmd(d)
          BY <2>8, <4>1, Zenon
        <5> QED
          BY <3>1, <3>2, <5>1, Zenon DEF WaitsOver
      <4>2. CASE x \notin new
        BY <2>9, <2>11, <3>1, <3>3, <4>2, Zenon DEF Issued
      <4> QED
        BY <4>1, <4>2, Zenon
    <3>4. ASSUME stage'[IssueCmd(d)] \in {"running", "retired", "done"}, NEW x \in CommandsOf(d)
          PROVE  stage'[x] # "absent"
      <4>1. CASE IssueCmd(d) = p
        <5>1. x \in new
          BY <4>1, IssueApart, Zenon DEF Running
        <5> QED
          BY <2>1, <2>9, <5>1, Zenon
      <4>2. CASE IssueCmd(d) # p
        <5>1. stage[IssueCmd(d)] \in {"running", "retired", "done"}
          BY <2>1, <2>4, <2>9, <3>4, <4>2, Zenon
        <5>2. stage[x] # "absent"
          BY <5>1, Zenon DEF Issued
        <5> QED
          BY <2>1, <2>9, <5>2, Zenon
      <4> QED
        BY <4>1, <4>2, ZenonT(60)
    <3> QED
      BY <3>3, <3>4, Zenon
  <2> QED
    BY <2>10, <2>12, <2>14, <2>15, <2>16, ZenonT(60)
<1>6. Gate' /\ FenceLast'
  <2> USE DEF IInv
  <2>1. \A x \in Tasks : \/ x \notin new /\ stage'[x] = stage[x]
                         \/ x \in new /\ stage'[x] = "local" /\ holder'[x] = p
                         \/ x = p /\ x \notin new /\ stage[x] = "ready" /\ stage'[x] = "running"
    BY <1>3
  <2>2. \A x \in Tasks : x \notin new => completion'[x] = completion[x] /\ holder'[x] = holder[x]
    BY Zenon DEF Runs
  <2>3. \A x \in Tasks : x \in new => completion'[x] = completion[p]
    BY Zenon DEF Runs
  <2>4. \A d : WaitCmd(d) \notin new /\ IssueCmd(d) \notin new /\ RetireCmd(d) \notin new /\ Fence(d) \notin new
    BY <1>1, Zenon
  <2>5. p \in Tasks /\ stage[p] = "ready" /\ ~Finished(p)
    <3>1. p \in Tasks /\ stage[p] = "ready"
      BY <1>1, Zenon DEF Running
    <3> QED
      BY <3>1, Zenon DEF Finished
  <2>6. \A d \in Batches : \A x \in CommandsOf(d) : x \in new => d = b /\ p = IssueCmd(b)
    BY <1>1, TimepointApart, CommandApart
  <2>7. \A d \in Batches : /\ WaitCmd(d) \in Tasks /\ IssueCmd(d) \in Tasks /\ RetireCmd(d) \in Tasks /\ Fence(d) \in Tasks
                           /\ \A x \in CommandsOf(d) : x \in Tasks
    BY Members, Zenon
  <2>8. \A x \in Tasks : x \notin new => (Live(x)' <=> Live(x)) /\ (Done(x)' <=> Done(x)) /\ (Finished(x)' <=> Finished(x))
    BY <2>1 DEF Live, Done, Finished
  <2>9. Gate'
    <3> SUFFICES ASSUME NEW d \in Batches
                 PROVE  /\ stage'[RetireCmd(d)] \notin {"absent", "idle"} =>
                              /\ pending'[RetireCmd(d)] = 0
                              /\ Finished(IssueCmd(d))' /\ \A x \in CommandsOf(d) : Finished(x)'
                        /\ stage'[RetireCmd(d)] = "idle" =>
                              \/ Cardinality(Sources(RetireCmd(d))') < pending'[RetireCmd(d)]
                              \/ /\ completion'[IssueCmd(d)] = RetireCmd(d) \/ Finished(IssueCmd(d))'
                                 /\ \A x \in CommandsOf(d) : Live(x)' => completion'[x] = RetireCmd(d)
      BY Zenon DEF Gate
    <3> DEFINE R == RetireCmd(d)
    <3>1. R \in Tasks /\ R \notin new /\ IssueCmd(d) \in Tasks /\ IssueCmd(d) \notin new
      BY <2>4, <2>7, Zenon
    <3>2. ASSUME stage'[R] \notin {"absent", "idle"}
          PROVE  pending'[R] = 0 /\ Finished(IssueCmd(d))' /\ \A x \in CommandsOf(d) : Finished(x)'
      <4>1. stage[R] \notin {"absent", "idle"}
        BY <2>1, <3>1, <3>2, Zenon
      <4>2. pending[R] = 0 /\ Finished(IssueCmd(d)) /\ \A x \in CommandsOf(d) : Finished(x)
        BY <4>1, Zenon DEF Gate
      <4>3. pending'[R] = 0
        BY <3>1, <4>2, <1>2, Zenon
      <4>4. \A x \in CommandsOf(d) : x \notin new
        BY <2>5, <2>6, <4>2, Zenon
      <4> QED
        BY <2>7, <2>8, <3>1, <4>2, <4>3, <4>4, ZenonT(60)
    <3>3. ASSUME stage'[R] = "idle"
          PROVE  \/ Cardinality(Sources(R)') < pending'[R]
                 \/ /\ completion'[IssueCmd(d)] = R \/ Finished(IssueCmd(d))'
                    /\ \A x \in CommandsOf(d) : Live(x)' => completion'[x] = R
      <4>1. stage[R] = "idle"
        BY <2>1, <3>1, <3>3, Zenon
      <4>2. CASE Cardinality(Sources(R)) < pending[R]
        <5>1. Cardinality(Sources(R)) \in Nat /\ pending[R] \in Nat /\ Cardinality(Sources(R)') \in Nat
          BY <3>1, IntoCount, ZenonT(60) DEF Sources, Typed
        <5>2. CASE completion[p] = R
          <6>1. /\ Cardinality(Sources(R)') <= Cardinality(Sources(R)) + Cardinality(new)
                /\ Cardinality(new) \in Nat /\ pending'[R] = pending[R] + Cardinality(new)
            BY <3>1, <5>2, <1>2, Zenon
          <6> QED
            BY <4>2, <5>1, <6>1, SMTT(60)
        <5>3. CASE completion[p] # R
          <6>1. Cardinality(Sources(R)') <= Cardinality(Sources(R)) /\ pending'[R] = pending[R]
            BY <3>1, <5>3, <1>2, Zenon
          <6> QED
            BY <4>2, <5>1, <6>1, SMTT(60)
        <5> QED
          BY <5>2, <5>3, Zenon
      <4>3. CASE /\ completion[IssueCmd(d)] = R \/ Finished(IssueCmd(d))
                 /\ \A x \in CommandsOf(d) : Live(x) => completion[x] = R
        <5>1. completion'[IssueCmd(d)] = R \/ Finished(IssueCmd(d))'
          BY <2>2, <2>8, <3>1, <4>3, Zenon
        <5>2. \A x \in CommandsOf(d) : Live(x)' => completion'[x] = R
          BY <2>2, <2>3, <2>5, <2>6, <2>7, <2>8, <4>3, ZenonT(60)
        <5> QED
          BY <5>1, <5>2, Zenon
      <4> QED
        BY <4>1, <4>2, <4>3, ZenonT(60) DEF Gate
    <3> QED
      BY <3>2, <3>3, Zenon
  <2>10. FenceLast'
    <3>2. \A d : Fence(d) # p
      BY <1>1, Zenon
    <3>1. \A d \in Batches : stage'[Fence(d)] = stage[Fence(d)] /\ holder'[Fence(d)] = holder[Fence(d)]
      BY <2>1, <2>2, <2>4, <2>7, <3>2, Zenon
    <3> QED
      BY <2>2, <2>4, <2>7, <2>8, <3>1, Zenon DEF FenceLast
  <2> QED
    BY <2>9, <2>10, ZenonT(60)
<1>7. ScopeExact' /\ FreedLast' /\ TailInFlight' /\ InCall' /\ Fresh'
  <2> USE DEF IInv
  <2>1. \A x \in Tasks : \/ x \notin new /\ stage'[x] = stage[x]
                         \/ x \in new /\ stage'[x] = "local" /\ holder'[x] = p
                         \/ x = p /\ x \notin new /\ stage[x] = "ready" /\ stage'[x] = "running"
    BY <1>3
  <2>2. \A x \in Tasks : x \notin new => completion'[x] = completion[x] /\ holder'[x] = holder[x]
    BY Zenon DEF Runs
  <2>3. \A d : WaitCmd(d) \notin new /\ IssueCmd(d) \notin new /\ RetireCmd(d) \notin new /\ Fence(d) \notin new
    BY <1>1, Zenon
  <2>4. UNCHANGED <<tail, scope, at, step, freed>>
    BY Zenon DEF Runs
  <2>5. \A d \in Batches : WaitCmd(d) \in Tasks /\ IssueCmd(d) \in Tasks /\ RetireCmd(d) \in Tasks /\ Fence(d) \in Tasks
    BY Members, Zenon
  <2>6. \A d \in Batches : stage'[Fence(d)] = stage[Fence(d)]
    <3>1. \A d : Fence(d) # p
      BY <1>1, Zenon
    <3> QED
      BY <2>1, <2>3, <2>5, <3>1, ZenonT(60)
  <2>7. \A d \in Batches : stage'[IssueCmd(d)] \in {"absent", "done"} \/ stage[IssueCmd(d)] \in {"absent", "done"} =>
                              stage'[IssueCmd(d)] = stage[IssueCmd(d)]
    BY <2>1, <2>3, <2>5, Zenon
  <2>8. \A d \in Batches : Done(RetireCmd(d)) => Done(RetireCmd(d))'
    BY <2>1, <2>3, <2>5, Zenon DEF Done
  <2>9. ScopeExact'
    <3>1. \A d \in Batches : Open(d)' <=> Open(d)
      BY <2>4, <2>6, ZenonT(60) DEF Open
    <3> QED
      BY <2>4, <3>1, Zenon DEF ScopeExact
  <2>10. FreedLast'
    BY <2>4, <2>7, <2>8, Zenon DEF FreedLast, Typed
  <2>11. TailInFlight'
    BY <2>4, <2>7, Zenon DEF TailInFlight
  <2>12. InCall'
    <3>1. \A u \in Users, d \in Batches : Chaining(u, d)' <=> Chaining(u, d)
      BY <2>4, Zenon DEF Chaining
    <3>2. \A u \in Users : step'[u] = "chain" => \E d \in Batches : Chaining(u, d)'
      BY <2>4, <3>1, Zenon DEF InCall
    <3>3. ASSUME NEW u \in Users, NEW d \in Batches, Chaining(u, d)'
          PROVE  /\ (stage[Root(d)] = "local" /\ holder[Root(d)] = u /\ Sources(Root(d)) = {})'
                 /\ \A q \in Queues : tail'[q] # IssueCmd(d)
      <4>1. /\ stage[Root(d)] = "local" /\ holder[Root(d)] = u /\ Sources(Root(d)) = {}
            /\ \A q \in Queues : tail[q] # IssueCmd(d)
        BY <3>1, <3>3, Zenon DEF InCall
      <4>2. Root(d) \in Tasks /\ Root(d) \notin new
        BY <2>3, <2>5, ZenonT(60) DEF Root
      <4>3. stage'[Root(d)] = "local" /\ holder'[Root(d)] = u
        BY <2>1, <2>2, <4>1, <4>2, Zenon
      <4>4. Sources(Root(d))' = {}
        BY <4>1, <4>2, <1>2, Zenon DEF Root
      <4> QED
        BY <2>4, <4>1, <4>3, <4>4, Zenon DEF Root
    <3> QED
      BY <3>2, <3>3, Zenon DEF InCall
  <2>13. Fresh'
    BY <2>4, <2>7, ZenonT(60) DEF Fresh, Ahead
  <2> QED
    BY <2>9, <2>10, <2>11, <2>12, <2>13, Zenon
<1>8. Apart'
  <2> USE DEF IInv
  <2> SUFFICES ASSUME chained = {}, NEW d \in Batches
               PROVE  /\ completion'[IssueCmd(d)] \in {RetireCmd(d), NoTask}
                      /\ stage'[IssueCmd(d)] # "idle" => pending'[IssueCmd(d)] = 0
                      /\ \A x \in CommandsOf(d) :
                           /\ completion'[x] \in {RetireCmd(d), NoTask}
                           /\ stage'[x] \in {"ready", "running", "retired", "done"} => Done(IssueCmd(d))'
                           /\ stage'[x] = "local" => holder'[x] = IssueCmd(d) /\ stage'[IssueCmd(d)] \in {"running", "retired"}
                      /\ Waits[d] # {} =>
                           /\ stage'[IssueCmd(d)] = "local" => holder'[IssueCmd(d)] = WaitCmd(d) \/ Done(WaitCmd(d))'
                           /\ stage'[IssueCmd(d)] \in {"ready", "running", "retired", "done"} => Done(WaitCmd(d))'
                      /\ stage'[RetireCmd(d)] = "local" => holder'[RetireCmd(d)] = IssueCmd(d) \/ Done(IssueCmd(d))'
                      /\ stage'[RetireCmd(d)] \in {"ready", "running", "retired", "done"} => Done(IssueCmd(d))'
    BY ZenonT(60) DEF Apart, Runs
  <2> DEFINE I == IssueCmd(d)
             R == RetireCmd(d)
  <2>1. \A x \in Tasks : \/ x \notin new /\ stage'[x] = stage[x]
                         \/ x \in new /\ stage'[x] = "local" /\ holder'[x] = p
                         \/ x = p /\ x \notin new /\ stage[x] = "ready" /\ stage'[x] = "running"
    BY <1>3, Zenon
  <2>2. \A x \in Tasks : x \notin new => completion'[x] = completion[x] /\ holder'[x] = holder[x]
    BY Zenon DEF Runs
  <2>3. \A x \in Tasks : x \in new => completion'[x] = completion[p]
    BY Zenon DEF Runs
  <2>4. /\ I \in Tasks /\ R \in Tasks /\ WaitCmd(d) \in Tasks /\ \A x \in CommandsOf(d) : x \in Tasks
        /\ I \notin new /\ R \notin new /\ WaitCmd(d) \notin new
    BY <1>1, Members, Zenon
  <2>5. \A x \in CommandsOf(d) : x \in new => p = I
    BY <1>1, TimepointApart, CommandApart, Zenon
  <2>6. p \in Tasks /\ stage[p] = "ready"
    BY <1>1, ZenonT(60) DEF Running
  <2>7. (Done(I) => Done(I)') /\ (Done(WaitCmd(d)) => Done(WaitCmd(d))')
    BY <2>1, <2>4, Zenon DEF Done
  <2>8. \A x \in Tasks : x \notin new =>
           /\ stage'[x] \in {"ready", "running", "retired", "done"} => stage[x] \in {"ready", "running", "retired", "done"}
           /\ stage'[x] = "local" => stage[x] = "local"
           /\ stage'[x] # "idle" => stage[x] # "idle"
           /\ stage[x] \in {"running", "retired"} => stage'[x] \in {"running", "retired"}
    BY <2>1, Zenon
  <2>9. stage'[I] # "idle" => pending'[I] = 0
    <3> SUFFICES ASSUME stage'[I] # "idle" PROVE pending'[I] = 0
      OBVIOUS
    <3>1. pending[I] = 0
      BY <2>4, <2>8, Zenon DEF Apart
    <3> QED
      BY <2>4, <3>1, <1>2, Zenon
  <2>10. ASSUME NEW x \in CommandsOf(d)
         PROVE  /\ completion'[x] \in {R, NoTask}
                /\ stage'[x] \in {"ready", "running", "retired", "done"} => Done(I)'
                /\ stage'[x] = "local" => holder'[x] = I /\ stage'[I] \in {"running", "retired"}
    <3>1. CASE x \in new
      <4>1. p = I /\ x \in Tasks
        BY <2>4, <2>5, <3>1, ZenonT(60)
      <4>2. stage'[I] = "running" /\ stage'[x] = "local" /\ holder'[x] = I
        BY <2>1, <2>4, <2>6, <3>1, <4>1, Zenon DEF Runs
      <4>3. completion'[x] \in {R, NoTask}
        BY <2>3, <3>1, <4>1, Zenon DEF Apart
      <4> QED
        BY <4>2, <4>3, Zenon
    <3>2. CASE x \notin new
      BY <2>2, <2>4, <2>7, <2>8, <3>2, Zenon DEF Apart
    <3> QED
      BY <3>1, <3>2, ZenonT(60)
  <2>11. Waits[d] # {} =>
            /\ stage'[I] = "local" => holder'[I] = WaitCmd(d) \/ Done(WaitCmd(d))'
            /\ stage'[I] \in {"ready", "running", "retired", "done"} => Done(WaitCmd(d))'
    BY <2>2, <2>4, <2>7, <2>8, Zenon DEF Apart
  <2>12. /\ stage'[R] = "local" => holder'[R] = I \/ Done(I)'
         /\ stage'[R] \in {"ready", "running", "retired", "done"} => Done(I)'
    BY <2>2, <2>4, <2>7, <2>8, Zenon DEF Apart
  <2>13. completion'[I] \in {R, NoTask}
    BY <2>2, <2>4, Zenon DEF Apart
  <2> QED
    BY <2>9, <2>10, <2>11, <2>12, <2>13, Zenon
<1> QED
  BY <1>4, <1>5, <1>6, <1>7, <1>8, Zenon DEF IInv

-----------------------------------------------------------------------------
\* The calls of the host threads.
LEMMA SubmitArg ==
    ASSUME Typed, NEW u \in Users, Calls(u, "submit")
    PROVE  /\ at[u] \in DOMAIN Programs[u] /\ Arg(u) \in Batches
           /\ Programs[u][at[u]] = <<"submit", Arg(u)>> /\ Ahead(u, at[u])
<1>1. Programs[u] \in Seq(Ops) /\ at[u] \in Nat \ {0}
  BY QueueAssumption, Zenon DEF Typed
<1>2. at[u] \in DOMAIN Programs[u]
  BY <1>1, SMTT(60) DEF Calls
<1>3. Programs[u][at[u]] \in Ops /\ Programs[u][at[u]][1] = "submit"
  BY <1>1, <1>2, SMTT(60) DEF Calls
<1>4. Programs[u][at[u]] \in {"submit"} \X Batches
  BY <1>3, Zenon DEF Ops
<1>5. Arg(u) \in Batches /\ Programs[u][at[u]] = <<"submit", Arg(u)>>
  BY <1>4 DEF Arg
<1>6. Ahead(u, at[u])
  BY ZenonT(60) DEF Ahead, Calls
<1> QED
  BY <1>2, <1>5, <1>6, Zenon

\* A signal names a semaphore and a value.
LEMMA SignalArg ==
    ASSUME Typed, NEW u \in Users, Calls(u, "signal")
    PROVE  Arg(u)[1] \in Semaphores /\ Arg(u)[2] \in Nat
<1>1. Programs[u] \in Seq(Ops) /\ at[u] \in Nat \ {0}
  BY QueueAssumption, Zenon DEF Typed
<1>2. at[u] \in DOMAIN Programs[u]
  BY <1>1 DEF Calls
<1>3. Programs[u][at[u]] \in Ops /\ Programs[u][at[u]][1] = "signal"
  BY <1>1, <1>2, SMTT(60) DEF Calls
<1>4. Programs[u][at[u]] \in {"signal"} \X (Semaphores \X Nat)
  BY <1>3, Zenon DEF Ops
<1> QED
  BY <1>4, Zenon DEF Arg

\* A batch is submitted by one call.
LEMMA OneCall ==
    ASSUME NEW u \in Users, NEW v \in Users, NEW i \in DOMAIN Programs[u], NEW j \in DOMAIN Programs[v], NEW b,
           Programs[u][i] = <<"submit", b>>, Programs[v][j] = <<"submit", b>>
    PROVE  u = v /\ i = j
<1>1. Programs[u][i][1] = "submit" /\ Programs[v][j] = Programs[u][i]
  OBVIOUS
<1>2. \A x, y \in Users : \A k \in DOMAIN Programs[x], l \in DOMAIN Programs[y] :
         Programs[x][k][1] = "submit" /\ Programs[y][l] = Programs[x][k] => x = y /\ k = l
  BY QueueAssumption, Zenon
<1> QED
  BY <1>1, <1>2, Zenon

\* What depends on the tasks alone stays when they do.
LEMMA TasksStay ==
    ASSUME IInv, UNCHANGED <<tasks, chained>>
    PROVE  /\ Linked' /\ Counted' /\ FinishedFree' /\ AbsentFree' /\ Free' /\ Built' /\ WaitPhase'
           /\ Issued' /\ Gate' /\ FenceLast' /\ Apart'
<1> USE DEF IInv
<1>1. UNCHANGED <<pending, completion, stage, holder, chained>>
  BY Zenon DEF tasks
<1>2. \A x : Sources(x)' = Sources(x)
  BY <1>1, Zenon DEF Sources, Into
<1>3. Linked' /\ Counted'
  BY <1>1, <1>2, Zenon DEF Linked, Counted
<1>4. FinishedFree' /\ AbsentFree'
  BY <1>1, <1>2, Zenon DEF FinishedFree, AbsentFree, Finished
<1>5. Free' /\ Built' /\ WaitPhase'
  <2>1. Free'
    BY <1>1, Zenon DEF Free
  <2>2. Built'
    BY <1>1, Zenon DEF Built
  <2>3. WaitPhase'
    BY <1>1, Zenon DEF WaitPhase, Live, Done
  <2> QED
    BY <2>1, <2>2, <2>3, Zenon
<1>6. Issued'
  BY <1>1, Zenon DEF Issued, WaitsOver, Finished
<1>7. Gate'
  BY <1>1, <1>2, Zenon DEF Gate, Finished, Live
<1>8. FenceLast'
  BY <1>1, Zenon DEF FenceLast, Finished, Done
<1>9. Apart'
  BY <1>1, Zenon DEF Apart, Done
<1> QED
  BY <1>3, <1>4, <1>5, <1>6, <1>7, <1>8, <1>9, Zenon

\* A call that builds nothing more ends.
LEMMA CallEnds ==
    ASSUME IInv, UNCHANGED <<tasks, tail, step>>, NEW u \in Users, step[u] = "call",
           NEW n \in Nat, n > at[u], at' = [at EXCEPT ![u] = n],
           \A b \in freed' : b \in freed \/ (at[u] \in DOMAIN Programs[u] /\ Programs[u][at[u]] = <<"submit", b>>)
    PROVE  InCall' /\ Fresh'
<1> USE DEF IInv
<1>1. UNCHANGED <<completion, stage, holder, tail, step>>
  BY ZenonT(60) DEF tasks
<1>2. \A v \in Users : IF v = u THEN at'[v] = n ELSE at'[v] = at[v]
  BY Zenon DEF Typed
<1>3. InCall'
  <2>1. \A v \in Users, b \in Batches : step[v] = "chain" => (Chaining(v, b)' <=> Chaining(v, b))
    BY <1>1, <1>2, Zenon DEF Chaining
  <2>2. \A v \in Users, b \in Batches : Chaining(v, b)' => step[v] = "chain"
    BY <1>1, Zenon DEF Chaining
  <2>3. \A v \in Users, b \in Batches : Chaining(v, b)' => Chaining(v, b)
    BY <2>1, <2>2, Zenon
  <2>4. \A b : Sources(Root(b))' = Sources(Root(b))
    BY <1>1, Zenon DEF Sources, Into, Root
  <2>5. \A b : stage'[Root(b)] = stage[Root(b)] /\ holder'[Root(b)] = holder[Root(b)]
    BY <1>1, Zenon
  <2>6. \A v \in Users : step'[v] = "chain" => \E b \in Batches : Chaining(v, b)'
    <3> SUFFICES ASSUME NEW v \in Users, step'[v] = "chain" PROVE \E b \in Batches : Chaining(v, b)'
      BY Zenon
    <3>1. step[v] = "chain"
      BY <1>1, Zenon
    <3>2. PICK b \in Batches : Chaining(v, b)
      BY <3>1, Zenon DEF InCall
    <3> QED
      BY <2>1, <3>1, <3>2, Zenon
  <2>7. ASSUME NEW v \in Users, NEW b \in Batches, Chaining(v, b)'
        PROVE  /\ (stage[Root(b)] = "local" /\ holder[Root(b)] = v /\ Sources(Root(b)) = {})'
               /\ \A q \in Queues : tail'[q] # IssueCmd(b)
    <3>1. Chaining(v, b)
      BY <2>3, <2>7, Zenon
    <3>2. /\ stage[Root(b)] = "local" /\ holder[Root(b)] = v /\ Sources(Root(b)) = {}
          /\ \A q \in Queues : tail[q] # IssueCmd(b)
      BY <3>1, Zenon DEF InCall
    <3> QED
      BY <1>1, <2>4, <2>5, <3>2, Zenon DEF Root
  <2> QED
    BY <2>6, <2>7, ZenonT(60) DEF InCall
<1>4. Fresh'
  <2> SUFFICES ASSUME NEW v \in Users, NEW i \in DOMAIN Programs[v], NEW b \in Batches,
                      Programs[v][i] = <<"submit", b>>, Ahead(v, i)'
               PROVE  stage'[IssueCmd(b)] = "absent" /\ b \notin freed'
    BY ZenonT(60) DEF Fresh
  <2>1. i \in Nat /\ at[v] \in Nat /\ at[u] \in Nat
    <3>1. Programs[v] \in Seq(Ops)
      BY QueueAssumption, Zenon
    <3> QED
      BY <3>1 DEF Typed
  <2>2. Ahead(v, i) /\ (v = u => i # at[u])
    BY <1>1, <1>2, <2>1 DEF Ahead
  <2>3. stage[IssueCmd(b)] = "absent" /\ b \notin freed
    BY <2>2, ZenonT(60) DEF Fresh
  <2>4. ~(at[u] \in DOMAIN Programs[u] /\ Programs[u][at[u]] = <<"submit", b>>)
    BY <2>2, OneCall
  <2> QED
    BY <1>1, <2>3, <2>4, Zenon
<1> QED
  BY <1>3, <1>4, Zenon

\* The next position of a host thread's program.
LEMMA NextCall ==
    ASSUME IInv, NEW u \in Users, at' = [at EXCEPT ![u] = @ + 1]
    PROVE  /\ at[u] + 1 \in Nat /\ at[u] + 1 > at[u]
           /\ at' = [at EXCEPT ![u] = at[u] + 1]
BY DEF IInv, Typed

\* A submission begins in its queue's scope.
LEMMA ScopeOpens ==
    ASSUME Counting(Batches), Typed, ScopeExact, NEW b \in Batches, ~Open(b), Open(b)',
           \A d \in Batches : d # b => (Open(d)' <=> Open(d)), scope' = [scope EXCEPT ![Queue[b]] = @ + 1]
    PROVE  ScopeExact'
<1> SUFFICES ASSUME NEW q \in Queues PROVE scope'[q] = Cardinality({d \in Batches : Queue[d] = q /\ Open(d)'})
  BY Zenon DEF ScopeExact
<1> DEFINE S == {d \in Batches : Queue[d] = q /\ Open(d)}
           T == {d \in Batches : Queue[d] = q /\ Open(d)'}
<1>1. S \in SUBSET Batches
  OBVIOUS
<1>2. scope[q] = Cardinality(S)
  BY Zenon DEF ScopeExact
<1>3. Queue[b] \in Queues
  BY QueueAssumption, Zenon
<1>4. CASE q = Queue[b]
  <2>1. T = S \cup {b} /\ b \notin S
    BY <1>4, Zenon
  <2>2. Cardinality(T) = Cardinality(S) + 1
    <3> HIDE DEF S, T
    <3>1. Cardinality(S \cup {b}) = Cardinality(S) + 1
      BY <1>1, <2>1, CountMore, ZenonT(60)
    <3> QED
      BY <2>1, <3>1, Zenon
  <2>3. scope'[q] = scope[q] + 1
    BY <1>3, <1>4, Zenon DEF Typed
  <2> QED
    BY <1>2, <2>2, <2>3, Zenon
<1>5. CASE q # Queue[b]
  <2>1. T = S
    BY <1>5, Zenon
  <2>2. scope'[q] = scope[q]
    BY <1>5, Zenon DEF Typed
  <2> QED
    BY <1>2, <2>1, <2>2, Zenon
<1> QED
  BY <1>4, <1>5, Zenon

\* A submission ends.
LEMMA ScopeCloses ==
    ASSUME Counting(Batches), Typed, ScopeExact, NEW b \in Batches, Open(b), ~Open(b)',
           \A d \in Batches : d # b => (Open(d)' <=> Open(d)), scope' = [scope EXCEPT ![Queue[b]] = @ - 1]
    PROVE  ScopeExact' /\ scope[Queue[b]] >= 1
<1> DEFINE S(q) == {d \in Batches : Queue[d] = q /\ Open(d)}
           T(q) == {d \in Batches : Queue[d] = q /\ Open(d)'}
<1>1. \A q : S(q) \in SUBSET Batches /\ T(q) \in SUBSET Batches /\ Cardinality(S(q)) \in Nat
  <2>1. \A q : S(q) \in SUBSET Batches /\ T(q) \in SUBSET Batches
    OBVIOUS
  <2> QED
    BY <2>1, CountOf, Zenon
<1>2. \A q \in Queues : scope[q] = Cardinality(S(q))
  BY Zenon DEF ScopeExact
<1>3. Queue[b] \in Queues
  BY QueueAssumption, Zenon
<1>4. Cardinality(T(Queue[b])) = Cardinality(S(Queue[b])) - 1 /\ Cardinality(T(Queue[b])) \in Nat
  <2>1. T(Queue[b]) = S(Queue[b]) \ {b} /\ b \in S(Queue[b])
    OBVIOUS
  <2>3. Cardinality(S(Queue[b]) \ {b}) = Cardinality(S(Queue[b])) - 1
    BY <1>1, <2>1, CountLess, Zenon
  <2>4. Cardinality(T(Queue[b])) \in Nat
    BY <1>1, CountOf, Zenon
  <2> QED
    BY <2>1, <2>3, <2>4, Zenon
<1>5. \A q \in Queues : q # Queue[b] => T(q) = S(q)
  OBVIOUS
<1>6. scope[Queue[b]] >= 1
  BY <1>1, <1>2, <1>3, <1>4, SMTT(60)
<1>7. \A q \in Queues : scope'[q] = IF q = Queue[b] THEN scope[q] - 1 ELSE scope[q]
  BY Zenon DEF Typed
<1>8. \A q \in Queues : scope'[q] = Cardinality(T(q))
  <2> SUFFICES ASSUME NEW q \in Queues PROVE scope'[q] = Cardinality(T(q))
    BY Zenon
  <2>1. CASE q = Queue[b]
    BY <1>2, <1>3, <1>4, <1>7, <2>1, Zenon
  <2>2. CASE q # Queue[b]
    BY <1>2, <1>5, <1>7, <2>2, ZenonT(60)
  <2> QED
    BY <2>1, <2>2, Zenon
<1>9. ScopeExact'
  BY <1>8, Zenon DEF ScopeExact
<1> QED
  BY <1>6, <1>9, Zenon

\* wait_idle only ends its call.
LEMMA WaitIdleKeeps ==
    ASSUME IInv, NEW u \in Users, WaitIdle(u)
    PROVE  IInv'
<1>1. Typed'
  BY DEF WaitIdle, tasks, IInv, Typed
<1>2. step[u] = "call" /\ UNCHANGED <<tasks, value, tail, scope, step, freed, chained, faulted>> /\ at' = [at EXCEPT ![u] = @ + 1]
  BY Zenon DEF WaitIdle, Calls
<1>3. InCall' /\ Fresh'
  BY <1>2, NextCall, CallEnds, Zenon
<1>4. /\ Linked' /\ Counted' /\ FinishedFree' /\ AbsentFree' /\ Free' /\ Built' /\ WaitPhase'
      /\ Issued' /\ Gate' /\ FenceLast' /\ Apart'
  BY <1>2, TasksStay, Zenon
<1>5. Waited' /\ ScopeExact' /\ FreedLast' /\ TailInFlight'
  BY <1>2, ZenonT(60) DEF IInv, Waited, ScopeExact, FreedLast, TailInFlight, Done, Open, tasks
<1> QED
  BY <1>1, <1>3, <1>4, <1>5, ZenonT(60) DEF IInv

\* A host signal raises a semaphore, which undoes no wait that is over.
LEMMA HostSignalKeeps ==
    ASSUME IInv, NEW u \in Users, HostSignal(u)
    PROVE  IInv'
<1>1. Arg(u)[1] \in Semaphores /\ Arg(u)[2] \in Nat
  BY SignalArg, Zenon DEF IInv, HostSignal
<1>2. /\ step[u] = "call" /\ UNCHANGED <<tasks, tail, scope, step, freed, chained, faulted>>
      /\ at' = [at EXCEPT ![u] = @ + 1]
  BY Zenon DEF HostSignal, Calls
<1>3. value' \in [Semaphores -> Nat] /\ \A s \in Semaphores : value'[s] >= value[s]
  BY <1>1 DEF HostSignal, IInv, Typed
<1>4. Typed'
  BY <1>2, <1>3 DEF tasks, IInv, Typed
<1>5. InCall' /\ Fresh'
  BY <1>2, NextCall, CallEnds, Zenon
<1>6. /\ Linked' /\ Counted' /\ FinishedFree' /\ AbsentFree' /\ Free' /\ Built' /\ WaitPhase'
      /\ Issued' /\ Gate' /\ FenceLast' /\ Apart'
  BY <1>2, TasksStay, Zenon
<1>7. ScopeExact' /\ FreedLast' /\ TailInFlight'
  <2>1. UNCHANGED <<stage, freed, tail, scope>>
    BY <1>2, Zenon DEF tasks
  <2>2. ScopeExact'
    BY <2>1, Zenon DEF IInv, ScopeExact, Open
  <2> QED
    BY <2>1, <2>2, Zenon DEF IInv, FreedLast, TailInFlight, Done
<1>8. Waited'
  <2>1. \A b \in Batches : \A w \in Waits[b] : value[w[1]] >= w[2] => value'[w[1]] >= w[2]
    <3> SUFFICES ASSUME NEW b \in Batches, NEW w \in Waits[b], value[w[1]] >= w[2] PROVE value'[w[1]] >= w[2]
      BY Zenon
    <3>1. w[1] \in Semaphores /\ w[2] \in Nat
      BY QueueAssumption
    <3>2. value'[w[1]] >= value[w[1]] /\ value[w[1]] \in Nat /\ value'[w[1]] \in Nat
      BY <1>3, <3>1, Zenon DEF IInv, Typed
    <3> QED
      BY <3>1, <3>2, SMT
  <2> QED
    BY <1>2, <2>1, Zenon DEF IInv, Waited, Done, tasks
<1> QED
  BY <1>4, <1>5, <1>6, <1>7, <1>8, Zenon DEF IInv

\* A failed submission that has a fence leaves it open in the scope for good and
\* drops the arena; one that has not even a retire command leaves nothing.
LEMMA BuildFailsKeeps ==
    ASSUME IInv, NEW u \in Users, BuildFails(u)
    PROVE  IInv'
<1> PICK b : b = Arg(u)
  OBVIOUS
<1>1. /\ at[u] \in DOMAIN Programs[u] /\ b \in Batches
      /\ Programs[u][at[u]] = <<"submit", b>> /\ Ahead(u, at[u])
  BY SubmitArg, Zenon DEF IInv, BuildFails
<1>2. step[u] = "call" /\ UNCHANGED <<tasks, value, tail, step, chained, faulted>>
  BY ZenonT(60) DEF BuildFails, Calls
<1>3. PICK n \in Nat : n > at[u] /\ at' = [at EXCEPT ![u] = n]
  <2>1. PICK i \in 1 .. Len(Programs[u]) : CallEndsAt(u, i) /\ at' = [at EXCEPT ![u] = i + 1]
    BY ZenonT(60) DEF BuildFails
  <2>2. Len(Programs[u]) \in Nat /\ at[u] \in Nat /\ i \in at[u] .. Len(Programs[u])
    <3>1. Programs[u] \in Seq(Ops)
      BY QueueAssumption, Zenon
    <3>2. i \in at[u] .. Len(Programs[u])
      BY <2>1, Zenon DEF CallEndsAt
    <3> QED
      BY <3>1, <3>2 DEF IInv, Typed
  <2>3. i + 1 \in Nat /\ i + 1 > at[u]
    BY <2>2, SMT
  <2> QED
    BY <2>1, <2>3, Zenon
<1>4. stage[IssueCmd(b)] = "absent" /\ b \notin freed
  BY <1>1, Zenon DEF IInv, Fresh
<1>5. stage[Fence(b)] = "absent"
  BY <1>1, <1>4, Zenon DEF IInv, Built, TasksOf
<1>6. UNCHANGED <<pending, completion, stage, holder>>
  BY <1>2, Zenon DEF tasks
<1>7. /\ Linked' /\ Counted' /\ FinishedFree' /\ AbsentFree' /\ Free' /\ Built' /\ WaitPhase'
      /\ Issued' /\ Gate' /\ FenceLast' /\ Apart'
  BY <1>2, TasksStay, Zenon
<1>8. Waited' /\ TailInFlight'
  BY <1>2, Zenon DEF IInv, Waited, TailInFlight, Done, tasks
<1>9. CASE scope' = [scope EXCEPT ![Queue[b]] = @ + 1] /\ freed' = freed \cup {b}
  <2>1. Typed'
    <3>1. Queue[b] \in Queues
      BY <1>1, QueueAssumption, Zenon
    <3>2. at' \in [Users -> Nat \ {0}]
      BY <1>3 DEF IInv, Typed
    <3> QED
      BY <1>1, <1>2, <1>6, <1>9, <3>1, <3>2, SMTT(60) DEF IInv, Typed
  <2>2. InCall' /\ Fresh'
    <3>1. \A d \in freed' : d \in freed \/ (at[u] \in DOMAIN Programs[u] /\ Programs[u][at[u]] = <<"submit", d>>)
      BY <1>1, <1>9, Zenon
    <3> QED
      BY <1>2, <1>3, <3>1, CallEnds, Zenon
  <2>3. ScopeExact'
    <3>1. ~Open(b) /\ Open(b)'
      BY <1>4, <1>5, <1>6, <1>9, Zenon DEF Open
    <3>2. \A d \in Batches : d # b => (Open(d)' <=> Open(d))
      BY <1>6, <1>9, Zenon DEF Open
    <3> QED
      BY <1>1, <1>9, <3>1, <3>2, ScopeOpens, Zenon DEF IInv
  <2>4. FreedLast'
    BY <1>4, <1>6, <1>9, Zenon DEF IInv, FreedLast, Done
  <2> QED
    BY <1>7, <1>8, <2>1, <2>2, <2>3, <2>4, Zenon DEF IInv
<1>10. CASE UNCHANGED <<scope, freed>>
  <2>1. Typed'
    <3>1. at' \in [Users -> Nat \ {0}]
      BY <1>3 DEF IInv, Typed
    <3> QED
      BY <1>2, <1>6, <1>10, <3>1, Zenon DEF IInv, Typed
  <2>2. InCall' /\ Fresh'
    BY <1>2, <1>3, <1>10, CallEnds, Zenon
  <2>3. ScopeExact' /\ FreedLast'
    BY <1>6, <1>10, ZenonT(60) DEF IInv, ScopeExact, FreedLast, Done, Open
  <2> QED
    BY <1>7, <1>8, <2>1, <2>2, <2>3, Zenon DEF IInv
<1> QED
  BY <1>9, <1>10, ZenonT(60) DEF BuildFails

-----------------------------------------------------------------------------
\* iree_hal_task_queue_submit ends with handing the batch to the executor.
LEMMA SubmitKeeps ==
    ASSUME IInv, NEW u \in Users, Submit(u)
    PROVE  IInv'
<1>1. stage' \in [Tasks -> Stages]
  BY Zenon DEF Submit, Merged, IInv, Typed, Stages
<1>2. Typed'
  BY <1>1, SMTT(60) DEF Submit, IInv, Typed
<1>3. Merges(u, {}, "ready")
  BY Zenon DEF Submit, Merged, Merges
<1>4. Merging(u, {}, "ready") /\ Handover(u, {}, "ready")
  BY Zenon DEF Submit, Merging, Handover
<1> QED
  BY <1>2, <1>3, <1>4, MergesKeeps, ZenonT(60)

\* The cleanup of a retired task hands over what it made ready.
LEMMA CleanupKeeps ==
    ASSUME IInv, NEW t \in Tasks, Cleanup(t)
    PROVE  IInv'
<1>1. Merged(t) \in [Tasks -> Stages]
  BY Zenon DEF Merged, IInv, Typed, Stages
<1>2. stage' \in [Tasks -> Stages] /\ \A x \in Tasks : stage'[x] = IF x = t THEN "done" ELSE Merged(t)[x]
  BY <1>1, Zenon DEF Cleanup, Stages
<1>3. tail' \in [Queues -> {IssueCmd(b) : b \in Batches} \cup {NoTask}] /\ freed' \subseteq Batches
  BY Zenon DEF Cleanup, TailWithout, FreedWith, IInv, Typed
<1>4. Typed'
  BY <1>2, <1>3, Zenon DEF Cleanup, IInv, Typed
<1>5. Merges(t, {t}, "done")
  <2>1. \A x \in Tasks : stage'[x] = IF x \in {t} THEN "done"
                                     ELSE IF stage[x] = "local" /\ holder[x] = t THEN "ready" ELSE stage[x]
    BY <1>2, Zenon DEF Merged
  <2> QED
    BY <2>1, Zenon DEF Cleanup, Merges
<1>6. Merging(t, {t}, "done") /\ Handover(t, {t}, "done")
  BY Zenon DEF Cleanup, Merging, Handover
<1> QED
  BY <1>4, <1>5, <1>6, MergesKeeps, ZenonT(60)

\* A call that returns retires, or goes back to waiting when it was given a new task to wait for.
LEMMA CallReturnsKeeps ==
    ASSUME IInv, NEW t \in Tasks, CallReturns(t)
    PROVE  IInv'
<1>1. CASE pending[t] = 0
  <2>1. completion[t] # t
    <3>1. Sources(t) = {}
      BY <1>1, NoCounts, Zenon DEF IInv
    <3> QED
      BY <3>1, Zenon DEF Sources, Into
  <2>2. completion[t] \in Tasks \/ completion[t] = NoTask
    BY Zenon DEF IInv, Typed
  <2>3. completion[t] \in Tasks => pending[completion[t]] \in Nat /\ pending[completion[t]] >= 1
    BY Counts, Zenon DEF IInv
  <2>4. /\ Retire(t) /\ stage[t] = "running"
        /\ UNCHANGED <<value, tail, scope, at, step, freed, chained, faulted>>
    BY <1>1, ZenonT(60) DEF CallReturns
  <2>5. completion' \in [Tasks -> Tasks \cup {NoTask}] /\ completion' = [completion EXCEPT ![t] = NoTask]
    BY <2>4, Zenon DEF Retire, IInv, Typed
  <2>6. CASE completion[t] = NoTask
    <3>1. stage' = [stage EXCEPT ![t] = "retired"] /\ UNCHANGED <<pending, holder>>
      BY <2>4, <2>6, ZenonT(60) DEF Retire
    <3>2. Typed'
      BY <2>4, <2>5, <3>1, Zenon DEF IInv, Typed, Stages
    <3>3. \A x \in Tasks : x # completion[t]
      BY <2>6, NoTaskApart, ZenonT(60)
    <3>4. Completes(t, "retired", "local")
      BY <2>4, <2>5, <3>1, <3>3, Zenon DEF Completes, IInv, Typed
    <3>5. Completing(t, "retired", "local")
      BY <1>1, <2>4, Zenon DEF Completing
    <3> QED
      BY <3>2, <3>4, <3>5, CompletesKeeps, Zenon
  <2>7. CASE completion[t] \in Tasks
    <3>1. completion[t] # NoTask
      BY <2>7, NoTaskApart, ZenonT(60)
    <3>2. pending' = [pending EXCEPT ![completion[t]] = @ - 1] /\ pending' \in [Tasks -> Nat]
      BY <2>3, <2>4, <2>7, <3>1, SMTT(60) DEF Retire, IInv, Typed
    <3>3. CASE pending[completion[t]] = 1
      <4>1. /\ stage' = [stage EXCEPT ![t] = "retired", ![completion[t]] = "local"]
            /\ holder' = [holder EXCEPT ![completion[t]] = t]
        BY <2>4, <3>1, <3>3, ZenonT(60) DEF Retire
      <4>2. Typed'
        BY <2>4, <2>5, <2>7, <3>2, <4>1, Zenon DEF IInv, Typed, Stages
      <4>3. Completes(t, "retired", "local")
        BY <2>1, <2>4, <2>5, <2>7, <3>2, <3>3, <4>1, Zenon DEF Completes, IInv, Typed
      <4>4. Completing(t, "retired", "local")
        BY <1>1, <2>4, Zenon DEF Completing
      <4> QED
        BY <4>2, <4>3, <4>4, CompletesKeeps, Zenon
    <3>4. CASE pending[completion[t]] # 1
      <4>1. stage' = [stage EXCEPT ![t] = "retired"] /\ holder' = holder
        BY <2>4, <3>1, <3>4, ZenonT(60) DEF Retire
      <4>2. Typed'
        BY <2>4, <2>5, <2>7, <3>2, <4>1, Zenon DEF IInv, Typed, Stages
      <4>3. Completes(t, "retired", "local")
        BY <2>1, <2>4, <2>5, <2>7, <3>2, <4>1, Zenon DEF Completes, IInv, Typed
      <4>4. Completing(t, "retired", "local")
        BY <1>1, <2>4, Zenon DEF Completing
      <4> QED
        BY <4>2, <4>3, <4>4, CompletesKeeps, Zenon
    <3> QED
      BY <3>3, <3>4, Zenon
  <2> QED
    BY <2>2, <2>6, <2>7, Zenon
<1>2. CASE pending[t] # 0
  <2>1. /\ stage[t] = "running" /\ stage' = [Merged(t) EXCEPT ![t] = "idle"]
        /\ UNCHANGED <<pending, completion, holder, value, tail, scope, at, step, freed, chained, faulted>>
    BY <1>2, Zenon DEF CallReturns
  <2>2. Merged(t) \in [Tasks -> Stages]
    BY DEF Merged, IInv, Typed, Stages
  <2>3. stage' \in [Tasks -> Stages] /\ \A x \in Tasks : stage'[x] = IF x = t THEN "idle" ELSE Merged(t)[x]
    BY <2>1, <2>2, Zenon DEF Stages
  <2>4. Typed'
    BY <2>1, <2>3, Zenon DEF IInv, Typed
  <2>5. t \in Issues
    <3>1. PICK b \in Batches : \/ t = WaitCmd(b) \/ t \in Timepoints(b) \/ t = IssueCmd(b)
                              \/ t \in CommandsOf(b) \/ t = RetireCmd(b) \/ t = Fence(b)
      BY Kinds, Zenon
    <3>2. t # WaitCmd(b) /\ t \notin Timepoints(b) /\ t \notin CommandsOf(b)
      BY <1>2, ZenonT(60) DEF IInv, Free
    <3>3. t # Fence(b)
      BY <2>1, Zenon DEF IInv, Free
    <3>4. t # RetireCmd(b)
      BY <1>2, <2>1, Zenon DEF IInv, Gate
    <3> QED
      BY <3>1, <3>2, <3>3, <3>4, Zenon DEF Issues
  <2>6. chained # {}
    BY <1>2, <2>1, <2>5, ZenonT(60) DEF IInv, Apart, Issues
  <2>7. Merges(t, {t}, "idle")
    <3>1. \A x \in Tasks : stage'[x] = IF x \in {t} THEN "idle"
                                       ELSE IF stage[x] = "local" /\ holder[x] = t THEN "ready" ELSE stage[x]
      BY <2>3, Zenon DEF Merged
    <3> QED
      BY <2>1, <3>1, ZenonT(60) DEF Merges
  <2>8. Merging(t, {t}, "idle") /\ Handover(t, {t}, "idle")
    BY <2>1, <2>5, <2>6, Zenon DEF Merging, Handover
  <2> QED
    BY <2>4, <2>7, <2>8, MergesKeeps, Zenon
<1> QED
  BY <1>1, <1>2, Zenon

\* A timepoint that is reached completes.
LEMMA TimepointReachedKeeps ==
    ASSUME IInv, NEW b \in Batches, NEW w \in Waits[b], TimepointReached(b, w)
    PROVE  IInv'
<1> PICK t : t = Timepoint(b, w)
  OBVIOUS
<1>1. t \in Timepoints(b) /\ t \in Tasks /\ stage[t] = "ready" /\ value[w[1]] >= w[2]
  BY Members, ZenonT(60) DEF TimepointReached
<1>2. completion[t] = IssueCmd(b) /\ IssueCmd(b) \in Tasks /\ IssueCmd(b) # t
  <2>1. Live(t)
    BY <1>1, Zenon DEF Live
  <2> QED
    BY <1>1, <2>1, Members, TimepointApart, ZenonT(60) DEF IInv, WaitPhase
<1>3. pending[IssueCmd(b)] \in Nat /\ pending[IssueCmd(b)] >= 1
  BY <1>1, <1>2, Counts, ZenonT(60) DEF IInv
<1>4. /\ completion' = [completion EXCEPT ![t] = NoTask]
      /\ pending' = [pending EXCEPT ![IssueCmd(b)] = @ - 1]
      /\ stage' = [stage EXCEPT ![t] = "done", ![IssueCmd(b)] = IF pending[IssueCmd(b)] = 1 THEN "ready" ELSE @]
      /\ UNCHANGED <<holder, value, tail, scope, at, step, freed, chained, faulted>>
  BY <1>2, ZenonT(60) DEF TimepointReached
<1>5. Typed'
  <2>1. pending' \in [Tasks -> Nat]
    BY <1>2, <1>3, <1>4, SMTT(60) DEF IInv, Typed
  <2>2. completion' \in [Tasks -> Tasks \cup {NoTask}]
    <3>1. completion \in [Tasks -> Tasks \cup {NoTask}] /\ completion' = [completion EXCEPT ![t] = NoTask]
      BY <1>4, Zenon DEF IInv, Typed
    <3> QED
      BY <1>1, <3>1, Zenon
  <2>3. stage' \in [Tasks -> Stages]
    <3>1. stage \in [Tasks -> Stages] /\ "done" \in Stages /\ "ready" \in Stages
      BY Zenon DEF IInv, Typed, Stages
    <3>2. CASE pending[IssueCmd(b)] = 1
      BY <1>2, <1>4, <3>1, <3>2, Zenon
    <3>3. CASE pending[IssueCmd(b)] # 1
      BY <1>2, <1>4, <3>1, <3>3, Zenon
    <3> QED
      BY <3>2, <3>3, ZenonT(60)
  <2> QED
    BY <1>4, <2>1, <2>2, <2>3, Zenon DEF IInv, Typed
<1>6. Completes(t, "done", "ready")
  BY <1>1, <1>2, <1>4, ZenonT(60) DEF Completes, IInv, Typed
<1>7. Completing(t, "done", "ready")
  BY <1>1, Zenon DEF Completing
<1> QED
  BY <1>1, <1>5, <1>6, <1>7, CompletesKeeps, ZenonT(60)

-----------------------------------------------------------------------------
\* A call that enqueues the tasks of `new` behind its own completion task.
LEMMA EnqueueRuns ==
    ASSUME IInv, NEW p \in Tasks, NEW new \in SUBSET Tasks, Enqueue(p, new, completion[p]),
           value' = value, faulted \subseteq faulted', faulted' \subseteq Batches,
           UNCHANGED <<tail, scope, at, step, freed, chained>>
    PROVE  Typed' /\ Runs(p, new)
<1> PICK c : c = completion[p]
  OBVIOUS
<1>1. Cardinality(new) \in Nat
  BY CountOf, Zenon DEF IInv
<1>2. c \in Tasks \cup {NoTask}
  BY Zenon DEF IInv, Typed
<1>3. /\ stage' = [t \in Tasks |-> IF t \in new THEN "local" ELSE IF t = p THEN "running" ELSE stage[t]]
      /\ holder' = [t \in Tasks |-> IF t \in new THEN p ELSE holder[t]]
      /\ completion' = [t \in Tasks |-> IF t \in new THEN c ELSE completion[t]]
      /\ pending' = [t \in Tasks |-> IF t = c THEN pending[t] + Cardinality(new) ELSE pending[t]]
  BY ZenonT(60) DEF Enqueue
<1>4. pending' \in [Tasks -> Nat]
  BY <1>1, <1>3, SMTT(60) DEF IInv, Typed
<1>5. completion' \in [Tasks -> Tasks \cup {NoTask}] /\ holder' \in [Tasks -> Tasks \cup Users \cup {NoTask}]
  BY <1>2, <1>3, Zenon DEF IInv, Typed
<1>6. stage' \in [Tasks -> Stages]
  BY <1>3, Zenon DEF IInv, Typed, Stages
<1>7. Typed'
  BY <1>4, <1>5, <1>6, Zenon DEF IInv, Typed
<1>8. \A x \in Tasks :
         /\ stage'[x] = IF x \in new THEN "local" ELSE IF x = p THEN "running" ELSE stage[x]
         /\ holder'[x] = IF x \in new THEN p ELSE holder[x]
         /\ completion'[x] = IF x \in new THEN c ELSE completion[x]
         /\ pending'[x] = IF x = c THEN pending[x] + Cardinality(new) ELSE pending[x]
  BY <1>3, ZenonT(60)
<1>9. \A s \in Semaphores : value'[s] >= value[s]
  BY DEF IInv, Typed
<1> QED
  BY <1>7, <1>8, <1>9, Zenon DEF Runs

\* The wait command enqueues a timepoint for each semaphore not reached.
LEMMA WaitCmdRunsKeeps ==
    ASSUME IInv, NEW b \in Batches, WaitCmdRuns(b)
    PROVE  IInv'
<1> DEFINE new == {Timepoint(b, w) : w \in Unreached(b)}
<1>1. WaitCmd(b) \in Tasks /\ new \subseteq Timepoints(b) /\ new \in SUBSET Tasks
  BY Members, Zenon DEF Unreached, Timepoints
<1>2. Typed' /\ Runs(WaitCmd(b), new)
  <2>1. /\ Enqueue(WaitCmd(b), new, completion[WaitCmd(b)]) /\ value' = value /\ faulted' = faulted
        /\ UNCHANGED <<tail, scope, at, step, freed, chained>>
    BY Zenon DEF WaitCmdRuns
  <2>2. faulted \subseteq faulted' /\ faulted' \subseteq Batches
    BY <2>1, Zenon DEF IInv, Typed
  <2> QED
    BY <1>1, <2>1, <2>2, EnqueueRuns, Zenon
<1>3. Running(WaitCmd(b), new, b)
  <2>1. \A w \in Waits[b] : Timepoint(b, w) \in new \/ value[w[1]] >= w[2]
    <3> SUFFICES ASSUME NEW w \in Waits[b], ~(value[w[1]] >= w[2]) PROVE w \in Unreached(b)
      BY ZenonT(60)
    <3>1. value[w[1]] \in Nat /\ w[2] \in Nat
      <4>1. w[1] \in Semaphores /\ w[2] \in Nat
        BY QueueAssumption
      <4> QED
        BY <4>1, Zenon DEF IInv, Typed
    <3> QED
      BY <3>1 DEF Unreached
  <2> QED
    BY <1>1, <2>1, ZenonT(60) DEF Running, WaitCmdRuns
<1> QED
  BY <1>2, <1>3, RunsKeeps, ZenonT(60)

\* The wait command that fails enqueues some of them.
LEMMA WaitCmdFailsKeeps ==
    ASSUME IInv, NEW b \in Batches, WaitCmdFails(b)
    PROVE  IInv'
<1>1. PICK some \in SUBSET Unreached(b) : Enqueue(WaitCmd(b), {Timepoint(b, w) : w \in some}, completion[WaitCmd(b)])
  BY ZenonT(60) DEF WaitCmdFails
<1> DEFINE new == {Timepoint(b, w) : w \in some}
<1>2. WaitCmd(b) \in Tasks /\ new \subseteq Timepoints(b) /\ new \in SUBSET Tasks
  BY Members, Zenon DEF Unreached, Timepoints
<1>3. /\ value' = value /\ faulted \subseteq faulted' /\ faulted' \subseteq Batches /\ b \in faulted'
      /\ UNCHANGED <<tail, scope, at, step, freed, chained>>
  BY Zenon DEF WaitCmdFails, IInv, Typed
<1>4. Typed' /\ Runs(WaitCmd(b), new)
  BY <1>1, <1>2, <1>3, EnqueueRuns, Zenon
<1>5. Running(WaitCmd(b), new, b)
  BY <1>2, <1>3, Zenon DEF Running, WaitCmdFails
<1> QED
  BY <1>4, <1>5, RunsKeeps, Zenon

\* The issue command issues the recorded commands of its batch.
LEMMA IssueCmdRunsKeeps ==
    ASSUME IInv, NEW b \in Batches, IssueCmdRuns(b)
    PROVE  IInv'
<1>1. IssueCmd(b) \in Tasks /\ CommandsOf(b) \in SUBSET Tasks
  BY Members, Zenon
<1>2. /\ Enqueue(IssueCmd(b), CommandsOf(b), completion[IssueCmd(b)]) /\ value' = value /\ faulted' = faulted
      /\ UNCHANGED <<tail, scope, at, step, freed, chained>>
  BY Zenon DEF IssueCmdRuns
<1>3. faulted \subseteq faulted' /\ faulted' \subseteq Batches
  BY <1>2, Zenon DEF IInv, Typed
<1>4. Typed' /\ Runs(IssueCmd(b), CommandsOf(b))
  BY <1>1, <1>2, <1>3, EnqueueRuns, Zenon
<1>5. Running(IssueCmd(b), CommandsOf(b), b)
  BY ZenonT(60) DEF Running, IssueCmdRuns
<1> QED
  BY <1>4, <1>5, RunsKeeps, Zenon

\* A call that enqueues nothing.
LEMMA CallRuns ==
    ASSUME IInv, NEW p \in Tasks, stage' = [stage EXCEPT ![p] = "running"],
           value' \in [Semaphores -> Nat], \A s \in Semaphores : value'[s] >= value[s],
           UNCHANGED <<pending, completion, holder, tail, scope, at, step, freed, chained, faulted>>
    PROVE  Typed' /\ Runs(p, {})
<1>1. Typed'
  BY Zenon DEF IInv, Typed, Stages
<1>2. \A x \in Tasks : stage'[x] = IF x = p THEN "running" ELSE stage[x]
  BY Zenon DEF IInv, Typed
<1>3. \A x \in Tasks : pending'[x] = pending[x] + Cardinality({})
  <2>1. Cardinality({}) = 0
    BY CountOf, Zenon DEF IInv
  <2> QED
    BY <2>1 DEF IInv, Typed
<1> QED
  BY <1>1, <1>2, <1>3, Zenon DEF Runs

\* A recorded command runs and issues nothing.
LEMMA CommandRunsKeeps ==
    ASSUME IInv, NEW b \in Batches, NEW c \in Commands[b], CommandRuns(b, c)
    PROVE  IInv'
<1> PICK t : t = Command(b, c)
  OBVIOUS
<1>1. t \in CommandsOf(b) /\ t \in Tasks
  BY Members, Zenon
<1>2. /\ stage[t] = "ready" /\ stage' = [stage EXCEPT ![t] = "running"]
      /\ UNCHANGED <<pending, completion, holder, value, tail, scope, at, step, freed, chained, faulted>>
  BY ZenonT(60) DEF CommandRuns
<1>3. value' \in [Semaphores -> Nat] /\ \A s \in Semaphores : value'[s] >= value[s]
  BY <1>2 DEF IInv, Typed
<1>4. Typed' /\ Runs(t, {})
  BY <1>1, <1>2, <1>3, CallRuns, Zenon
<1>5. Running(t, {}, b)
  BY <1>1, <1>2, Zenon DEF Running
<1> QED
  BY <1>4, <1>5, RunsKeeps, Zenon

\* The retire command raises semaphores and issues nothing.
LEMMA RetireCmdRunsKeeps ==
    ASSUME IInv, NEW b \in Batches, RetireCmdRuns(b)
    PROVE  IInv'
<1>1. RetireCmd(b) \in Tasks
  BY Members, Zenon
<1>2. /\ stage[RetireCmd(b)] = "ready" /\ stage' = [stage EXCEPT ![RetireCmd(b)] = "running"]
      /\ UNCHANGED <<pending, completion, holder, tail, scope, at, step, freed, chained, faulted>>
  BY ZenonT(60) DEF RetireCmdRuns
<1>3. ASSUME NEW s \in Semaphores, SignalsOn(b, s) # {}
      PROVE  Signals[b][Max(SignalsOn(b, s))][2] \in Nat /\ Signals[b][Max(SignalsOn(b, s))][2] > value[s]
  <2>1. Signals[b] \in Seq(Semaphores \X Nat)
    BY QueueAssumption, ZenonT(60)
  <2>2. SignalsOn(b, s) \in SUBSET (1 .. Len(Signals[b])) /\ Len(Signals[b]) \in Nat
    BY <2>1 DEF SignalsOn
  <2>3. PICK i : i = Max(SignalsOn(b, s))
    OBVIOUS
  <2>4. i \in SignalsOn(b, s)
    BY <1>3, <2>2, <2>3, Zenon DEF IInv, Maxima
  <2>5. i \in DOMAIN Signals[b] /\ Signals[b][i][1] = s /\ \A j \in 1 .. i : Increases(Signals[b], j)
    BY <2>4, ZenonT(60) DEF SignalsOn
  <2>6. i \in 1 .. i
    BY <2>1, <2>5
  <2>7. Signals[b][i][2] > value[s]
    BY <2>5, <2>6, ZenonT(60) DEF Increases
  <2>8. Signals[b][i] \in Semaphores \X Nat
    BY <2>1, <2>5, SMTT(60)
  <2> QED
    BY <2>3, <2>7, <2>8, Zenon
<1>4. value' \in [Semaphores -> Nat] /\ \A s \in Semaphores : value'[s] >= value[s]
  <2>1. value' = [s \in Semaphores |-> IF SignalsOn(b, s) = {} THEN value[s] ELSE Signals[b][Max(SignalsOn(b, s))][2]]
    BY Zenon DEF RetireCmdRuns
  <2>2. \A s \in Semaphores : value[s] \in Nat
    BY Zenon DEF IInv, Typed
  <2>3. ASSUME NEW s \in Semaphores PROVE value'[s] \in Nat /\ value'[s] >= value[s]
    <3>1. CASE SignalsOn(b, s) = {}
      BY <2>1, <2>2, <3>1, SMTT(60)
    <3>2. CASE SignalsOn(b, s) # {}
      <4>1. value'[s] = Signals[b][Max(SignalsOn(b, s))][2]
        BY <2>1, <3>2, Zenon
      <4>2. value'[s] \in Nat /\ value'[s] > value[s]
        BY <1>3, <3>2, <4>1, Zenon
      <4> QED
        BY <2>2, <4>2
    <3> QED
      BY <3>1, <3>2, ZenonT(60)
  <2> QED
    BY <2>1, <2>3, Zenon
<1>5. Typed' /\ Runs(RetireCmd(b), {})
  BY <1>1, <1>2, <1>4, CallRuns, Zenon
<1>6. Running(RetireCmd(b), {}, b)
  BY <1>2, Zenon DEF Running
<1> QED
  BY <1>5, <1>6, RunsKeeps, Zenon

\* The fence is the last task of its batch and closes its submission in the scope.
LEMMA FenceRetiresKeeps ==
    ASSUME IInv, NEW b \in Batches, FenceRetires(b)
    PROVE  IInv'
<1> USE DEF IInv
<1>1. /\ stage[Fence(b)] = "ready" /\ scope' = [scope EXCEPT ![Queue[b]] = @ - 1]
      /\ stage' = [stage EXCEPT ![Fence(b)] = "done"]
      /\ UNCHANGED <<pending, completion, holder, value, tail, at, step, freed, chained, faulted>>
  BY ZenonT(60) DEF FenceRetires
<1>2. Fence(b) \in Tasks /\ Done(RetireCmd(b))
  BY <1>1, Members, ZenonT(60) DEF FenceLast
<1>3. stage'[Fence(b)] = "done" /\ \A x \in Tasks : x # Fence(b) => stage'[x] = stage[x]
  BY <1>1, <1>2, Zenon DEF Typed
<1>4. \A d \in Batches :
         /\ WaitCmd(d) \in Tasks /\ WaitCmd(d) # Fence(b) /\ IssueCmd(d) \in Tasks /\ IssueCmd(d) # Fence(b)
         /\ RetireCmd(d) \in Tasks /\ RetireCmd(d) # Fence(b) /\ Fence(d) \in Tasks /\ (d # b => Fence(d) # Fence(b))
         /\ \A x \in Timepoints(d) : x \in Tasks /\ x # Fence(b)
         /\ \A x \in CommandsOf(d) : x \in Tasks /\ x # Fence(b)
  BY Members, FenceApart, SMTT(60)
<1>5. \A d \in Batches :
         /\ stage'[WaitCmd(d)] = stage[WaitCmd(d)] /\ stage'[IssueCmd(d)] = stage[IssueCmd(d)]
         /\ stage'[RetireCmd(d)] = stage[RetireCmd(d)] /\ (d # b => stage'[Fence(d)] = stage[Fence(d)])
         /\ \A x \in Timepoints(d) : stage'[x] = stage[x]
         /\ \A x \in CommandsOf(d) : stage'[x] = stage[x]
  BY <1>3, <1>4, Zenon
<1>6. \A x \in Tasks : Sources(x)' = Sources(x)
  BY <1>1, Zenon DEF Sources, Into
<1>7. Sources(Fence(b)) = {}
  <2>1. completion[RetireCmd(b)] = NoTask
    BY <1>2, Zenon DEF FenceLast, Done, Finished
  <2>2. \A t \in Tasks : completion[t] # Fence(b)
    BY <1>2, <2>1, TargetKinds, NoTaskApart, Zenon
  <2> QED
    BY <2>2, Zenon DEF Sources, Into
<1>8. Linked' /\ Counted'
  BY <1>1, <1>6, Zenon DEF Linked, Counted
<1>9. FinishedFree'
  BY <1>3, <1>6, <1>7, Zenon DEF FinishedFree, Finished
<1>10. AbsentFree'
  BY <1>1, <1>3, <1>6, ZenonT(60) DEF AbsentFree
<1>11. Free'
  BY <1>1, <1>3, <1>5, SMTT(60) DEF Free
<1>12. Built'
  <2>1. \A x \in Tasks : stage'[x] = "absent" <=> stage[x] = "absent"
    BY <1>1, <1>3, ZenonT(60)
  <2> QED
    BY <2>1, Members, ZenonT(60) DEF Built
<1>13. WaitPhase'
  <2>1. \A d \in Batches : (Live(WaitCmd(d))' <=> Live(WaitCmd(d))) /\ (Done(WaitCmd(d))' <=> Done(WaitCmd(d)))
    BY <1>5, Zenon DEF Live, Done
  <2>2. \A d \in Batches : \A x \in Timepoints(d) : Live(x)' <=> Live(x)
    BY <1>5, Zenon DEF Live
  <2> SUFFICES ASSUME NEW d \in Batches
               PROVE  /\ Live(WaitCmd(d))' => completion'[WaitCmd(d)] = IssueCmd(d) /\ stage'[IssueCmd(d)] = "idle"
                      /\ \A x \in Timepoints(d) :
                           /\ Live(x)' => completion'[x] = IssueCmd(d) /\ stage'[IssueCmd(d)] = "idle"
                           /\ stage'[x] # "absent" => stage'[WaitCmd(d)] \in {"running", "retired", "done"}
                           /\ stage'[x] \in {"ready", "done"} => Done(WaitCmd(d))'
                           /\ stage'[x] = "local" => holder'[x] = WaitCmd(d)
    BY Zenon DEF WaitPhase
  <2>3. Live(WaitCmd(d))' => completion'[WaitCmd(d)] = IssueCmd(d) /\ stage'[IssueCmd(d)] = "idle"
    BY <1>1, <1>5, <2>1, Zenon DEF WaitPhase
  <2>4. ASSUME NEW x \in Timepoints(d)
        PROVE  /\ Live(x)' => completion'[x] = IssueCmd(d) /\ stage'[IssueCmd(d)] = "idle"
               /\ stage'[x] # "absent" => stage'[WaitCmd(d)] \in {"running", "retired", "done"}
               /\ stage'[x] \in {"ready", "done"} => Done(WaitCmd(d))'
               /\ stage'[x] = "local" => holder'[x] = WaitCmd(d)
    <3>1. /\ stage'[x] = stage[x] /\ stage'[WaitCmd(d)] = stage[WaitCmd(d)] /\ stage'[IssueCmd(d)] = stage[IssueCmd(d)]
          /\ completion'[x] = completion[x] /\ holder'[x] = holder[x]
          /\ (Live(x)' <=> Live(x)) /\ (Done(WaitCmd(d))' <=> Done(WaitCmd(d)))
      BY <1>1, <1>5, <2>1, <2>2, Zenon
    <3> QED
      BY <3>1, ZenonT(60) DEF WaitPhase
  <2> QED
    BY <2>3, <2>4, Zenon
<1>14. Waited'
  <2>1. \A d \in Batches : \A w \in Waits[d] : stage'[Timepoint(d, w)] = stage[Timepoint(d, w)]
    BY <1>5, Members, Zenon
  <2> QED
    BY <1>1, <1>5, <2>1, ZenonT(60) DEF Waited, Done
<1>15. Issued'
  <2>1. \A d \in Batches : WaitsOver(d) => WaitsOver(d)'
    BY <1>5, Zenon DEF WaitsOver, Finished
  <2> QED
    BY <1>5, <2>1, Zenon DEF Issued
<1>16. Gate'
  <2>1. \A d \in Batches : Sources(RetireCmd(d))' = Sources(RetireCmd(d))
    BY <1>4, <1>6, Zenon
  <2> QED
    BY <1>1, <1>5, <2>1, ZenonT(60) DEF Gate, Live, Finished
<1>17. FenceLast'
  <2> SUFFICES ASSUME NEW d \in Batches
               PROVE  /\ Finished(RetireCmd(d))' => completion'[RetireCmd(d)] = NoTask
                      /\ stage'[Fence(d)] = "local" => holder'[Fence(d)] = RetireCmd(d) /\ Finished(RetireCmd(d))'
                      /\ stage'[Fence(d)] \in {"ready", "done"} => Done(RetireCmd(d))'
    BY Zenon DEF FenceLast
  <2>1. (Finished(RetireCmd(d))' <=> Finished(RetireCmd(d))) /\ (Done(RetireCmd(d))' <=> Done(RetireCmd(d)))
    BY <1>5, ZenonT(60) DEF Finished, Done
  <2>2. CASE d = b
    BY <1>1, <1>2, <1>3, <2>1, <2>2, ZenonT(60) DEF FenceLast
  <2>3. CASE d # b
    BY <1>1, <1>5, <2>1, <2>3, Zenon DEF FenceLast
  <2> QED
    BY <2>2, <2>3, Zenon
<1>18. ScopeExact' /\ scope[Queue[b]] >= 1
  <2>1. Open(b) /\ ~Open(b)'
    BY <1>1, <1>3, ZenonT(60) DEF Open
  <2>2. \A d \in Batches : d # b => (Open(d)' <=> Open(d))
    BY <1>1, <1>5, ZenonT(60) DEF Open
  <2> QED
    BY <1>1, <2>1, <2>2, ScopeCloses, ZenonT(60)
<1>19. FreedLast'
  BY <1>1, <1>5, ZenonT(60) DEF FreedLast, Typed, Done
<1>20. TailInFlight'
  BY <1>1, <1>5, ZenonT(60) DEF TailInFlight
<1>21. InCall'
  <2>1. \A d \in Batches : stage'[Root(d)] = stage[Root(d)]
    BY <1>5, Zenon DEF Root
  <2>2. \A d \in Batches : Sources(Root(d))' = Sources(Root(d))
    BY <1>4, <1>6, Zenon DEF Root
  <2>3. \A v \in Users, d \in Batches : Chaining(v, d)' <=> Chaining(v, d)
    BY <1>1, Zenon DEF Chaining
  <2>4. \A v \in Users : step'[v] = "chain" => \E d \in Batches : Chaining(v, d)'
    BY <1>1, <2>3, Zenon DEF InCall
  <2>5. ASSUME NEW v \in Users, NEW d \in Batches, Chaining(v, d)'
        PROVE  /\ (stage[Root(d)] = "local" /\ holder[Root(d)] = v /\ Sources(Root(d)) = {})'
               /\ \A q \in Queues : tail'[q] # IssueCmd(d)
    <3>1. /\ stage[Root(d)] = "local" /\ holder[Root(d)] = v /\ Sources(Root(d)) = {}
          /\ \A q \in Queues : tail[q] # IssueCmd(d)
      BY <2>3, <2>5, Zenon DEF InCall
    <3>2. stage'[Root(d)] = "local" /\ holder'[Root(d)] = v
      BY <1>1, <2>1, <3>1, Zenon
    <3> QED
      BY <1>1, <2>2, <3>1, <3>2, Zenon DEF Root
  <2> QED
    BY <2>4, <2>5, Zenon DEF InCall
<1>22. Fresh'
  BY <1>1, <1>5, ZenonT(60) DEF Fresh, Ahead
<1>23. Apart'
  <2>1. \A d \in Batches : (Done(WaitCmd(d))' <=> Done(WaitCmd(d))) /\ (Done(IssueCmd(d))' <=> Done(IssueCmd(d)))
    BY <1>5, Zenon DEF Done
  <2> QED
    BY <1>1, <1>5, <2>1, ZenonT(60) DEF Apart
<1>24. Typed'
  <2>1. scope' \in [Queues -> Nat]
    <3>1. scope \in [Queues -> Nat] /\ Queue[b] \in Queues
      BY QueueAssumption, Zenon DEF Typed
    <3>2. scope[Queue[b]] \in Nat /\ scope[Queue[b]] - 1 \in Nat
      BY <1>18, <3>1
    <3> QED
      BY <1>1, <3>1, <3>2, ZenonT(60)
  <2> QED
    BY <1>1, <1>2, <2>1, Zenon DEF Typed, Stages
<1> QED
  BY <1>8, <1>9, <1>10, <1>11, <1>12, <1>13, <1>14, <1>15, <1>16, <1>17, <1>18, <1>19, <1>20, <1>21, <1>22,
     <1>23, <1>24, ZenonT(60)

-----------------------------------------------------------------------------
\* A batch is built: what every task looks like afterwards.
Builds(u, b) ==
    /\ \A x \in Tasks :
         /\ completion'[x] = IF x = IssueCmd(b) THEN RetireCmd(b) ELSE IF x = RetireCmd(b) THEN Fence(b)
                             ELSE IF x = WaitCmd(b) /\ Waits[b] # {} THEN IssueCmd(b) ELSE completion[x]
         /\ pending'[x] = IF x = RetireCmd(b) \/ x = Fence(b) \/ (x = IssueCmd(b) /\ Waits[b] # {}) THEN 1 ELSE pending[x]
         /\ stage'[x] = IF x = Root(b) THEN "local"
                        ELSE IF x \in {IssueCmd(b), RetireCmd(b), Fence(b)} THEN "idle" ELSE stage[x]
         /\ holder'[x] = IF x = Root(b) THEN u ELSE holder[x]
    /\ scope' = [scope EXCEPT ![Queue[b]] = @ + 1]
    /\ step' = [step EXCEPT ![u] = "chain"]
    /\ UNCHANGED <<value, tail, at, freed, chained, faulted>>

\* The submission builds exactly these tasks.
LEMMA BuildBuilds ==
    ASSUME Typed, NEW u \in Users, Build(u), NEW b \in Batches, b = Arg(u)
    PROVE  Typed' /\ Builds(u, b)
<1> DEFINE W == WaitCmd(b)
           I == IssueCmd(b)
           R == RetireCmd(b)
           F == Fence(b)
           built == {Root(b), I, R}
<1>1. W \in Tasks /\ I \in Tasks /\ R \in Tasks /\ F \in Tasks /\ Root(b) \in {W, I}
  BY Members, Zenon DEF Root
<1>2. W # I /\ W # R /\ W # F /\ I # R /\ I # F /\ R # F
  BY WaitApart, IssueApart, RetireApart, Zenon
<1>3. Link(b, W) = I /\ Link(b, I) = R /\ Link(b, R) = F
  BY <1>2, Zenon DEF Link
<1>4. /\ completion' = [t \in Tasks |-> IF t \in built THEN Link(b, t) ELSE completion[t]]
      /\ pending' = [t \in Tasks |-> IF \E f \in built : Link(b, f) = t THEN 1 ELSE pending[t]]
      /\ stage' = [t \in Tasks |-> IF t = Root(b) THEN "local" ELSE IF t \in built \cup {F} THEN "idle" ELSE stage[t]]
      /\ holder' = [holder EXCEPT ![Root(b)] = u]
      /\ scope' = [scope EXCEPT ![Queue[b]] = @ + 1]
      /\ step' = [step EXCEPT ![u] = "chain"]
      /\ UNCHANGED <<value, tail, at, freed, chained, faulted>>
  BY Zenon DEF Build, Root
<1>5. Root(b) = IF Waits[b] = {} THEN I ELSE W
  BY Zenon DEF Root
<1>6. \A x \in Tasks : completion'[x] = IF x = I THEN R ELSE IF x = R THEN F
                                        ELSE IF x = W /\ Waits[b] # {} THEN I ELSE completion[x]
  <2> SUFFICES ASSUME NEW x \in Tasks PROVE completion'[x] = IF x = I THEN R ELSE IF x = R THEN F
                                                           ELSE IF x = W /\ Waits[b] # {} THEN I ELSE completion[x]
    BY Zenon
  <2>1. completion'[x] = IF x \in built THEN Link(b, x) ELSE completion[x]
    BY <1>4, Zenon
  <2>2. x \in built <=> x = I \/ x = R \/ (x = W /\ Waits[b] # {})
    BY <1>5, Zenon
  <2> QED
    BY <1>2, <1>3, <2>1, <2>2, Zenon
<1>7. \A x \in Tasks : pending'[x] = IF x = R \/ x = F \/ (x = I /\ Waits[b] # {}) THEN 1 ELSE pending[x]
  <2> SUFFICES ASSUME NEW x \in Tasks PROVE pending'[x] = IF x = R \/ x = F \/ (x = I /\ Waits[b] # {}) THEN 1 ELSE pending[x]
    BY Zenon
  <2>1. pending'[x] = IF \E f \in built : Link(b, f) = x THEN 1 ELSE pending[x]
    BY <1>4, Zenon
  <2>2. (\E f \in built : Link(b, f) = x) <=> Link(b, Root(b)) = x \/ Link(b, I) = x \/ Link(b, R) = x
    BY Zenon
  <2>3. (\E f \in built : Link(b, f) = x) <=> x = R \/ x = F \/ (x = I /\ Waits[b] # {})
    BY <1>3, <1>5, <2>2, ZenonT(60)
  <2> QED
    BY <2>1, <2>3, Zenon
<1>8. \A x \in Tasks : stage'[x] = IF x = Root(b) THEN "local" ELSE IF x \in {I, R, F} THEN "idle" ELSE stage[x]
  <2> SUFFICES ASSUME NEW x \in Tasks
               PROVE  stage'[x] = IF x = Root(b) THEN "local" ELSE IF x \in {I, R, F} THEN "idle" ELSE stage[x]
    BY Zenon
  <2>1. stage'[x] = IF x = Root(b) THEN "local" ELSE IF x \in built \cup {F} THEN "idle" ELSE stage[x]
    BY <1>4, Zenon
  <2> QED
    BY <2>1, Zenon
<1>9. \A x \in Tasks : holder'[x] = IF x = Root(b) THEN u ELSE holder[x]
  BY <1>1, <1>4, Zenon DEF Typed
<1>10. Builds(u, b)
  BY <1>4, <1>6, <1>7, <1>8, <1>9, ZenonT(60) DEF Builds
<1>11. Typed'
  <2>1. pending' \in [Tasks -> Nat]
    BY <1>4, Zenon DEF Typed
  <2>2. completion' \in [Tasks -> Tasks \cup {NoTask}]
    <3>1. \A x \in Tasks : completion'[x] \in Tasks \cup {NoTask}
      BY <1>1, <1>6, Zenon DEF Typed
    <3> QED
      BY <1>4, <3>1, Zenon
  <2>3. stage' \in [Tasks -> Stages]
    BY <1>4, Zenon DEF Typed, Stages
  <2>4. holder' \in [Tasks -> Tasks \cup Users \cup {NoTask}]
    BY <1>1, <1>4, Zenon DEF Typed
  <2>5. scope' \in [Queues -> Nat] /\ step' \in [Users -> {"call", "chain", "submit"}]
    BY <1>4, QueueAssumption, SMTT(60) DEF Typed
  <2> QED
    BY <1>4, <2>1, <2>2, <2>3, <2>4, <2>5, ZenonT(60) DEF Typed
<1> QED
  BY <1>10, <1>11, Zenon

\* The batch was not there, and the tasks of the other batches are left alone.
LEMMA BuildsFacts ==
    ASSUME IInv, NEW u \in Users, NEW b \in Batches, Builds(u, b), stage[IssueCmd(b)] = "absent"
    PROVE  /\ \A x \in TasksOf(b) : stage[x] = "absent" /\ completion[x] = NoTask /\ pending[x] = 0 /\ Sources(x) = {}
           /\ \A x \in Tasks : x \notin {WaitCmd(b), IssueCmd(b), RetireCmd(b), Fence(b)} =>
                 /\ stage'[x] = stage[x] /\ holder'[x] = holder[x]
                 /\ completion'[x] = completion[x] /\ pending'[x] = pending[x]
           /\ \A x \in Tasks : x \notin {IssueCmd(b), RetireCmd(b), Fence(b)} => Sources(x)' = Sources(x)
           /\ Sources(RetireCmd(b))' = {IssueCmd(b)} /\ Sources(Fence(b))' = {RetireCmd(b)}
           /\ Sources(IssueCmd(b))' = IF Waits[b] = {} THEN {} ELSE {WaitCmd(b)}
<1> DEFINE W == WaitCmd(b)
           I == IssueCmd(b)
           R == RetireCmd(b)
           F == Fence(b)
<1>1. W \in Tasks /\ I \in Tasks /\ R \in Tasks /\ F \in Tasks /\ Root(b) \in {W, I}
  BY Members, Zenon DEF Root
<1>2. W # I /\ W # R /\ W # F /\ I # R /\ I # F /\ R # F
  BY WaitApart, IssueApart, RetireApart, Zenon
<1>3. ASSUME NEW x \in TasksOf(b)
      PROVE  stage[x] = "absent" /\ completion[x] = NoTask /\ pending[x] = 0 /\ Sources(x) = {}
  <2>1. stage[x] = "absent" /\ x \in Tasks
    BY Members, Zenon DEF IInv, Built
  <2> QED
    BY <2>1, Zenon DEF IInv, AbsentFree
<1>4. W \in TasksOf(b) /\ I \in TasksOf(b) /\ R \in TasksOf(b) /\ F \in TasksOf(b)
  BY Zenon DEF TasksOf, ArenaTasks
<1>5. \A x \in Tasks : x \notin {W, I, R, F} => /\ stage'[x] = stage[x] /\ holder'[x] = holder[x]
                                                /\ completion'[x] = completion[x] /\ pending'[x] = pending[x]
  <2> SUFFICES ASSUME NEW x \in Tasks, x \notin {W, I, R, F}
               PROVE  /\ stage'[x] = stage[x] /\ holder'[x] = holder[x]
                      /\ completion'[x] = completion[x] /\ pending'[x] = pending[x]
    BY Zenon
  <2>1. x # Root(b) /\ x # W /\ x # I /\ x # R /\ x # F
    BY <1>1, Zenon
  <2> QED
    BY <2>1, Zenon DEF Builds
<1>6. /\ completion'[I] = R /\ completion'[R] = F
      /\ completion'[W] = IF Waits[b] = {} THEN NoTask ELSE I
      /\ completion'[F] = NoTask
  <2>1. completion[W] = NoTask /\ completion[F] = NoTask
    BY <1>3, <1>4, Zenon
  <2> QED
    BY <1>1, <1>2, <2>1, Zenon DEF Builds
<1>7. \A y \in {W, I, R, F} : completion[y] = NoTask
  BY <1>3, <1>4, Zenon
<1>8. ASSUME NEW x \in Tasks, NEW y \in Tasks
      PROVE  completion'[y] = x <=> \/ completion[y] = x
                                    \/ (y = I /\ x = R) \/ (y = R /\ x = F) \/ (y = W /\ x = I /\ Waits[b] # {})
  <2>1. x # NoTask
    BY NoTaskApart, Zenon
  <2>2. CASE y \in {W, I, R, F}
    <3>1. completion[y] = NoTask
      BY <1>7, <2>2, Zenon
    <3>2. CASE y = W
      BY <1>2, <1>6, <2>1, <3>1, <3>2, Zenon
    <3>3. CASE y = I
      BY <1>2, <1>6, <2>1, <3>1, <3>3, Zenon
    <3>4. CASE y = R
      BY <1>2, <1>6, <2>1, <3>1, <3>4, Zenon
    <3>5. CASE y = F
      BY <1>2, <1>6, <2>1, <3>1, <3>5, Zenon
    <3> QED
      BY <2>2, <3>2, <3>3, <3>4, <3>5, ZenonT(60)
  <2>3. CASE y \notin {W, I, R, F}
    BY <1>5, <2>3, Zenon
  <2> QED
    BY <2>2, <2>3, Zenon
<1>9. \A x \in Tasks : x \notin {I, R, F} => Sources(x)' = Sources(x)
  BY <1>8, ZenonT(60) DEF Sources, Into
<1>10. Sources(R) = {} /\ Sources(F) = {} /\ Sources(I) = {}
  BY <1>3, <1>4, Zenon
<1>11. Sources(R)' = {I}
  <2>1. \A y \in Tasks : completion'[y] = R <=> y = I
    <3>1. \A y \in Tasks : completion[y] # R
      BY <1>10, Zenon DEF Sources, Into
    <3> QED
      BY <1>1, <1>2, <1>8, <3>1, Zenon
  <2> QED
    BY <1>1, <2>1, Zenon DEF Sources, Into
<1>12. Sources(F)' = {R}
  <2>1. \A y \in Tasks : completion'[y] = F <=> y = R
    <3>1. \A y \in Tasks : completion[y] # F
      BY <1>10, Zenon DEF Sources, Into
    <3> QED
      BY <1>1, <1>2, <1>8, <3>1, Zenon
  <2> QED
    BY <1>1, <2>1, Zenon DEF Sources, Into
<1>13. Sources(I)' = IF Waits[b] = {} THEN {} ELSE {W}
  BY <1>1, <1>2, <1>8, <1>10, SMTT(60) DEF Sources, Into
<1> QED
  BY <1>3, <1>5, <1>9, <1>11, <1>12, <1>13, ZenonT(60)

\* A batch that is built is a new one: none of its tasks was there before.
LEMMA BuildKeeps ==
    ASSUME IInv, NEW u \in Users, Build(u)
    PROVE  IInv'
<1> USE DEF IInv
<1> PICK b : b = Arg(u)
  OBVIOUS
<1>1. /\ at[u] \in DOMAIN Programs[u] /\ b \in Batches /\ step[u] = "call"
      /\ Programs[u][at[u]] = <<"submit", b>> /\ Ahead(u, at[u])
  BY SubmitArg, Zenon DEF Build, Calls
<1>2. Typed' /\ Builds(u, b)
  BY <1>1, BuildBuilds, Zenon
<1>3. stage[IssueCmd(b)] = "absent" /\ b \notin freed
  BY <1>1, Zenon DEF Fresh
<1> DEFINE W == WaitCmd(b)
           I == IssueCmd(b)
           R == RetireCmd(b)
           F == Fence(b)
<1>4. W \in Tasks /\ I \in Tasks /\ R \in Tasks /\ F \in Tasks
  BY <1>1, Members, Zenon
<1>5. W # I /\ W # R /\ W # F /\ I # R /\ I # F /\ R # F
  BY WaitApart, IssueApart, RetireApart, Zenon
<1>6. Root(b) = IF Waits[b] = {} THEN I ELSE W
  BY Zenon DEF Root
<1>7. /\ completion'[I] = R /\ completion'[R] = F
      /\ Waits[b] # {} => completion'[W] = I
      /\ pending'[R] = 1 /\ pending'[F] = 1 /\ pending'[I] = IF Waits[b] = {} THEN pending[I] ELSE 1
      /\ stage'[I] = IF Waits[b] = {} THEN "local" ELSE "idle"
      /\ stage'[R] = "idle" /\ stage'[F] = "idle"
      /\ stage'[W] = IF Waits[b] = {} THEN stage[W] ELSE "local"
      /\ holder'[Root(b)] = u
      /\ completion'[F] = completion[F] /\ pending'[W] = pending[W]
      /\ Waits[b] = {} => completion'[W] = completion[W]
  <2>1. /\ completion'[I] = R /\ completion'[R] = F
        /\ Waits[b] # {} => completion'[W] = I
        /\ completion'[F] = completion[F]
        /\ Waits[b] = {} => completion'[W] = completion[W]
    BY <1>2, <1>4, <1>5, ZenonT(60) DEF Builds
  <2>2. pending'[R] = 1 /\ pending'[F] = 1 /\ pending'[I] = (IF Waits[b] = {} THEN pending[I] ELSE 1) /\ pending'[W] = pending[W]
    BY <1>2, <1>4, <1>5, Zenon DEF Builds
  <2>3. /\ stage'[I] = (IF Waits[b] = {} THEN "local" ELSE "idle")
        /\ stage'[R] = "idle" /\ stage'[F] = "idle"
        /\ stage'[W] = (IF Waits[b] = {} THEN stage[W] ELSE "local")
    BY <1>2, <1>4, <1>5, <1>6, Zenon DEF Builds
  <2>4. holder'[Root(b)] = u
    BY <1>2, <1>4, <1>6, Zenon DEF Builds
  <2> QED
    BY <2>1, <2>2, <2>3, <2>4, Zenon
<1>8. /\ \A x \in TasksOf(b) : stage[x] = "absent" /\ completion[x] = NoTask /\ pending[x] = 0 /\ Sources(x) = {}
      /\ \A x \in Tasks : x \notin {W, I, R, F} =>
            /\ stage'[x] = stage[x] /\ holder'[x] = holder[x]
            /\ completion'[x] = completion[x] /\ pending'[x] = pending[x]
      /\ \A x \in Tasks : x \notin {I, R, F} => Sources(x)' = Sources(x)
      /\ Sources(R)' = {I} /\ Sources(F)' = {R}
      /\ Sources(I)' = IF Waits[b] = {} THEN {} ELSE {W}
  BY <1>1, <1>2, <1>3, BuildsFacts, ZenonT(60)
<1>9. /\ stage[W] = "absent" /\ stage[I] = "absent" /\ stage[R] = "absent" /\ stage[F] = "absent"
      /\ completion[W] = NoTask /\ completion[F] = NoTask
      /\ pending[W] = 0 /\ pending[I] = 0 /\ Sources(W) = {}
      /\ \A x \in Timepoints(b) : stage[x] = "absent" /\ completion[x] = NoTask /\ pending[x] = 0
      /\ \A x \in CommandsOf(b) : stage[x] = "absent" /\ completion[x] = NoTask /\ pending[x] = 0
  BY <1>8, Zenon DEF TasksOf, ArenaTasks
<1>10. \A d \in Batches : /\ \A x \in Timepoints(d) : x \in Tasks /\ x \notin {W, I, R, F}
                          /\ \A x \in CommandsOf(d) : x \in Tasks /\ x \notin {W, I, R, F}
  <2> SUFFICES ASSUME NEW d \in Batches
               PROVE  /\ \A x \in Timepoints(d) : x \in Tasks /\ x \notin {W, I, R, F}
                      /\ \A x \in CommandsOf(d) : x \in Tasks /\ x \notin {W, I, R, F}
    OBVIOUS
  <2>1. \A x \in Timepoints(d) : x \notin {W, I, R, F}
    BY TimepointApart, Zenon
  <2>2. \A x \in CommandsOf(d) : x \notin {W, I, R, F}
    BY CommandApart, Zenon
  <2> QED
    BY <2>1, <2>2, Members, Zenon
<1>11. \A d \in Batches : d # b => /\ WaitCmd(d) \in Tasks /\ WaitCmd(d) \notin {W, I, R, F}
                                   /\ IssueCmd(d) \in Tasks /\ IssueCmd(d) \notin {W, I, R, F}
                                   /\ RetireCmd(d) \in Tasks /\ RetireCmd(d) \notin {W, I, R, F}
                                   /\ Fence(d) \in Tasks /\ Fence(d) \notin {W, I, R, F}
  BY Members, WaitApart, IssueApart, RetireApart, FenceApart, Zenon
<1>12. \A d \in Batches : \A x \in Timepoints(d) \cup CommandsOf(d) :
          stage'[x] = stage[x] /\ holder'[x] = holder[x] /\ completion'[x] = completion[x] /\ pending'[x] = pending[x]
  BY <1>8, <1>10, Zenon
<1>13. \A d \in Batches : d # b => \A x \in {WaitCmd(d), IssueCmd(d), RetireCmd(d), Fence(d)} :
          /\ stage'[x] = stage[x] /\ holder'[x] = holder[x] /\ completion'[x] = completion[x] /\ pending'[x] = pending[x]
          /\ Sources(x)' = Sources(x)
  BY <1>8, <1>11, ZenonT(60)
<1>14. UNCHANGED <<value, tail, at, freed, chained, faulted>> /\ step' = [step EXCEPT ![u] = "chain"]
  BY <1>2, Zenon DEF Builds
<1>15. Linked'
  <2> SUFFICES ASSUME NEW d \in Batches
               PROVE  /\ completion'[WaitCmd(d)] \in {IssueCmd(d), NoTask}
                      /\ \A t \in Timepoints(d) : completion'[t] \in {IssueCmd(d), NoTask}
                      /\ completion'[IssueCmd(d)] \in {RetireCmd(d), NoTask} \cup Issues
                      /\ \A t \in CommandsOf(d) : completion'[t] \in {RetireCmd(d), NoTask} \cup Issues
                      /\ completion'[RetireCmd(d)] \in {Fence(d), NoTask}
                      /\ completion'[Fence(d)] = NoTask
    BY Zenon DEF Linked
  <2>1. /\ \A t \in Timepoints(d) : completion'[t] \in {IssueCmd(d), NoTask}
        /\ \A t \in CommandsOf(d) : completion'[t] \in {RetireCmd(d), NoTask} \cup Issues
    BY <1>12, Zenon DEF Linked
  <2>2. CASE d = b
    BY <1>7, <1>9, <2>1, <2>2, Zenon
  <2>3. CASE d # b
    BY <1>13, <2>1, <2>3, ZenonT(60) DEF Linked
  <2> QED
    BY <2>2, <2>3, Zenon
<1>16. Counted'
  <2> SUFFICES ASSUME NEW x \in Tasks PROVE Cardinality(Sources(x)') <= pending'[x]
    BY Zenon DEF Counted
  <2>1. \A y \in Tasks : Cardinality({y}) = 1
    BY CountOne, Zenon
  <2>2. Cardinality({}) = 0
    BY CountOf, Zenon
  <2>3. CASE x = R \/ x = F
    <3>1. (Sources(R)' = {I} /\ pending'[R] = 1) /\ (Sources(F)' = {R} /\ pending'[F] = 1)
      BY <1>7, <1>8, ZenonT(60)
    <3>2. Cardinality(Sources(R)') = 1 /\ Cardinality(Sources(F)') = 1
      BY <1>4, <2>1, <3>1, Zenon
    <3> HIDE DEF R, F
    <3> QED
      BY <2>3, <3>1, <3>2, SMTT(60)
  <2>4. CASE x = I
    <3>1. CASE Waits[b] = {}
      <4>1. Sources(I)' = {} /\ pending'[I] = 0
        BY <1>7, <1>8, <1>9, <3>1, ZenonT(60)
      <4>2. Cardinality(Sources(I)') = 0
        BY <2>2, <4>1, Zenon
      <4> HIDE DEF I
      <4> QED
        BY <2>4, <4>1, <4>2, SMTT(60)
    <3>2. CASE Waits[b] # {}
      <4>1. Sources(I)' = {W} /\ pending'[I] = 1
        BY <1>7, <1>8, <3>2, Zenon
      <4>2. Cardinality(Sources(I)') = 1
        BY <1>4, <2>1, <4>1, Zenon
      <4> HIDE DEF I
      <4> QED
        BY <2>4, <4>1, <4>2, SMTT(60)
    <3> QED
      BY <3>1, <3>2, ZenonT(60)
  <2>5. CASE x \notin {I, R, F}
    <3>1. Sources(x)' = Sources(x)
      BY <1>8, <2>5, Zenon
    <3>2. pending'[x] = pending[x]
      BY <1>7, <1>8, <2>5, ZenonT(60)
    <3> QED
      BY <3>1, <3>2, Zenon DEF Counted
  <2> QED
    BY <2>3, <2>4, <2>5, Zenon
<1>17. \A x \in Tasks : stage'[x] \in {"absent", "retired", "done", "ready", "running"} =>
          x \notin {I, R, F} /\ stage'[x] = stage[x] /\ (x = W => Waits[b] = {})
  BY <1>7, <1>8, ZenonT(60)
<1>18. FinishedFree' /\ AbsentFree'
  <2>1. \A x \in Tasks : stage'[x] \in {"absent", "retired", "done"} =>
           /\ stage'[x] = stage[x] /\ Sources(x)' = Sources(x) /\ pending'[x] = pending[x] /\ completion'[x] = completion[x]
    BY <1>7, <1>8, <1>17, ZenonT(60)
  <2> QED
    BY <2>1, Zenon DEF FinishedFree, AbsentFree, Finished
<1>19. Free'
  <2> SUFFICES ASSUME NEW d \in Batches
               PROVE  /\ pending'[WaitCmd(d)] = 0 /\ stage'[WaitCmd(d)] # "idle"
                      /\ \A x \in Timepoints(d) : pending'[x] = 0 /\ stage'[x] \in {"absent", "local", "ready", "done"}
                      /\ \A x \in CommandsOf(d) : pending'[x] = 0 /\ stage'[x] # "idle"
                      /\ stage'[Fence(d)] \in {"absent", "idle", "local", "ready", "done"}
    BY Zenon DEF Free
  <2>1. /\ \A x \in Timepoints(d) : pending'[x] = 0 /\ stage'[x] \in {"absent", "local", "ready", "done"}
        /\ \A x \in CommandsOf(d) : pending'[x] = 0 /\ stage'[x] # "idle"
    BY <1>12, ZenonT(60) DEF Free
  <2>2. CASE d = b
    BY <1>7, <1>9, <2>1, <2>2, Zenon
  <2>3. CASE d # b
    <3>1. pending'[WaitCmd(d)] = pending[WaitCmd(d)] /\ stage'[WaitCmd(d)] = stage[WaitCmd(d)] /\ stage'[Fence(d)] = stage[Fence(d)]
      BY <1>13, <2>3, Zenon
    <3>2. pending[WaitCmd(d)] = 0 /\ stage[WaitCmd(d)] # "idle" /\ stage[Fence(d)] \in {"absent", "idle", "local", "ready", "done"}
      BY Zenon DEF Free
    <3> QED
      BY <2>1, <3>1, <3>2, Zenon
  <2> QED
    BY <2>2, <2>3, Zenon
<1>20. Built'
  <2> SUFFICES ASSUME NEW d \in Batches
               PROVE  /\ stage'[IssueCmd(d)] = "absent" => \A x \in TasksOf(d) : stage'[x] = "absent"
                      /\ stage'[IssueCmd(d)] # "absent" => stage'[RetireCmd(d)] # "absent" /\ stage'[Fence(d)] # "absent"
                      /\ stage'[WaitCmd(d)] = "absent" <=> (stage'[IssueCmd(d)] = "absent" \/ Waits[d] = {})
    BY ZenonT(60) DEF Built
  <2>1. CASE d = b
    BY <1>7, <1>9, <2>1, Zenon
  <2>2. CASE d # b
    <3>1. \A x \in TasksOf(d) : stage'[x] = stage[x]
      BY <1>12, <1>13, <2>2, KindsOf, ZenonT(60)
    <3> QED
      BY <1>13, <2>2, <3>1, ZenonT(60) DEF Built
  <2> QED
    BY <2>1, <2>2, Zenon
<1>21. WaitPhase'
  <2> SUFFICES ASSUME NEW d \in Batches
               PROVE  /\ Live(WaitCmd(d))' => completion'[WaitCmd(d)] = IssueCmd(d) /\ stage'[IssueCmd(d)] = "idle"
                      /\ \A x \in Timepoints(d) :
                           /\ Live(x)' => completion'[x] = IssueCmd(d) /\ stage'[IssueCmd(d)] = "idle"
                           /\ stage'[x] # "absent" => stage'[WaitCmd(d)] \in {"running", "retired", "done"}
                           /\ stage'[x] \in {"ready", "done"} => Done(WaitCmd(d))'
                           /\ stage'[x] = "local" => holder'[x] = WaitCmd(d)
    BY Zenon DEF WaitPhase
  <2>1. CASE d = b
    <3>1. Live(W)' => completion'[W] = I /\ stage'[I] = "idle"
      BY <1>7, <1>9, Zenon DEF Live
    <3>2. \A x \in Timepoints(b) : stage'[x] = "absent"
      BY <1>1, <1>9, <1>12, ZenonT(60)
    <3> QED
      BY <2>1, <3>1, <3>2, Zenon DEF Live
  <2>2. CASE d # b
    <3>1. Live(WaitCmd(d))' => Live(WaitCmd(d))
      BY <1>13, <2>2, Zenon DEF Live
    <3>2. \A x \in Timepoints(d) : Live(x)' => Live(x)
      BY <1>12, Zenon DEF Live
    <3>3. Done(WaitCmd(d)) => Done(WaitCmd(d))'
      BY <1>13, <2>2, Zenon DEF Done
    <3> QED
      <4>1. /\ completion'[WaitCmd(d)] = completion[WaitCmd(d)] /\ stage'[IssueCmd(d)] = stage[IssueCmd(d)]
            /\ stage'[WaitCmd(d)] = stage[WaitCmd(d)]
        BY <1>13, <2>2, Zenon
      <4>2. \A x \in Timepoints(d) : stage'[x] = stage[x] /\ holder'[x] = holder[x] /\ completion'[x] = completion[x]
        BY <1>12, Zenon
      <4> QED
        BY <3>1, <3>2, <3>3, <4>1, <4>2, ZenonT(60) DEF WaitPhase
  <2> QED
    BY <2>1, <2>2, Zenon
<1>22. Waited'
  <2> SUFFICES ASSUME NEW d \in Batches, NEW w \in Waits[d]
               PROVE  /\ stage'[WaitCmd(d)] \in {"running", "retired", "done"} =>
                            stage'[Timepoint(d, w)] # "absent" \/ value[w[1]] >= w[2] \/ d \in faulted
                      /\ Done(Timepoint(d, w))' => value[w[1]] >= w[2]
    BY <1>14, Zenon DEF Waited
  <2>1. stage'[Timepoint(d, w)] = stage[Timepoint(d, w)]
    BY <1>12, Members, ZenonT(60)
  <2>2. stage'[WaitCmd(d)] \in {"running", "retired", "done"} => stage'[WaitCmd(d)] = stage[WaitCmd(d)]
    BY <1>7, <1>13, Zenon
  <2> QED
    BY <2>1, <2>2, Zenon DEF Waited, Done
<1>23. Issued'
  <2> SUFFICES ASSUME NEW d \in Batches
               PROVE  /\ \A x \in CommandsOf(d) : stage'[x] # "absent" => WaitsOver(d)'
                      /\ stage'[IssueCmd(d)] \in {"running", "retired", "done"} => \A x \in CommandsOf(d) : stage'[x] # "absent"
    BY Zenon DEF Issued
  <2>1. CASE d = b
    <3>1. stage'[IssueCmd(d)] \notin {"running", "retired", "done"}
      BY <1>7, <2>1, Zenon
    <3> QED
      BY <1>9, <1>12, <2>1, <3>1, ZenonT(60)
  <2>2. CASE d # b
    <3>1. WaitsOver(d) => WaitsOver(d)'
      BY <1>12, <1>13, <2>2, ZenonT(60) DEF WaitsOver, Finished
    <3> QED
      BY <1>12, <1>13, <2>2, <3>1, ZenonT(60) DEF Issued
  <2> QED
    BY <2>1, <2>2, Zenon
<1>24. Gate'
  <2> SUFFICES ASSUME NEW d \in Batches
               PROVE  /\ stage'[RetireCmd(d)] \notin {"absent", "idle"} =>
                            /\ pending'[RetireCmd(d)] = 0
                            /\ Finished(IssueCmd(d))' /\ \A x \in CommandsOf(d) : Finished(x)'
                      /\ stage'[RetireCmd(d)] = "idle" =>
                            \/ Cardinality(Sources(RetireCmd(d))') < pending'[RetireCmd(d)]
                            \/ /\ completion'[IssueCmd(d)] = RetireCmd(d) \/ Finished(IssueCmd(d))'
                               /\ \A x \in CommandsOf(d) : Live(x)' => completion'[x] = RetireCmd(d)
    BY ZenonT(60) DEF Gate
  <2>1. CASE d = b
    <3>1. \A x \in CommandsOf(b) : ~Live(x)'
      BY <1>1, <1>9, <1>12, ZenonT(60) DEF Live
    <3> QED
      BY <1>7, <2>1, <3>1, Zenon
  <2>2. CASE d # b
    <3>1. /\ completion'[IssueCmd(d)] = completion[IssueCmd(d)] /\ stage'[IssueCmd(d)] = stage[IssueCmd(d)]
          /\ stage'[RetireCmd(d)] = stage[RetireCmd(d)] /\ pending'[RetireCmd(d)] = pending[RetireCmd(d)]
          /\ Sources(RetireCmd(d))' = Sources(RetireCmd(d))
      BY <1>13, <2>2, Zenon
    <3>2. \A x \in CommandsOf(d) : stage'[x] = stage[x] /\ completion'[x] = completion[x]
      BY <1>12, Zenon
    <3>3. /\ Finished(IssueCmd(d))' <=> Finished(IssueCmd(d))
          /\ \A x \in CommandsOf(d) : (Finished(x)' <=> Finished(x)) /\ (Live(x)' <=> Live(x))
      BY <3>1, <3>2, Zenon DEF Finished, Live
    <3> QED
      BY <3>1, <3>2, <3>3, Zenon DEF Gate
  <2> QED
    BY <2>1, <2>2, ZenonT(60)
<1>25. FenceLast'
  <2> SUFFICES ASSUME NEW d \in Batches
               PROVE  /\ Finished(RetireCmd(d))' => completion'[RetireCmd(d)] = NoTask
                      /\ stage'[Fence(d)] = "local" => holder'[Fence(d)] = RetireCmd(d) /\ Finished(RetireCmd(d))'
                      /\ stage'[Fence(d)] \in {"ready", "done"} => Done(RetireCmd(d))'
    BY ZenonT(60) DEF FenceLast
  <2>1. CASE d = b
    BY <1>7, <2>1, Zenon DEF Finished
  <2>2. CASE d # b
    BY <1>13, <2>2, Zenon DEF FenceLast, Finished, Done
  <2> QED
    BY <2>1, <2>2, Zenon
<1>26. ScopeExact'
  <2>1. ~Open(b) /\ Open(b)'
    BY <1>3, <1>7, <1>9, Zenon DEF Open
  <2>2. \A d \in Batches : d # b => (Open(d)' <=> Open(d))
    BY <1>13, <1>14, Zenon DEF Open
  <2>3. scope' = [scope EXCEPT ![Queue[b]] = @ + 1]
    BY <1>2, Zenon DEF Builds
  <2> QED
    BY <1>1, <2>1, <2>2, <2>3, ScopeOpens, ZenonT(60)
<1>27. FreedLast'
  <2>1. \A d \in freed : d \in Batches /\ d # b
    BY <1>3, Zenon DEF Typed
  <2> QED
    BY <1>13, <1>14, <2>1, ZenonT(60) DEF FreedLast, Done
<1>28. \A q \in Queues : tail[q] # I
  BY <1>1, <1>3, Zenon DEF TailInFlight
<1>29. TailInFlight'
  <2> SUFFICES ASSUME NEW q \in Queues, NEW d \in Batches, tail[q] = IssueCmd(d)
               PROVE  Queue[d] = q /\ stage'[IssueCmd(d)] \notin {"absent", "done"}
    BY <1>14, Zenon DEF TailInFlight
  <2>1. d # b
    BY <1>28, Zenon
  <2> QED
    BY <1>13, <2>1, Zenon DEF TailInFlight
<1>30. InCall'
  <2>1. \A v \in Users : step'[v] = IF v = u THEN "chain" ELSE step[v]
    BY <1>14, Zenon DEF Typed
  <2>2. \A v \in Users : v # u => \A d \in Batches : Chaining(v, d)' <=> Chaining(v, d)
    BY <1>14, <2>1, Zenon DEF Chaining
  <2>3. Chaining(u, b)'
    BY <1>1, <1>14, <2>1, Zenon DEF Chaining
  <2>4. ASSUME NEW v \in Users, step'[v] = "chain" PROVE \E d \in Batches : Chaining(v, d)'
    <3>1. CASE v = u
      BY <1>1, <2>3, <3>1, Zenon
    <3>2. CASE v # u
      <4>1. step[v] = "chain"
        BY <2>1, <2>4, <3>2, Zenon
      <4>2. PICK d \in Batches : Chaining(v, d)
        BY <4>1, Zenon DEF InCall
      <4> QED
        BY <2>2, <3>2, <4>2, Zenon
    <3> QED
      BY <3>1, <3>2, Zenon
  <2>5. ASSUME NEW v \in Users, NEW d \in Batches, Chaining(v, d)'
        PROVE  /\ (stage[Root(d)] = "local" /\ holder[Root(d)] = v /\ Sources(Root(d)) = {})'
               /\ \A q \in Queues : tail'[q] # IssueCmd(d)
    <3>1. CASE v = u
      <4>1. Programs[u][at[u]] = <<"submit", d>>
        BY <1>14, <2>5, <3>1, ZenonT(60) DEF Chaining
      <4>2. d = b
        BY <1>1, <4>1, SMTT(60)
      <4>3. stage'[Root(b)] = "local"
        BY <1>6, <1>7, Zenon
      <4>4. Sources(Root(b))' = {}
        <5>1. CASE Waits[b] = {}
          BY <1>6, <1>8, <5>1, Zenon DEF Root
        <5>2. CASE Waits[b] # {}
          <6>1. Root(b) = W
            BY <1>6, <5>2, ZenonT(60)
          <6>2. Sources(W)' = {}
            BY <1>4, <1>5, <1>8, <1>9, Zenon
          <6> QED
            BY <5>2, <6>2, Zenon DEF Root
        <5> QED
          BY <5>1, <5>2, Zenon
      <4> QED
        BY <1>7, <1>14, <1>28, <3>1, <4>2, <4>3, <4>4, ZenonT(60) DEF Root
    <3>2. CASE v # u
      <4>1. Chaining(v, d)
        BY <2>2, <2>5, <3>2, ZenonT(60)
      <4>2. d # b
        BY <1>1, <3>2, <4>1, OneCall, SMTT(60) DEF Chaining
      <4>3. Root(d) \in {WaitCmd(d), IssueCmd(d), RetireCmd(d), Fence(d)}
        BY Zenon DEF Root
      <4>4. stage'[Root(d)] = stage[Root(d)] /\ holder'[Root(d)] = holder[Root(d)]
        BY <1>13, <4>2, <4>3, Zenon
      <4>5. Sources(WaitCmd(d))' = Sources(WaitCmd(d)) /\ Sources(IssueCmd(d))' = Sources(IssueCmd(d))
        BY <1>13, <4>2, Zenon
      <4>6. Sources(Root(d))' = Sources(Root(d))
        BY <4>5, Zenon DEF Root
      <4>7. /\ stage[Root(d)] = "local" /\ holder[Root(d)] = v /\ Sources(Root(d)) = {}
            /\ \A q \in Queues : tail[q] # IssueCmd(d)
        BY <4>1, Zenon DEF InCall
      <4> QED
        BY <1>14, <4>4, <4>6, <4>7, ZenonT(60) DEF Root
    <3> QED
      BY <3>1, <3>2, Zenon
  <2> QED
    BY <2>4, <2>5, ZenonT(60) DEF InCall
<1>31. Fresh'
  <2> SUFFICES ASSUME NEW v \in Users, NEW i \in DOMAIN Programs[v], NEW d \in Batches,
                      Programs[v][i] = <<"submit", d>>, Ahead(v, i)'
               PROVE  stage'[IssueCmd(d)] = "absent" /\ d \notin freed'
    BY ZenonT(60) DEF Fresh
  <2>1. step'[v] = IF v = u THEN "chain" ELSE step[v]
    BY <1>14, Zenon DEF Typed
  <2>2. at'[v] = at[v] /\ at[v] \in Nat /\ i \in Nat
    <3>1. Programs[v] \in Seq(Ops)
      BY QueueAssumption, ZenonT(60)
    <3> QED
      BY <1>14, <3>1, SMTT(60) DEF Typed
  <2>3. Ahead(v, i) /\ ~(v = u /\ i = at[u])
    BY <2>1, <2>2, SMTT(60) DEF Ahead
  <2>4. d # b
    BY <1>1, <2>3, OneCall, SMTT(60)
  <2>5. stage[IssueCmd(d)] = "absent" /\ d \notin freed
    BY <2>3, Zenon DEF Fresh
  <2> QED
    BY <1>13, <1>14, <2>4, <2>5, ZenonT(60)
<1>32. Apart'
  <2> SUFFICES ASSUME chained = {}, NEW d \in Batches
               PROVE  /\ completion'[IssueCmd(d)] \in {RetireCmd(d), NoTask}
                      /\ stage'[IssueCmd(d)] # "idle" => pending'[IssueCmd(d)] = 0
                      /\ \A x \in CommandsOf(d) :
                           /\ completion'[x] \in {RetireCmd(d), NoTask}
                           /\ stage'[x] \in {"ready", "running", "retired", "done"} => Done(IssueCmd(d))'
                           /\ stage'[x] = "local" => holder'[x] = IssueCmd(d) /\ stage'[IssueCmd(d)] \in {"running", "retired"}
                      /\ Waits[d] # {} =>
                           /\ stage'[IssueCmd(d)] = "local" => holder'[IssueCmd(d)] = WaitCmd(d) \/ Done(WaitCmd(d))'
                           /\ stage'[IssueCmd(d)] \in {"ready", "running", "retired", "done"} => Done(WaitCmd(d))'
                      /\ stage'[RetireCmd(d)] = "local" => holder'[RetireCmd(d)] = IssueCmd(d) \/ Done(IssueCmd(d))'
                      /\ stage'[RetireCmd(d)] \in {"ready", "running", "retired", "done"} => Done(IssueCmd(d))'
    BY <1>14, ZenonT(60) DEF Apart
  <2>1. CASE d = b
    <3>1. \A x \in CommandsOf(b) : stage'[x] = "absent" /\ completion'[x] = NoTask
      BY <1>1, <1>9, <1>12, ZenonT(60)
    <3> QED
      BY <1>7, <1>9, <2>1, <3>1, ZenonT(60)
  <2>2. CASE d # b
    <3>1. (Done(IssueCmd(d))' <=> Done(IssueCmd(d))) /\ (Done(WaitCmd(d))' <=> Done(WaitCmd(d)))
      BY <1>13, <2>2, Zenon DEF Done
    <3> QED
      <4>1. /\ completion'[IssueCmd(d)] = completion[IssueCmd(d)] /\ stage'[IssueCmd(d)] = stage[IssueCmd(d)]
            /\ pending'[IssueCmd(d)] = pending[IssueCmd(d)] /\ holder'[IssueCmd(d)] = holder[IssueCmd(d)]
            /\ stage'[RetireCmd(d)] = stage[RetireCmd(d)] /\ holder'[RetireCmd(d)] = holder[RetireCmd(d)]
        BY <1>13, <2>2, Zenon
      <4>2. \A x \in CommandsOf(d) : stage'[x] = stage[x] /\ holder'[x] = holder[x] /\ completion'[x] = completion[x]
        BY <1>12, Zenon
      <4> QED
        BY <3>1, <4>1, <4>2, Zenon DEF Apart
  <2> QED
    BY <2>1, <2>2, Zenon
<1> QED
  BY <1>2, <1>15, <1>16, <1>18, <1>19, <1>20, <1>21, <1>22, <1>23, <1>24, <1>25, <1>26, <1>27, <1>29, <1>30,
     <1>31, <1>32, ZenonT(60)

\* Chaining links the issue command in flight to the new one.
LEMMA ChainKeeps ==
    ASSUME IInv, NEW u \in Users, Chain(u)
    PROVE  IInv'
<1> USE DEF IInv
<1>1. PICK b \in Batches : Chaining(u, b)
  BY Zenon DEF Chain, InCall
<1>2. Arg(u) = b /\ step[u] = "chain" /\ at[u] \in DOMAIN Programs[u] /\ Programs[u][at[u]] = <<"submit", b>>
  BY <1>1 DEF Chaining, Arg
<1> DEFINE I == IssueCmd(b)
<1> PICK prev : prev = tail[Queue[b]]
  BY Zenon
<1>3. /\ UNCHANGED <<stage, holder, value, scope, at, freed, faulted>>
      /\ tail' = [tail EXCEPT ![Queue[b]] = I]
      /\ step' = [step EXCEPT ![u] = "submit"]
      /\ prev = NoTask => UNCHANGED <<completion, pending, chained>>
      /\ prev # NoTask => /\ completion' = [completion EXCEPT ![prev] = I]
                          /\ pending' = [pending EXCEPT ![I] = @ + 1]
                          /\ chained' = chained \cup {b}
  BY <1>2, Zenon DEF Chain
<1>4. /\ stage[Root(b)] = "local" /\ holder[Root(b)] = u /\ Sources(Root(b)) = {}
      /\ \A q \in Queues : tail[q] # I
  BY <1>1, Zenon DEF InCall
<1>5. stage[I] \in {"local", "idle"}
  <2>1. CASE Waits[b] = {}
    BY <1>4, <2>1, Zenon DEF Root
  <2>2. CASE Waits[b] # {}
    <3>1. Live(WaitCmd(b))
      BY <1>4, <2>2, Zenon DEF Root, Live
    <3> QED
      BY <3>1, Zenon DEF WaitPhase
  <2> QED
    BY <2>1, <2>2, Zenon
<1>6. I \in Tasks /\ I \in Issues /\ Queue[b] \in Queues
  BY Members, QueueAssumption, Zenon DEF Issues
<1>7. prev # NoTask => \E d \in Batches : prev = IssueCmd(d) /\ d # b /\ stage[prev] # "absent"
  <2>1. prev \in {IssueCmd(d) : d \in Batches} \cup {NoTask}
    BY <1>6, Zenon DEF Typed
  <2> SUFFICES ASSUME prev # NoTask
               PROVE  \E d \in Batches : prev = IssueCmd(d) /\ d # b /\ stage[prev] # "absent"
    BY Zenon
  <2>2. PICK d \in Batches : prev = IssueCmd(d)
    BY <2>1, Zenon
  <2>3. d # b
    BY <1>4, <1>6, <2>2, Zenon
  <2>4. stage[IssueCmd(d)] \notin {"absent", "done"}
    BY <1>6, <2>2, ZenonT(60) DEF TailInFlight
  <2> QED
    BY <2>2, <2>3, <2>4, Zenon
<1>8. prev # NoTask => prev \in Tasks /\ prev # I
  BY <1>7, Members, IssueApart, Zenon
<1>9. \A x \in Tasks : x # prev => completion'[x] = completion[x]
  BY <1>3, <1>8, Zenon DEF Typed
<1>10. \A x \in Tasks : x # I => pending'[x] = pending[x]
  BY <1>3, Zenon DEF Typed
<1>11. prev # NoTask => completion'[prev] = I /\ pending'[I] = pending[I] + 1
  BY <1>3, <1>6, <1>8, ZenonT(60) DEF Typed
<1>12. prev = NoTask => pending'[I] = pending[I]
  BY <1>3, ZenonT(60)
<1>13. Typed'
  <2>1. completion' \in [Tasks -> Tasks \cup {NoTask}] /\ pending' \in [Tasks -> Nat] /\ chained' \subseteq Batches
    <3>1. CASE prev = NoTask
      BY <1>3, <3>1, Zenon DEF Typed
    <3>2. CASE prev # NoTask
      <4>1. completion' \in [Tasks -> Tasks \cup {NoTask}]
        BY <1>3, <1>6, <1>8, <3>2, Zenon DEF Typed
      <4>2. pending' \in [Tasks -> Nat]
        BY <1>3, <1>6, <3>2, SMTT(60) DEF Typed
      <4> QED
        BY <1>3, <3>2, <4>1, <4>2, ZenonT(60) DEF Typed
    <3> QED
      BY <3>1, <3>2, Zenon
  <2>2. tail' \in [Queues -> {IssueCmd(d) : d \in Batches} \cup {NoTask}]
    BY <1>3, <1>6, Zenon DEF Typed
  <2>3. step' \in [Users -> {"call", "chain", "submit"}]
    BY <1>3, Zenon DEF Typed
  <2> QED
    BY <1>3, <2>1, <2>2, <2>3, Zenon DEF Typed
<1>14. \A x \in Tasks : x # I => /\ Sources(x)' = Sources(x) \ {prev}
                                 /\ Cardinality(Sources(x)') <= Cardinality(Sources(x))
  <2> SUFFICES ASSUME NEW x \in Tasks, x # I
               PROVE  /\ Sources(x)' = Sources(x) \ {prev}
                      /\ Cardinality(Sources(x)') <= Cardinality(Sources(x))
    BY Zenon
  <2>1. Sources(x)' = Sources(x) \ {prev}
    BY <1>8, <1>9, <1>11, NoTaskApart, ZenonT(60) DEF Sources, Into
  <2>2. Sources(x) \in SUBSET Tasks
    BY Zenon DEF Sources, Into
  <2> QED
    BY <2>1, <2>2, CountPart, ZenonT(60)
<1>15. /\ Sources(I)' = IF prev = NoTask THEN Sources(I) ELSE Sources(I) \cup {prev}
       /\ Cardinality(Sources(I)') <= pending'[I]
  <2>1. Cardinality(Sources(I)) <= pending[I] /\ pending[I] \in Nat /\ Cardinality(Sources(I)) \in Nat
    BY <1>6, IntoCount, ZenonT(60) DEF Counted, Typed, Sources
  <2>2. CASE prev = NoTask
    <3>1. Sources(I)' = Sources(I)
      BY <1>3, <2>2, Zenon DEF Sources, Into
    <3> QED
      BY <1>12, <2>1, <2>2, <3>1, Zenon
  <2>3. CASE prev # NoTask
    <3>1. Sources(I)' = Sources(I) \cup {prev}
      BY <1>8, <1>9, <1>11, <2>3, ZenonT(60) DEF Sources, Into
    <3>2. Sources(I) \in SUBSET Tasks /\ prev \in Tasks
      BY <1>8, <2>3, ZenonT(60) DEF Sources, Into
    <3>3. prev \in Sources(I) => Sources(I) \cup {prev} = Sources(I)
      OBVIOUS
    <3>4. Cardinality(Sources(I) \cup {prev}) = Cardinality(Sources(I)) \/ Cardinality(Sources(I) \cup {prev}) = Cardinality(Sources(I)) + 1
      BY <3>2, <3>3, CountMore, Zenon
    <3>5. Cardinality(Sources(I)') = Cardinality(Sources(I)) \/ Cardinality(Sources(I)') = Cardinality(Sources(I)) + 1
      BY <3>1, <3>4, ZenonT(60)
    <3>6. pending'[I] = pending[I] + 1
      BY <1>11, <2>3, ZenonT(60)
    <3> HIDE DEF I
    <3>7. Cardinality(Sources(I)') <= pending'[I]
      BY <2>1, <3>5, <3>6, OneMore, Zenon
    <3> QED
      BY <2>3, <3>1, <3>7, Zenon
  <2> QED
    BY <2>2, <2>3, Zenon
<1>16. \A d \in Batches :
          /\ WaitCmd(d) # prev /\ RetireCmd(d) # prev /\ Fence(d) # prev
          /\ WaitCmd(d) # I /\ RetireCmd(d) # I /\ Fence(d) # I
          /\ WaitCmd(d) \in Tasks /\ RetireCmd(d) \in Tasks /\ Fence(d) \in Tasks /\ IssueCmd(d) \in Tasks
  <2> SUFFICES ASSUME NEW d \in Batches
               PROVE  /\ WaitCmd(d) # prev /\ RetireCmd(d) # prev /\ Fence(d) # prev
                      /\ WaitCmd(d) # I /\ RetireCmd(d) # I /\ Fence(d) # I
                      /\ WaitCmd(d) \in Tasks /\ RetireCmd(d) \in Tasks /\ Fence(d) \in Tasks /\ IssueCmd(d) \in Tasks
    BY Zenon
  <2>1. WaitCmd(d) \in Tasks /\ RetireCmd(d) \in Tasks /\ Fence(d) \in Tasks /\ IssueCmd(d) \in Tasks
    BY Members, Zenon
  <2>2. \A c : WaitCmd(d) # IssueCmd(c) /\ RetireCmd(d) # IssueCmd(c) /\ Fence(d) # IssueCmd(c)
    BY WaitApart, RetireApart, FenceApart, Zenon
  <2>3. CASE prev = NoTask
    BY <2>1, <2>2, <2>3, NoTaskApart, Zenon
  <2>4. CASE prev # NoTask
    BY <1>7, <2>1, <2>2, <2>4, Zenon
  <2> QED
    BY <2>3, <2>4, Zenon
<1>17. \A d \in Batches :
          /\ \A x \in Timepoints(d) : x # prev /\ x # I /\ x \in Tasks
          /\ \A x \in CommandsOf(d) : x # prev /\ x # I /\ x \in Tasks
  <2> SUFFICES ASSUME NEW d \in Batches
               PROVE  /\ \A x \in Timepoints(d) : x # prev /\ x # I /\ x \in Tasks
                      /\ \A x \in CommandsOf(d) : x # prev /\ x # I /\ x \in Tasks
    BY ZenonT(60)
  <2>1. \A x \in Timepoints(d) : \A e \in Batches : x # IssueCmd(e)
    BY TimepointApart, Zenon
  <2>2. \A x \in CommandsOf(d) : \A e \in Batches : x # IssueCmd(e)
    BY CommandApart, Zenon
  <2>3. Timepoints(d) \subseteq Tasks /\ CommandsOf(d) \subseteq Tasks
    BY Members, Zenon
  <2> QED
    BY <1>7, <2>1, <2>2, <2>3, NoTaskApart, ZenonT(60)
<1>18. Linked'
  <2> SUFFICES ASSUME NEW d \in Batches
               PROVE  /\ completion'[WaitCmd(d)] \in {IssueCmd(d), NoTask}
                      /\ \A t \in Timepoints(d) : completion'[t] \in {IssueCmd(d), NoTask}
                      /\ completion'[IssueCmd(d)] \in {RetireCmd(d), NoTask} \cup Issues
                      /\ \A t \in CommandsOf(d) : completion'[t] \in {RetireCmd(d), NoTask} \cup Issues
                      /\ completion'[RetireCmd(d)] \in {Fence(d), NoTask}
                      /\ completion'[Fence(d)] = NoTask
    BY Zenon DEF Linked
  <2>1. completion'[IssueCmd(d)] \in {RetireCmd(d), NoTask} \cup Issues
    <3>1. CASE IssueCmd(d) = prev /\ prev # NoTask
      BY <1>6, <1>11, <3>1, Zenon
    <3>2. CASE IssueCmd(d) # prev
      BY <1>9, <1>16, <3>2, Zenon DEF Linked
    <3> QED
      BY <1>16, <3>1, <3>2, NoTaskApart, Zenon
  <2>2. completion'[WaitCmd(d)] = completion[WaitCmd(d)] /\ completion'[RetireCmd(d)] = completion[RetireCmd(d)] /\ completion'[Fence(d)] = completion[Fence(d)]
    BY <1>9, <1>16, Zenon
  <2>3. \A t \in Timepoints(d) \cup CommandsOf(d) : completion'[t] = completion[t]
    BY <1>9, <1>17, ZenonT(60)
  <2> QED
    BY <2>1, <2>2, <2>3, ZenonT(60) DEF Linked
<1>19. Counted'
  <2> SUFFICES ASSUME NEW x \in Tasks, x # I PROVE Cardinality(Sources(x)') <= pending'[x]
    BY <1>15, Zenon DEF Counted
  <2>1. /\ Cardinality(Sources(x)') <= Cardinality(Sources(x)) /\ Cardinality(Sources(x)) <= pending[x]
        /\ pending'[x] = pending[x]
    BY <1>10, <1>14, Zenon DEF Counted
  <2>2. Cardinality(Sources(x)) \in Nat /\ pending[x] \in Nat
    BY IntoCount, Zenon DEF Sources, Typed
  <2>3. Cardinality(Sources(x)') \in Nat
    <3>1. Sources(x) \in SUBSET Tasks /\ Sources(x)' \in SUBSET Sources(x)
      BY <1>14, IntoCount, Zenon DEF Sources
    <3> QED
      BY <3>1, Zenon DEF Counting
  <2> HIDE DEF I
  <2> QED
    BY <2>1, <2>2, <2>3
<1>20. FinishedFree' /\ AbsentFree'
  <2>1. \A x \in Tasks : stage[x] \in {"absent", "retired", "done"} => x # I
    BY <1>5, Zenon
  <2>2. FinishedFree'
    BY <1>3, <1>14, <2>1, Zenon DEF FinishedFree, Finished
  <2>3. \A x \in Tasks : stage[x] = "absent" => x # prev
    BY <1>7, NoTaskApart, ZenonT(60)
  <2>4. AbsentFree'
    BY <1>3, <1>9, <1>10, <1>14, <2>1, <2>3, Zenon DEF AbsentFree
  <2> QED
    BY <2>2, <2>4, Zenon
<1>21. Free'
  BY <1>3, <1>10, <1>16, <1>17, ZenonT(60) DEF Free
<1>22. Built' /\ Waited' /\ Issued'
  <2>1. Built'
    BY <1>3, Zenon DEF Built
  <2>2. Waited'
    BY <1>3, Zenon DEF Waited, Done
  <2>3. Issued'
    BY <1>3, Zenon DEF Issued, WaitsOver, Finished
  <2> QED
    BY <2>1, <2>2, <2>3, Zenon
<1>23. WaitPhase'
  <2>1. \A d \in Batches : completion'[WaitCmd(d)] = completion[WaitCmd(d)] /\ \A x \in Timepoints(d) : completion'[x] = completion[x]
    BY <1>9, <1>16, <1>17, ZenonT(60)
  <2> QED
    BY <1>3, <2>1, Zenon DEF WaitPhase, Live, Done
<1>24. Gate'
  <2> SUFFICES ASSUME NEW d \in Batches
               PROVE  /\ stage'[RetireCmd(d)] \notin {"absent", "idle"} =>
                            /\ pending'[RetireCmd(d)] = 0
                            /\ Finished(IssueCmd(d))' /\ \A x \in CommandsOf(d) : Finished(x)'
                      /\ stage'[RetireCmd(d)] = "idle" =>
                            \/ Cardinality(Sources(RetireCmd(d))') < pending'[RetireCmd(d)]
                            \/ /\ completion'[IssueCmd(d)] = RetireCmd(d) \/ Finished(IssueCmd(d))'
                               /\ \A x \in CommandsOf(d) : Live(x)' => completion'[x] = RetireCmd(d)
    BY Zenon DEF Gate
  <2>1. pending'[RetireCmd(d)] = pending[RetireCmd(d)]
    BY <1>10, <1>16, Zenon
  <2>2. \A x : (Finished(x)' <=> Finished(x)) /\ (Live(x)' <=> Live(x))
    BY <1>3, Zenon DEF Finished, Live
  <2>3. \A x \in CommandsOf(d) : completion'[x] = completion[x]
    BY <1>9, <1>17, Zenon
  <2>4. stage'[RetireCmd(d)] \notin {"absent", "idle"} =>
           /\ pending'[RetireCmd(d)] = 0
           /\ Finished(IssueCmd(d))' /\ \A x \in CommandsOf(d) : Finished(x)'
    BY <1>3, <2>1, <2>2, Zenon DEF Gate
  <2>5. ASSUME stage'[RetireCmd(d)] = "idle"
        PROVE  \/ Cardinality(Sources(RetireCmd(d))') < pending'[RetireCmd(d)]
               \/ /\ completion'[IssueCmd(d)] = RetireCmd(d) \/ Finished(IssueCmd(d))'
                  /\ \A x \in CommandsOf(d) : Live(x)' => completion'[x] = RetireCmd(d)
    <3>1. \/ Cardinality(Sources(RetireCmd(d))) < pending[RetireCmd(d)]
          \/ /\ completion[IssueCmd(d)] = RetireCmd(d) \/ Finished(IssueCmd(d))
             /\ \A x \in CommandsOf(d) : Live(x) => completion[x] = RetireCmd(d)
      BY <1>3, <2>5, Zenon DEF Gate
    <3>2. /\ Sources(RetireCmd(d)) \in SUBSET Tasks /\ Cardinality(Sources(RetireCmd(d))) \in Nat
          /\ pending[RetireCmd(d)] \in Nat /\ Cardinality(Sources(RetireCmd(d))) <= pending[RetireCmd(d)]
      BY <1>16, IntoCount, Zenon DEF Sources, Typed, Counted
    <3>3. /\ Sources(RetireCmd(d))' = Sources(RetireCmd(d)) \ {prev}
          /\ Cardinality(Sources(RetireCmd(d))') <= Cardinality(Sources(RetireCmd(d)))
      BY <1>14, <1>16, Zenon
    <3>4. Cardinality(Sources(RetireCmd(d))') \in Nat
      <4>1. Sources(RetireCmd(d))' \in SUBSET Tasks
        BY <3>2, <3>3, Zenon
      <4> QED
        BY <4>1, CountOf, Zenon
    <3>5. CASE Cardinality(Sources(RetireCmd(d))) < pending[RetireCmd(d)]
      <4>1. Cardinality(Sources(RetireCmd(d))') < pending[RetireCmd(d)]
        BY <3>2, <3>3, <3>4, <3>5, SMTT(60)
      <4> QED
        BY <2>1, <4>1, ZenonT(60)
    <3>6. CASE IssueCmd(d) = prev /\ completion[prev] = RetireCmd(d)
      <4>1. prev \in Sources(RetireCmd(d))
        BY <1>16, <3>6, Zenon DEF Sources, Into
      <4>3. Cardinality(Sources(RetireCmd(d)) \ {prev}) = Cardinality(Sources(RetireCmd(d))) - 1
        BY <3>2, <4>1, CountLess, Zenon
      <4>4. Cardinality(Sources(RetireCmd(d))') = Cardinality(Sources(RetireCmd(d))) - 1
        BY <3>3, <4>3, ZenonT(60)
      <4>5. Cardinality(Sources(RetireCmd(d))') < pending[RetireCmd(d)]
        BY <3>2, <4>4, SMTT(60)
      <4> QED
        BY <2>1, <4>5, Zenon
    <3>7. CASE /\ Finished(IssueCmd(d))
               /\ \A x \in CommandsOf(d) : Live(x) => completion[x] = RetireCmd(d)
      BY <2>2, <2>3, <3>7, ZenonT(60)
    <3>8. CASE /\ IssueCmd(d) # prev /\ completion[IssueCmd(d)] = RetireCmd(d)
               /\ \A x \in CommandsOf(d) : Live(x) => completion[x] = RetireCmd(d)
      <4>1. completion'[IssueCmd(d)] = completion[IssueCmd(d)]
        BY <1>9, <1>16, <3>8, ZenonT(60)
      <4> QED
        BY <2>2, <2>3, <3>8, <4>1, ZenonT(60)
    <3> QED
      BY <3>1, <3>5, <3>6, <3>7, <3>8, ZenonT(60)
  <2> QED
    BY <2>4, <2>5, Zenon
<1>25. FenceLast'
  <2>1. \A d \in Batches : completion'[RetireCmd(d)] = completion[RetireCmd(d)]
    BY <1>9, <1>16, Zenon
  <2> QED
    BY <1>3, <2>1, Zenon DEF FenceLast, Finished, Done
<1>26. ScopeExact' /\ FreedLast'
  BY <1>3, ZenonT(60) DEF ScopeExact, Open, FreedLast, Done
<1>27. \A q \in Queues : tail'[q] = IF q = Queue[b] THEN I ELSE tail[q]
  BY <1>3, Zenon DEF Typed
<1>28. TailInFlight'
  <2> SUFFICES ASSUME NEW q \in Queues, NEW d \in Batches, tail'[q] = IssueCmd(d)
               PROVE  Queue[d] = q /\ stage'[IssueCmd(d)] \notin {"absent", "done"}
    BY Zenon DEF TailInFlight
  <2>1. CASE q = Queue[b]
    <3>1. d = b
      BY <1>27, <2>1, IssueApart, Zenon
    <3> QED
      BY <1>3, <1>5, <2>1, <3>1, Zenon
  <2>2. CASE q # Queue[b]
    BY <1>3, <1>27, <2>2, ZenonT(60) DEF TailInFlight
  <2> QED
    BY <2>1, <2>2, Zenon
<1>29. \A v \in Users : step'[v] = IF v = u THEN "submit" ELSE step[v]
  BY <1>3, Zenon DEF Typed
<1>30. InCall'
  <2>1. \A v \in Users : step'[v] = "chain" => v # u /\ step[v] = "chain"
    BY <1>29, Zenon
  <2>2. \A v \in Users : v # u => \A d \in Batches : Chaining(v, d)' <=> Chaining(v, d)
    BY <1>3, <1>29, Zenon DEF Chaining
  <2>3. \A v \in Users : step'[v] = "chain" => \E d \in Batches : Chaining(v, d)'
    <3> SUFFICES ASSUME NEW v \in Users, step'[v] = "chain" PROVE \E d \in Batches : Chaining(v, d)'
      BY Zenon
    <3>1. PICK d \in Batches : Chaining(v, d)
      BY <2>1, Zenon DEF InCall
    <3> QED
      BY <2>1, <2>2, <3>1, Zenon
  <2>4. ASSUME NEW v \in Users, NEW d \in Batches, Chaining(v, d)'
        PROVE  /\ (stage[Root(d)] = "local" /\ holder[Root(d)] = v /\ Sources(Root(d)) = {})'
               /\ \A q \in Queues : tail'[q] # IssueCmd(d)
    <3>1. v # u
      BY <2>1, <2>4, Zenon DEF Chaining
    <3>2. Chaining(v, d)
      BY <2>2, <2>4, <3>1, ZenonT(60)
    <3>3. d # b
      BY <1>2, <3>1, <3>2, OneCall, SMTT(60) DEF Chaining
    <3>4. IssueCmd(d) # I
      BY <3>3, IssueApart, Zenon
    <3>5. Root(d) \in Tasks /\ Root(d) # I
      BY <1>16, <3>4, Zenon DEF Root
    <3>6. /\ stage[Root(d)] = "local" /\ holder[Root(d)] = v /\ Sources(Root(d)) = {}
          /\ \A q \in Queues : tail[q] # IssueCmd(d)
      BY <3>2, Zenon DEF InCall
    <3>7. Sources(Root(d))' = {}
      <4> PICK r : r = Root(d)
        OBVIOUS
      <4>1. Sources(r)' = {}
        BY <1>14, <3>5, <3>6, Zenon
      <4> QED
        BY <4>1, Zenon DEF Root
    <3>8. \A q \in Queues : tail'[q] # IssueCmd(d)
      BY <1>27, <3>4, <3>6, Zenon
    <3> QED
      BY <1>3, <3>6, <3>7, <3>8, Zenon DEF Root
  <2> QED
    BY <2>3, <2>4, Zenon DEF InCall
<1>31. Fresh'
  <2>1. \A v \in Users : \A i \in DOMAIN Programs[v] : Ahead(v, i)' => Ahead(v, i)
    BY <1>3, <1>29 DEF Ahead
  <2> QED
    BY <1>3, <2>1, ZenonT(60) DEF Fresh
<1>32. Apart'
  <2>1. CASE prev = NoTask
    BY <1>3, <2>1, ZenonT(60) DEF Apart, Done
  <2>2. CASE prev # NoTask
    BY <1>3, <2>2, Zenon DEF Apart
  <2> QED
    BY <2>1, <2>2, Zenon
<1> QED
  BY <1>13, <1>18, <1>19, <1>20, <1>21, <1>22, <1>23, <1>24, <1>25, <1>26, <1>28, <1>30, <1>31, <1>32,
     ZenonT(60)

-----------------------------------------------------------------------------
\* Every step keeps the invariant, one case per action.
LEMMA NextKeeps == IInv /\ [Next]_vars => IInv'
<1> SUFFICES ASSUME IInv, [Next]_vars PROVE IInv'
  OBVIOUS
<1>1. ASSUME NEW u \in Users, Build(u) \/ BuildFails(u) \/ Chain(u) \/ Submit(u) \/ WaitIdle(u) \/ HostSignal(u)
      PROVE  IInv'
  BY <1>1, BuildKeeps, BuildFailsKeeps, ChainKeeps, SubmitKeeps, WaitIdleKeeps, HostSignalKeeps, ZenonT(60)
<1>2. ASSUME NEW b \in Batches,
             WaitCmdRuns(b) \/ WaitCmdFails(b) \/ IssueCmdRuns(b) \/ RetireCmdRuns(b) \/ FenceRetires(b)
      PROVE  IInv'
  BY <1>2, WaitCmdRunsKeeps, WaitCmdFailsKeeps, IssueCmdRunsKeeps, RetireCmdRunsKeeps, FenceRetiresKeeps,
     Zenon
<1>3. ASSUME NEW b \in Batches, NEW c \in Commands[b], CommandRuns(b, c) PROVE IInv'
  BY <1>3, CommandRunsKeeps, Zenon
<1>4. ASSUME NEW b \in Batches, NEW w \in Waits[b], TimepointReached(b, w) PROVE IInv'
  BY <1>4, TimepointReachedKeeps, Zenon
<1>5. ASSUME NEW t \in Tasks, CallReturns(t) \/ Cleanup(t) PROVE IInv'
  BY <1>5, CallReturnsKeeps, CleanupKeeps, Zenon
<1>6. CASE UNCHANGED vars \/ \E u \in Users : FenceFails(u)
  <2>1. UNCHANGED <<tasks, value, tail, scope, at, step, freed, chained, faulted>>
    BY <1>6, ZenonT(60) DEF vars, FenceFails
  <2>2. UNCHANGED <<pending, completion, stage, holder>>
    BY <2>1, Zenon DEF tasks
  <2>3. Typed'
    BY <2>1, <2>2, Zenon DEF IInv, Typed
  <2>4. /\ Linked' /\ Counted' /\ FinishedFree' /\ AbsentFree' /\ Free' /\ Built' /\ WaitPhase'
        /\ Issued' /\ Gate' /\ FenceLast' /\ Apart'
    BY <2>1, TasksStay, Zenon
  <2>5. Waited' /\ ScopeExact' /\ FreedLast' /\ TailInFlight'
    BY <2>1, <2>2, ZenonT(60) DEF IInv, Waited, ScopeExact, FreedLast, TailInFlight, Done, Open
  <2>6. InCall'
    <3>1. \A c : Sources(c)' = Sources(c)
      BY <2>2, Zenon DEF Sources, Into
    <3>2. \A u, b : Chaining(u, b)' <=> Chaining(u, b)
      BY <2>1, Zenon DEF Chaining
    <3> QED
      BY <2>1, <2>2, <3>1, <3>2, Zenon DEF IInv, InCall, Root
  <2>7. Fresh'
    BY <2>1, <2>2, Zenon DEF IInv, Fresh, Ahead
  <2> QED
    BY <2>3, <2>4, <2>5, <2>6, <2>7, Zenon DEF IInv
<1> QED
  BY <1>1, <1>2, <1>3, <1>4, <1>5, <1>6, ZenonT(60) DEF Next, Step

=============================================================================
