------------------------ MODULE CommandBufferProofs ------------------------
(***************************************************************************)
(* Barriers of a recorded command buffer are respected by every execution, *)
(* and order nothing else, for recordings of any length.                   *)
(*                                                                         *)
(* The graph that recording builds is compared with the order that the     *)
(* sequence k of recorded kinds asks for.  A barrier, and the retire       *)
(* command, directly follows the commands since the last barrier, or that  *)
(* barrier if there are none; a command directly follows the last barrier. *)
(***************************************************************************)
EXTENDS CommandBuffer, FiniteSetTheorems, WellFoundedInduction, TLAPS

Kinds == {k \in Seq({"command", "empty", "barrier"}) : Len(k) <= MaxTasks}

Positions(k) == 1 .. Len(k)
Cmd(k) == {t \in Positions(k) : k[t] # "barrier"}
Bar(k) == {t \in Positions(k) : k[t] = "barrier"}

\* The last barrier before t, if there is one, and the commands after it.
LastBar(k, t) == {b \in Bar(k) : b < t /\ \A d \in Bar(k) : d < t => d <= b}
Segment(k, t) == {u \in Cmd(k) : u < t /\ \A b \in Bar(k) : b < t => b < u}

Layer(k, t) == IF Segment(k, t) # {} THEN Segment(k, t) ELSE LastBar(k, t)
Preds(k, t) == IF t \in Cmd(k) THEN LastBar(k, t) ELSE Layer(k, t)

\* The commands that have to run before t.
Earlier(k, t) ==
    IF t \in Cmd(k) THEN {a \in Cmd(k) : \E b \in Bar(k) : a < b /\ b < t}
                    ELSE {a \in Cmd(k) : a < t}

\* Direct predecessors are recorded earlier, and there are finitely many.
LEMMA PredsType ==
    ASSUME NEW k \in Kinds, NEW t \in Nodes
    PROVE  /\ Preds(k, t) \subseteq Positions(k)
           /\ \A u \in Preds(k, t) : u < t
           /\ IsFiniteSet(Preds(k, t))
<1>1. /\ Preds(k, t) \subseteq Positions(k)
      /\ \A u \in Preds(k, t) : u < t
  BY Zenon DEF Preds, Layer, Segment, LastBar, Cmd, Bar
<1>2. Len(k) \in Nat BY DEF Kinds
<1>3. IsFiniteSet(Positions(k)) BY <1>2, FS_Interval DEF Positions
<1>4. IsFiniteSet(Preds(k, t)) BY <1>1, <1>3, FS_Subset, Zenon
<1>5. QED BY <1>1, <1>4, Zenon

\* Recording one more task changes nothing for the earlier ones.
LEMMA AppendKeeps ==
    ASSUME NEW k \in Kinds, NEW x \in {"command", "empty", "barrier"}, Len(k) < MaxTasks,
           NEW l, l = Append(k, x)
    PROVE  /\ l \in Kinds
           /\ Len(l) = Len(k) + 1 /\ Positions(l) = Positions(k) \cup {Len(k) + 1}
           /\ Cmd(l) = IF x # "barrier" THEN Cmd(k) \cup {Len(k) + 1} ELSE Cmd(k)
           /\ Bar(l) = IF x = "barrier" THEN Bar(k) \cup {Len(k) + 1} ELSE Bar(k)
           /\ \A t \in 1 .. Len(k) + 1 :
                Segment(l, t) = Segment(k, t) /\ LastBar(l, t) = LastBar(k, t)
           /\ \A t \in Positions(k) :
                Preds(l, t) = Preds(k, t) /\ Earlier(l, t) = Earlier(k, t)
<1>1. l \in Kinds /\ Len(l) = Len(k) + 1 /\ Len(k) \in Nat
  BY MaxTasksAssumption DEF Kinds
<1>2. /\ Cmd(l) = IF x # "barrier" THEN Cmd(k) \cup {Len(k) + 1} ELSE Cmd(k)
      /\ Bar(l) = IF x = "barrier" THEN Bar(k) \cup {Len(k) + 1} ELSE Bar(k)
  <2>1. \A t \in Positions(k) : l[t] = k[t] BY <1>1 DEF Kinds, Positions
  <2>2. l[Len(k) + 1] = x BY <1>1 DEF Kinds
  <2>3. Positions(l) = Positions(k) \cup {Len(k) + 1} BY <1>1 DEF Positions
  <2>4. QED BY <2>1, <2>2, <2>3, Zenon DEF Cmd, Bar
<1>3. Cmd(k) \subseteq Positions(k) /\ Bar(k) \subseteq Positions(k) BY Zenon DEF Cmd, Bar
<1>4. \A t \in 1 .. Len(k) + 1 : Segment(l, t) = Segment(k, t)
  BY <1>1, <1>2, <1>3 DEF Segment, Positions
<1>5. \A t \in 1 .. Len(k) + 1 : LastBar(l, t) = LastBar(k, t)
  BY <1>1, <1>2, <1>3 DEF LastBar, Positions
<1>6. \A t \in Positions(k) : t \in Cmd(l) <=> t \in Cmd(k)
  BY <1>1, <1>2, <1>3 DEF Positions
<1>7. \A t \in Positions(k) : Preds(l, t) = Preds(k, t)
  BY <1>1, <1>4, <1>5, <1>6 DEF Preds, Layer, Positions
<1>8. \A t \in Positions(k) : Earlier(l, t) = Earlier(k, t)
  <2> SUFFICES ASSUME NEW t \in Positions(k) PROVE Earlier(l, t) = Earlier(k, t)
    OBVIOUS
  <2>1. {a \in Cmd(l) : a < t} = {a \in Cmd(k) : a < t}
    BY <1>1, <1>2, <1>3 DEF Positions
  <2>2. \A a \in Cmd(l) : \A b \in Bar(l) : a < b /\ b < t => a \in Cmd(k) /\ b \in Bar(k)
    BY <1>1, <1>2, <1>3 DEF Positions
  <2>3. Cmd(k) \subseteq Cmd(l) /\ Bar(k) \subseteq Bar(l) BY <1>2, Zenon
  <2>4. QED BY <1>6, <2>1, <2>2, <2>3, Zenon DEF Earlier
<1>9. Positions(l) = Positions(k) \cup {Len(k) + 1} BY <1>1 DEF Positions
<1>10. QED BY <1>1, <1>2, <1>4, <1>5, <1>7, <1>8, <1>9, Zenon

-----------------------------------------------------------------------------
\* The tasks that wait for u in command buffer c.
Succ(c, u) == c.dependents[u] \cup ({c.completion[u]} \ {NULL})

BufferType ==
    [root_tasks : SUBSET Tasks, leaf_tasks : SUBSET Tasks,
     open_barrier : Tasks \cup {NULL}, open_tasks : SUBSET Tasks,
     completion : [Tasks -> Nodes \cup {NULL}],
     dependents : [Tasks -> SUBSET Tasks],
     pending : [Nodes -> Int]]

\* The links and counters of the tasks in W, and of no other, are those that
\* the recorded kinds ask for.
Wired(c, k, W) ==
    /\ \A u \in Tasks : Succ(c, u) = {t \in W : u \in Preds(k, t)}
    /\ \A t \in W : c.pending[t] = Cardinality(Preds(k, t))
    /\ \A t \in Tasks \ W : c.pending[t] = 0

\* Tasks that may run at once.  What a root formally follows is a barrier that
\* was recorded first and never issued.
FirstLayer(k, S) ==
    \A r \in S : /\ r \in Positions(k) /\ Earlier(k, r) = {}
                 /\ \A u \in Preds(k, r) : u \notin S /\ Preds(k, u) = {}

\* The command buffer while kinds k have been recorded: the commands since the
\* open barrier are not wired up yet.
Recording(c, k) ==
    LET end == Len(k) + 1 IN
    /\ c.open_barrier = NULL => /\ Bar(k) = {}
                                /\ c.open_tasks = {} /\ c.leaf_tasks = Segment(k, end)
    /\ c.open_barrier # NULL => /\ LastBar(k, end) = {c.open_barrier}
                                /\ c.open_tasks = Segment(k, end)
                                /\ c.leaf_tasks = {c.open_barrier}
    /\ Wired(c, k, Positions(k) \ c.open_tasks)
    /\ c.pending[Retire] = 1
    /\ FirstLayer(k, c.root_tasks)
    /\ c.root_tasks = {} => c.open_barrier \in {NULL, 1}

\* Positions are tasks, and the retire command is none.
LEMMA PositionsAreTasks ==
    ASSUME NEW k \in Kinds
    PROVE  /\ Len(k) \in Nat /\ Positions(k) \subseteq Tasks
           /\ Cmd(k) \subseteq Positions(k) /\ Bar(k) \subseteq Positions(k)
           /\ Cmd(k) \cap Bar(k) = {} /\ Positions(k) = Cmd(k) \cup Bar(k)
           /\ Retire \notin Tasks /\ NULL \notin Nodes
<1>1. Len(k) \in Nat /\ Len(k) <= MaxTasks BY DEF Kinds
<1>2. \A t \in Positions(k) : k[t] \in {"command", "empty", "barrier"} BY DEF Kinds, Positions
<1>3. Cmd(k) \cap Bar(k) = {} /\ Positions(k) = Cmd(k) \cup Bar(k) BY <1>2, Zenon DEF Cmd, Bar
<1>4. QED BY <1>1, <1>3, MaxTasksAssumption DEF Positions, Tasks, Retire, NULL, Nodes, Cmd, Bar

\* The open tasks are commands that follow the open barrier, which nothing that
\* is wired up follows.
LEMMA OpenTasks ==
    ASSUME NEW k \in Kinds, NEW c \in BufferType, Recording(c, k), c.open_barrier # NULL
    PROVE  /\ c.open_barrier \in Bar(k)
           /\ \A t \in c.open_tasks : Preds(k, t) = {c.open_barrier}
           /\ \A t \in Positions(k) \ c.open_tasks : c.open_barrier \notin Preds(k, t)
<1> DEFINE o == c.open_barrier  n == Len(k)
<1>0. n \in Nat /\ Cmd(k) \subseteq 1 .. n /\ Bar(k) \subseteq 1 .. n
  BY PositionsAreTasks, Zenon DEF Positions
<1>1. LastBar(k, n + 1) = {o} /\ c.open_tasks = Segment(k, n + 1) BY Zenon DEF Recording
<1>2. o \in Bar(k) /\ \A d \in Bar(k) : d <= o
  BY <1>0, <1>1 DEF LastBar
<1>3. ASSUME NEW t \in c.open_tasks PROVE Preds(k, t) = {o}
  <2>1. t \in Cmd(k) /\ o < t BY <1>0, <1>1, <1>2 DEF Segment
  <2>2. o \in LastBar(k, t) BY <1>2, <2>1, Zenon DEF LastBar
  <2>3. \A b \in LastBar(k, t) : b = o BY <1>0, <1>2, <2>1 DEF LastBar
  <2>4. QED BY <2>1, <2>2, <2>3, Zenon DEF Preds
<1>4. ASSUME NEW t \in Positions(k) \ c.open_tasks, o \in Preds(k, t) PROVE FALSE
  <2>1. o < t /\ t \in 1 .. n BY <1>4, PredsType, PositionsAreTasks, Zenon DEF Nodes, Positions
  <2>2. t \notin Bar(k) BY <1>0, <1>2, <2>1
  <2>3. t \in Cmd(k) BY <2>2, PositionsAreTasks, Zenon
  <2>4. t \in Segment(k, n + 1) BY <1>0, <1>2, <2>1, <2>3 DEF Segment
  <2>5. QED BY <1>1, <2>4, Zenon
<1>5. QED BY <1>2, <1>3, <1>4, Zenon

\* Command buffer j is c with the tasks of list linked to task `to'.
Joined(j, c, list, to) ==
    /\ j \in BufferType
    /\ \A u \in Tasks : Succ(j, u) = IF u \in list THEN {to} ELSE Succ(c, u)
    /\ j.pending[to] = c.pending[to] + Cardinality(list)
    /\ \A t \in Nodes \ {to} : j.pending[t] = c.pending[t]
    /\ j.root_tasks = c.root_tasks /\ j.leaf_tasks = c.leaf_tasks
    /\ j.open_tasks = c.open_tasks /\ j.open_barrier = c.open_barrier

\* Join links tasks that nothing follows yet.
LEMMA JoinLinks ==
    ASSUME NEW c \in BufferType, NEW list \in SUBSET Tasks, IsFiniteSet(list),
           NEW to \in Nodes, \A u \in list : Succ(c, u) = {}
    PROVE  Joined(Join(c, list, to), c, list, to)
<1> DEFINE j == Join(c, list, to)
<1>1. Cardinality(list) \in Nat BY FS_CardinalityType, Zenon
<1>2. /\ j.completion = [t \in Tasks |-> IF t \in list THEN to ELSE c.completion[t]]
      /\ j.pending = [c.pending EXCEPT ![to] = @ + Cardinality(list)]
      /\ j.dependents = c.dependents
      /\ j.root_tasks = c.root_tasks /\ j.leaf_tasks = c.leaf_tasks
      /\ j.open_tasks = c.open_tasks /\ j.open_barrier = c.open_barrier
  BY Zenon DEF Join, BufferType
<1>3. j \in BufferType
  <2>1. j.completion \in [Tasks -> Nodes \cup {NULL}] BY <1>2 DEF BufferType
  <2>2. j.pending \in [Nodes -> Int] BY <1>1, <1>2 DEF BufferType
  <2>3. QED BY <1>2, <2>1, <2>2, Zenon DEF Join, BufferType
<1>4. to # NULL BY MaxTasksAssumption DEF Nodes, Tasks, Retire, NULL
<1>5. ASSUME NEW u \in Tasks
      PROVE  Succ(j, u) = IF u \in list THEN {to} ELSE Succ(c, u)
  <2>1. CASE u \in list BY <1>2, <1>4, <2>1, Zenon DEF Succ
  <2>2. CASE u \notin list BY <1>2, <2>2, Zenon DEF Succ
  <2>3. QED BY <2>1, <2>2, Zenon
<1> HIDE DEF j
<1>6. Joined(j, c, list, to) BY <1>2, <1>3, <1>5, Zenon DEF BufferType, Joined
<1>7. QED BY <1>6, Zenon DEF j

\* What LeavesBecomeRoots changes.
LEMMA LeavesMove ==
    ASSUME NEW j \in BufferType, NEW g, g = LeavesBecomeRoots(j)
    PROVE  /\ g \in BufferType
           /\ g.root_tasks = IF j.root_tasks = {} THEN j.leaf_tasks ELSE j.root_tasks
           /\ g.leaf_tasks = IF j.root_tasks = {} THEN {} ELSE j.leaf_tasks
           /\ g.open_tasks = j.open_tasks /\ g.open_barrier = j.open_barrier
           /\ g.pending = j.pending /\ \A u \in Tasks : Succ(g, u) = Succ(j, u)
<1>1. CASE j.root_tasks = {} /\ j.leaf_tasks # {}
  <2>1. g = [j EXCEPT !.root_tasks = j.leaf_tasks, !.leaf_tasks = {}]
    BY <1>1, Zenon DEF LeavesBecomeRoots
  <2>2. QED BY <1>1, <2>1, Zenon DEF BufferType, Succ
<1>2. CASE ~(j.root_tasks = {} /\ j.leaf_tasks # {})
  <2>1. g = j BY <1>2, Zenon DEF LeavesBecomeRoots
  <2>2. QED BY <1>2, <2>1, Zenon
<1>3. QED BY <1>1, <1>2, Zenon

\* Flush wires up everything recorded; the leaves are the last layer.
LEMMA FlushWires ==
    ASSUME NEW k \in Kinds, NEW c \in BufferType, Recording(c, k), NEW f, f = Flush(c)
    PROVE  /\ f \in BufferType
           /\ f.open_barrier = NULL /\ f.open_tasks = {}
           /\ f.leaf_tasks = Layer(k, Len(k) + 1) /\ f.root_tasks = c.root_tasks
           /\ Wired(f, k, Positions(k)) /\ f.pending[Retire] = 1
<1> DEFINE o == c.open_barrier  open == c.open_tasks
<1>0. /\ Len(k) \in Nat /\ Positions(k) \subseteq Tasks /\ Retire \notin Tasks
      /\ Cmd(k) \subseteq Positions(k) /\ NULL \notin Tasks
  BY PositionsAreTasks, Zenon DEF Nodes
<1>1. open \subseteq Positions(k) BY <1>0, Zenon DEF Recording, Segment
<1>2. IsFiniteSet(open)
  <2>1. IsFiniteSet(Positions(k)) BY <1>0, FS_Interval DEF Positions
  <2>2. QED BY <1>1, <2>1, FS_Subset, Zenon
<1>3. (IF o = NULL THEN {} ELSE open) = open BY Zenon DEF Recording
<1>4. /\ f.completion = [t \in Tasks |-> IF t = o /\ Cardinality(open) = 1
                                         THEN CHOOSE u \in open : TRUE ELSE c.completion[t]]
      /\ f.dependents = [t \in Tasks |-> IF t = o /\ Cardinality(open) > 1
                                         THEN open ELSE c.dependents[t]]
      /\ f.pending = [t \in Nodes |-> IF t \in open THEN c.pending[t] + 1 ELSE c.pending[t]]
      /\ f.open_barrier = NULL /\ f.open_tasks = {} /\ f.root_tasks = c.root_tasks
      /\ f.leaf_tasks = IF open = {} THEN c.leaf_tasks ELSE open
  <2> DEFINE forked == IF o = NULL THEN {} ELSE open
             first == CHOOSE u \in forked : TRUE
             size == Cardinality(forked)
  <2>1. f = [c EXCEPT
               !.completion = [t \in Tasks |-> IF t = o /\ size = 1 THEN first ELSE @[t]],
               !.dependents = [t \in Tasks |-> IF t = o /\ size > 1 THEN forked ELSE @[t]],
               !.pending = [t \in Nodes |-> IF t \in forked THEN @[t] + 1 ELSE @[t]],
               !.open_barrier = NULL,
               !.leaf_tasks = IF open = {} THEN @ ELSE open,
               !.open_tasks = {}]
    BY Zenon DEF Flush
  <2>2. forked = open BY <1>3, Zenon
  <2>3. first = CHOOSE u \in open : TRUE BY <2>2, Zenon
  <2>4. size = Cardinality(open) BY <2>2, Zenon
  <2> HIDE DEF first, size, forked
  <2>5. QED BY <2>1, <2>2, <2>3, <2>4 DEF BufferType
<1>5. Cardinality(open) = 1 => open = {CHOOSE u \in open : TRUE}
  <2>1. SUFFICES ASSUME Cardinality(open) = 1 PROVE open = {CHOOSE u \in open : TRUE}
    OBVIOUS
  <2>2. PICK u : open = {u} BY <1>2, <2>1, FS_Singleton, Zenon
  <2>3. QED BY <2>2, Zenon
<1>6. Cardinality(open) \in Nat /\ (Cardinality(open) = 0 <=> open = {})
  BY <1>2, FS_CardinalityType, FS_EmptySet, Zenon
<1>7. f \in BufferType
  <2>1. f.completion \in [Tasks -> Nodes \cup {NULL}]
    BY <1>0, <1>1, <1>4, <1>5 DEF BufferType, Nodes
  <2>2. f.dependents \in [Tasks -> SUBSET Tasks] BY <1>0, <1>1, <1>4 DEF BufferType
  <2>3. f.pending \in [Nodes -> Int] BY <1>4 DEF BufferType
  <2>4. f.leaf_tasks \in SUBSET Tasks BY <1>0, <1>1, <1>4, Zenon DEF BufferType
  <2>5. QED BY <1>4, <2>1, <2>2, <2>3, <2>4, Zenon DEF Flush, BufferType
<1>8. f.leaf_tasks = Layer(k, Len(k) + 1)
  <2>1. CASE o = NULL
    <3>1. LastBar(k, Len(k) + 1) = {} BY <2>1, Zenon DEF Recording, LastBar
    <3>2. QED BY <1>4, <2>1, <3>1, Zenon DEF Recording, Layer
  <2>2. CASE o # NULL BY <1>4, <2>2, Zenon DEF Recording, Layer
  <2>3. QED BY <2>1, <2>2, Zenon
<1>9. \A t \in open : o # NULL /\ Preds(k, t) = {o} /\ c.pending[t] = 0
  BY <1>0, <1>1, OpenTasks, Zenon DEF Recording, Wired
<1>10. ASSUME NEW u \in Tasks
       PROVE  Succ(f, u) = {t \in Positions(k) : u \in Preds(k, t)}
  <2>1. Succ(c, u) = {t \in Positions(k) \ open : u \in Preds(k, t)}
    BY Zenon DEF Recording, Wired
  <2>2. CASE u # o
    <3>1. Succ(f, u) = Succ(c, u) BY <1>4, <2>2, Zenon DEF Succ
    <3>2. QED BY <1>9, <2>1, <2>2, <3>1, Zenon
  <2>3. CASE u = o
    <3>1. o # NULL BY <1>0, <2>3, Zenon
    <3>2. Succ(c, u) = {} BY <2>1, <2>3, <3>1, OpenTasks, Zenon
    <3>3. c.dependents[u] = {} /\ c.completion[u] = NULL BY <3>2, Zenon DEF Succ
    <3>4. {t \in Positions(k) : u \in Preds(k, t)} = open
      BY <1>1, <1>9, <2>3, <3>1, OpenTasks, Zenon
    <3>5. Succ(f, u) = open
      <4>1. CASE Cardinality(open) = 0 BY <1>4, <1>6, <3>3, <4>1 DEF Succ
      <4>2. CASE Cardinality(open) = 1
        <5>1. f.completion[u] = CHOOSE x \in open : TRUE BY <1>4, <2>3, <4>2, Zenon
        <5>2. f.dependents[u] = {} BY <1>4, <3>3, <4>2
        <5>3. QED BY <1>0, <1>1, <1>5, <4>2, <5>1, <5>2, Zenon DEF Succ
      <4>3. CASE Cardinality(open) > 1 BY <1>4, <2>3, <3>3, <4>3 DEF Succ
      <4>4. QED BY <1>6, <4>1, <4>2, <4>3
    <3>6. QED BY <3>4, <3>5, Zenon
  <2>4. QED BY <2>2, <2>3, Zenon
<1>11. ASSUME NEW t \in Positions(k) PROVE f.pending[t] = Cardinality(Preds(k, t))
  <2>1. CASE t \in open
    <3>1. f.pending[t] = 1 BY <1>0, <1>4, <1>9, <2>1 DEF Nodes
    <3>2. QED BY <1>9, <2>1, <3>1, FS_Singleton, Zenon
  <2>2. CASE t \notin open BY <1>0, <1>4, <2>2, Zenon DEF Recording, Wired, Nodes
  <2>3. QED BY <2>1, <2>2, Zenon
<1>12. \A t \in Tasks \ Positions(k) : f.pending[t] = 0
  BY <1>0, <1>1, <1>4, Zenon DEF Recording, Wired, Nodes
<1>13. f.pending[Retire] = 1 BY <1>0, <1>1, <1>4, Zenon DEF Recording, Nodes
<1>14. QED BY <1>4, <1>7, <1>8, <1>10, <1>11, <1>12, <1>13, Zenon DEF Wired

\* The last layer of a recording: nothing recorded follows it, it is empty only
\* if nothing was recorded, and if there are no roots yet it is the first layer.
LEMMA LastLayer ==
    ASSUME NEW k \in Kinds, NEW c \in BufferType, Recording(c, k),
           NEW last, last = Layer(k, Len(k) + 1)
    PROVE  /\ last \subseteq Positions(k) /\ IsFiniteSet(last)
           /\ \A u \in last : \A t \in Positions(k) : u \notin Preds(k, t)
           /\ last = {} => Len(k) = 0
           /\ c.root_tasks = {} => FirstLayer(k, last)
<1> DEFINE o == c.open_barrier  n == Len(k)
<1>0. /\ n \in Nat /\ Positions(k) = 1 .. n /\ Positions(k) = Cmd(k) \cup Bar(k)
      /\ Cmd(k) \cap Bar(k) = {} /\ Positions(k) \subseteq Nodes
  BY PositionsAreTasks, Zenon DEF Positions, Nodes
<1>1. last \subseteq Positions(k) BY <1>0, Zenon DEF Layer, Segment, LastBar
<1>2. IsFiniteSet(last)
  <2>1. IsFiniteSet(Positions(k)) BY <1>0, FS_Interval
  <2>2. QED BY <1>1, <2>1, FS_Subset, Zenon
<1>3. ASSUME NEW u \in last, NEW t \in Positions(k), u \in Preds(k, t) PROVE FALSE
  <2>0. u < t /\ u \in 1 .. n /\ t \in 1 .. n BY <1>0, <1>1, <1>3, PredsType, Zenon
  <2>1. CASE Segment(k, n + 1) # {}
    <3>1. u \in Cmd(k) /\ \A b \in Bar(k) : b < u
      BY <1>0, <2>1 DEF Layer, Segment
    <3>2. t \notin Bar(k) BY <2>0, <3>1, <1>0
    <3>3. t \in Cmd(k) BY <1>0, <3>2, Zenon
    <3>4. u \in Bar(k) BY <1>3, <3>3, Zenon DEF Preds, LastBar
    <3>5. QED BY <1>0, <3>1, <3>4, Zenon
  <2>2. CASE Segment(k, n + 1) = {}
    <3>1. u \in Bar(k) /\ \A b \in Bar(k) : b <= u
      BY <1>0, <2>2 DEF Layer, LastBar
    <3>2. t \in Cmd(k) BY <1>0, <2>0, <3>1
    <3>3. t \in Segment(k, n + 1) BY <1>0, <2>0, <3>1, <3>2 DEF Segment
    <3>4. QED BY <2>2, <3>3, Zenon
  <2>3. QED BY <2>1, <2>2, Zenon
<1>4. o = NULL => Bar(k) = {} /\ last = Cmd(k) /\ LastBar(k, n + 1) = {}
  <2> SUFFICES ASSUME o = NULL PROVE Bar(k) = {} /\ last = Cmd(k) /\ LastBar(k, n + 1) = {}
    OBVIOUS
  <2>1. Bar(k) = {} BY Zenon DEF Recording
  <2>2. Segment(k, n + 1) = Cmd(k) BY <1>0, <2>1 DEF Segment
  <2>3. QED BY <2>1, <2>2, Zenon DEF Layer, LastBar
<1>5. o # NULL => last # {} BY Zenon DEF Recording, Layer
<1>6. last = {} => n = 0 BY <1>0, <1>4, <1>5
<1>7. ASSUME c.root_tasks = {}, NEW r \in last
      PROVE  /\ Earlier(k, r) = {}
             /\ \A u \in Preds(k, r) : u \notin last /\ Preds(k, u) = {}
  <2>1. CASE o = NULL
    <3>1. Bar(k) = {} /\ r \in Cmd(k) BY <1>4, <2>1, Zenon
    <3>2. QED BY <3>1, Zenon DEF Earlier, Preds, LastBar
  <2>2. CASE o # NULL
    <3>1. o = 1 /\ LastBar(k, n + 1) = {1} BY <1>7, <2>2, Zenon DEF Recording
    <3>2. Bar(k) = {1}
      <4>1. 1 \in LastBar(k, n + 1) BY <3>1, Zenon
      <4>2. 1 \in Bar(k) /\ \A d \in Bar(k) : d < n + 1 => d <= 1 BY <4>1, Zenon DEF LastBar
      <4>3. \A d \in Bar(k) : d \in 1 .. n BY <1>0, Zenon
      <4>4. \A d \in Bar(k) : d = 1 BY <1>0, <4>2, <4>3
      <4>5. QED BY <4>2, <4>4, Zenon
    <3>3. 1 \notin Cmd(k) BY <1>0, <3>2, Zenon
    <3>4. Segment(k, 1) = {} /\ LastBar(k, 1) = {} BY <1>0, <3>2 DEF Segment, LastBar
    <3>5. Preds(k, 1) = {} BY <3>3, <3>4, Zenon DEF Preds, Layer
    <3>6. CASE r = 1
      BY <1>0, <3>3, <3>5, <3>6 DEF Earlier
    <3>7. CASE r # 1
      <4>1. r \in Cmd(k) /\ r \in 1 .. n BY <1>0, <1>1, <3>2, <3>7, Zenon
      <4>2. Earlier(k, r) = {} BY <1>0, <3>2, <4>1 DEF Earlier
      <4>3. Preds(k, r) \subseteq {1} BY <3>2, <4>1, Zenon DEF Preds, LastBar
      <4>4. 1 \notin last
        <5>1. last # LastBar(k, n + 1) BY <3>1, <3>7, Zenon
        <5>2. last = Segment(k, n + 1) BY <5>1, Zenon DEF Layer
        <5>3. QED BY <3>3, <5>2, Zenon DEF Segment
      <4>5. QED BY <3>5, <4>2, <4>3, <4>4, Zenon
    <3>8. QED BY <3>6, <3>7, Zenon
  <2>3. QED BY <2>1, <2>2, Zenon
<1>8. c.root_tasks = {} => FirstLayer(k, last) BY <1>1, <1>7, Zenon DEF FirstLayer
<1>9. QED BY <1>1, <1>2, <1>3, <1>6, <1>8, Zenon

\* The roots stay roots when more is recorded.
LEMMA FirstLayerStays ==
    ASSUME NEW k \in Kinds, NEW x \in {"command", "empty", "barrier"}, Len(k) < MaxTasks,
           NEW S, FirstLayer(k, S)
    PROVE  FirstLayer(Append(k, x), S)
<1> DEFINE l == Append(k, x)
<1>1. \A t \in Positions(k) : Preds(l, t) = Preds(k, t) /\ Earlier(l, t) = Earlier(k, t)
  BY AppendKeeps, Zenon
<1>2. Positions(k) \subseteq Positions(l)
  BY AppendKeeps, PositionsAreTasks DEF Positions
<1>3. \A t \in Positions(k) : Preds(k, t) \subseteq Positions(k)
  BY PredsType, PositionsAreTasks, Zenon DEF Nodes
<1> HIDE DEF l
<1>4. FirstLayer(l, S) BY <1>1, <1>2, <1>3, Zenon DEF FirstLayer
<1>5. QED BY <1>4, Zenon DEF l

\* A command joins the last layer.
LEMMA CommandRecorded ==
    ASSUME NEW k \in Kinds, NEW c \in BufferType, Recording(c, k), Len(k) < MaxTasks,
           NEW x \in {"command", "empty"}, NEW l, l = Append(k, x), NEW e, e = ExecutionTask(c, Len(k) + 1)
    PROVE  e \in BufferType /\ Recording(e, l)
<1> DEFINE n == Len(k)  o == c.open_barrier
<1>0. /\ n \in Nat /\ Positions(k) = 1 .. n /\ n + 1 \in Tasks /\ n + 1 \notin Positions(k)
      /\ Cmd(k) \subseteq 1 .. n /\ Bar(k) \subseteq 1 .. n /\ Retire \notin Tasks
      /\ NULL \notin Nodes
  BY PositionsAreTasks, MaxTasksAssumption DEF Positions, Tasks
<1>1. /\ l \in Kinds /\ Len(l) = n + 1 /\ Positions(l) = Positions(k) \cup {n + 1}
      /\ Cmd(l) = Cmd(k) \cup {n + 1} /\ Bar(l) = Bar(k)
      /\ \A t \in 1 .. n + 1 : LastBar(l, t) = LastBar(k, t)
      /\ \A t \in Positions(k) : Preds(l, t) = Preds(k, t)
  <2>1. x \in {"command", "empty", "barrier"} /\ x # "barrier" OBVIOUS
  <2>2. QED BY <2>1, AppendKeeps, Zenon
<1>2. Segment(l, n + 2) = Segment(k, n + 1) \cup {n + 1}
  BY <1>0, <1>1 DEF Segment
<1>3. LastBar(l, n + 2) = LastBar(k, n + 1) /\ Preds(l, n + 1) = LastBar(k, n + 1)
  BY <1>0, <1>1 DEF LastBar, Preds
<1>4. e \in BufferType BY <1>0, Zenon DEF ExecutionTask, BufferType
<1>5. /\ e.open_barrier = o /\ e.root_tasks = c.root_tasks /\ e.pending = c.pending
      /\ e.leaf_tasks = IF o = NULL THEN c.leaf_tasks \cup {n + 1} ELSE c.leaf_tasks
      /\ e.open_tasks = IF o = NULL THEN c.open_tasks ELSE c.open_tasks \cup {n + 1}
      /\ \A u \in Tasks : Succ(e, u) = Succ(c, u)
  BY Zenon DEF ExecutionTask, BufferType, Succ
<1>6. Wired(e, l, Positions(l) \ e.open_tasks)
  <2> DEFINE W == Positions(k) \ c.open_tasks  V == Positions(l) \ e.open_tasks
  <2>0. Wired(c, k, W) BY Zenon DEF Recording
  <2>1. CASE o # NULL
    <3>1. V = W BY <1>0, <1>1, <1>5, <2>1, Zenon
    <3>2. \A t \in W : Preds(l, t) = Preds(k, t) BY <1>1, Zenon
    <3>3. QED BY <1>5, <2>0, <3>1, <3>2 DEF Wired
  <2>2. CASE o = NULL
    <3>1. V = W \cup {n + 1} BY <1>0, <1>1, <1>5, <2>2, Zenon DEF Recording
    <3>2. Preds(l, n + 1) = {} BY <1>3, <2>2, Zenon DEF Recording, LastBar
    <3>3. Cardinality(Preds(l, n + 1)) = 0 BY <3>2, FS_EmptySet, Zenon
    <3>4. \A t \in W : Preds(l, t) = Preds(k, t) BY <1>1, Zenon
    <3>5. \A u \in Tasks : Succ(e, u) = {t \in V : u \in Preds(l, t)}
      BY <1>5, <2>0, <3>1, <3>2, <3>4 DEF Wired
    <3>6. e.pending[n + 1] = 0 BY <1>0, <1>5, <2>0, Zenon DEF Wired
    <3>7. \A t \in V : e.pending[t] = Cardinality(Preds(l, t))
      BY <1>5, <2>0, <3>1, <3>3, <3>4, <3>6, Zenon DEF Wired
    <3>8. \A t \in Tasks \ V : e.pending[t] = 0 BY <1>5, <2>0, <3>1, Zenon DEF Wired
    <3>9. QED BY <3>5, <3>7, <3>8, Zenon DEF Wired
  <2>3. QED BY <2>1, <2>2, Zenon
<1>7. FirstLayer(l, e.root_tasks) BY <1>5, FirstLayerStays, Zenon DEF Recording
<1>8. Len(l) + 1 = n + 2 BY <1>0, <1>1
<1>9. QED BY <1>1, <1>2, <1>3, <1>4, <1>5, <1>6, <1>7, <1>8, Zenon DEF Recording

\* Command buffer e is c with barrier b joined to its last layer.
Barred(e, c, b, last) ==
    /\ e \in BufferType /\ e.open_barrier = b /\ e.leaf_tasks = {b}
    /\ e.open_tasks = {}
    /\ e.root_tasks = IF c.root_tasks = {} THEN last ELSE c.root_tasks
    /\ \A u \in Tasks : Succ(e, u) = IF u \in last THEN {b} ELSE Succ(Flush(c), u)
    /\ e.pending[b] = Flush(c).pending[b] + Cardinality(last)
    /\ \A t \in Nodes \ {b} : e.pending[t] = Flush(c).pending[t]

\* GlobalBarrier does that.
LEMMA BarrierJoins ==
    ASSUME NEW k \in Kinds, NEW c \in BufferType, Recording(c, k), NEW b \in Tasks
    PROVE  Barred(GlobalBarrier(c, b), c, b, Layer(k, Len(k) + 1))
<1> DEFINE f == Flush(c)  last == Layer(k, Len(k) + 1)
           j == Join(f, last, b)  g == LeavesBecomeRoots(j)  e == GlobalBarrier(c, b)
<1>1. /\ f \in BufferType /\ f.leaf_tasks = last /\ f.root_tasks = c.root_tasks
      /\ f.open_tasks = {} /\ Wired(f, k, Positions(k))
  BY FlushWires
<1>2. /\ last \in SUBSET Tasks /\ IsFiniteSet(last)
      /\ \A u \in last : \A t \in Positions(k) : u \notin Preds(k, t)
  BY LastLayer, PositionsAreTasks, Zenon
<1>3. e = [g EXCEPT !.leaf_tasks = {b}, !.open_barrier = b] BY <1>1, Zenon DEF GlobalBarrier
<1> HIDE DEF f, last, e
<1>4. \A u \in last : Succ(f, u) = {} BY <1>1, <1>2, Zenon DEF Wired
<1>5. b \in Nodes BY Zenon DEF Nodes
<1>6. Joined(j, f, last, b) BY <1>1, <1>2, <1>4, <1>5, JoinLinks, Zenon
<1> HIDE DEF j
<1>7. /\ g \in BufferType /\ g.open_tasks = {} /\ g.pending = j.pending
      /\ g.root_tasks = IF c.root_tasks = {} THEN last ELSE c.root_tasks
      /\ \A u \in Tasks : Succ(g, u) = Succ(j, u)
  BY <1>1, <1>6, LeavesMove DEF Joined
<1> HIDE DEF g
<1>8. /\ e.open_barrier = b /\ e.leaf_tasks = {b} /\ e.open_tasks = g.open_tasks
      /\ e.pending = g.pending /\ e.root_tasks = g.root_tasks
      /\ \A u \in Tasks : Succ(e, u) = Succ(g, u)
  BY <1>3, <1>7, Zenon DEF BufferType, Succ
<1>9. e \in BufferType BY <1>3, <1>7, Zenon DEF BufferType
<1>10. Barred(e, c, b, last) BY <1>6, <1>7, <1>8, <1>9 DEF Joined, Barred, f
<1>11. QED BY <1>10, Zenon DEF e, last

\* A barrier follows the last layer and opens a new one.
LEMMA BarrierRecorded ==
    ASSUME NEW k \in Kinds, NEW c \in BufferType, Recording(c, k), Len(k) < MaxTasks,
           NEW l, l = Append(k, "barrier"), NEW e, e = GlobalBarrier(c, Len(k) + 1)
    PROVE  e \in BufferType /\ Recording(e, l)
<1> DEFINE n == Len(k)  f == Flush(c)  last == Layer(k, n + 1)
<1>0. /\ n \in Nat /\ Positions(k) = 1 .. n /\ n + 1 \in Tasks /\ n + 1 \notin Positions(k)
      /\ Cmd(k) \subseteq 1 .. n /\ Bar(k) \subseteq 1 .. n /\ Retire \notin Tasks
      /\ NULL \notin Nodes /\ Positions(k) \subseteq Tasks
  BY PositionsAreTasks, MaxTasksAssumption DEF Positions, Tasks
<1>1. /\ l \in Kinds /\ Len(l) = n + 1 /\ Positions(l) = Positions(k) \cup {n + 1}
      /\ Cmd(l) = Cmd(k) /\ Bar(l) = Bar(k) \cup {n + 1}
      /\ Segment(l, n + 1) = Segment(k, n + 1) /\ LastBar(l, n + 1) = LastBar(k, n + 1)
      /\ \A t \in Positions(k) : Preds(l, t) = Preds(k, t)
  <2>1. "barrier" \in {"command", "empty", "barrier"} OBVIOUS
  <2>2. n + 1 \in 1 .. n + 1 BY <1>0
  <2>3. QED BY <2>1, <2>2, AppendKeeps, Zenon
<1>2. Segment(l, n + 2) = {} /\ LastBar(l, n + 2) = {n + 1}
  <2>1. n + 1 \in Bar(l) /\ n + 1 < n + 2 BY <1>0, <1>1
  <2>2. \A u \in Cmd(l) : ~(n + 1 < u) BY <1>0, <1>1
  <2>3. \A b \in Bar(l) : b <= n + 1 BY <1>0, <1>1
  <2>4. \A b \in Bar(l) : n + 1 <= b => b = n + 1 BY <1>0, <1>1
  <2>5. QED BY <2>1, <2>2, <2>3, <2>4, Zenon DEF Segment, LastBar
<1>3. Preds(l, n + 1) = last BY <1>0, <1>1, Zenon DEF Preds, Layer
<1>4. Wired(f, k, Positions(k)) /\ f.pending[Retire] = 1 BY FlushWires, Zenon
<1>5. /\ last \subseteq Positions(k) /\ IsFiniteSet(last)
      /\ \A u \in last : \A t \in Positions(k) : u \notin Preds(k, t)
      /\ last = {} => n = 0
      /\ c.root_tasks = {} => FirstLayer(k, last)
  BY LastLayer, Zenon
<1>6. /\ e \in BufferType /\ e.open_barrier = n + 1 /\ e.leaf_tasks = {n + 1}
      /\ e.open_tasks = {}
      /\ e.root_tasks = IF c.root_tasks = {} THEN last ELSE c.root_tasks
      /\ \A u \in Tasks : Succ(e, u) = IF u \in last THEN {n + 1} ELSE Succ(f, u)
      /\ e.pending[n + 1] = f.pending[n + 1] + Cardinality(last)
      /\ \A t \in Nodes \ {n + 1} : e.pending[t] = f.pending[t]
  <2>1. Barred(e, c, n + 1, last) BY <1>0, BarrierJoins, Zenon
  <2>2. QED BY <2>1, Zenon DEF Barred
<1> HIDE DEF f, last
<1>7. Wired(e, l, Positions(l))
  <2>1. ASSUME NEW u \in Tasks PROVE Succ(e, u) = {t \in Positions(l) : u \in Preds(l, t)}
    <3>1. Succ(f, u) = {t \in Positions(k) : u \in Preds(k, t)} BY <1>4, Zenon DEF Wired
    <3>2. CASE u \in last
      <4>1. \A t \in Positions(k) : u \notin Preds(l, t) BY <1>1, <1>5, <3>2, Zenon
      <4>2. QED BY <1>1, <1>3, <1>6, <3>2, <4>1, Zenon
    <3>3. CASE u \notin last
      <4>1. Succ(e, u) = Succ(f, u) BY <1>6, <3>3, Zenon
      <4>2. QED BY <1>1, <1>3, <3>1, <3>3, <4>1, Zenon
    <3>4. QED BY <3>2, <3>3, Zenon
  <2>2. Positions(k) \subseteq Nodes /\ n + 1 \notin Positions(k) BY <1>0, Zenon DEF Nodes
  <2>3. f.pending[n + 1] = 0 BY <1>0, <1>4, Zenon DEF Wired
  <2>4. e.pending[n + 1] = Cardinality(Preds(l, n + 1))
    <3>1. Cardinality(last) \in Nat BY <1>5, FS_CardinalityType, Zenon
    <3>2. QED BY <1>3, <1>6, <2>3, <3>1
  <2>5. \A t \in Positions(k) : e.pending[t] = Cardinality(Preds(l, t))
    BY <1>1, <1>4, <1>6, <2>2, Zenon DEF Wired
  <2>6. \A t \in Tasks \ Positions(l) : e.pending[t] = 0
    BY <1>1, <1>4, <1>6, Zenon DEF Wired, Nodes
  <2>7. QED BY <1>1, <2>1, <2>4, <2>5, <2>6, Zenon DEF Wired
<1>8. e.pending[Retire] = 1
  <2>1. Retire \in Nodes \ {n + 1} BY <1>0, Zenon DEF Nodes
  <2>2. QED BY <1>4, <1>6, <2>1, Zenon
<1>9. FirstLayer(l, e.root_tasks)
  <2>1. FirstLayer(k, e.root_tasks) BY <1>5, <1>6, Zenon DEF Recording
  <2>2. QED BY <2>1, FirstLayerStays, Zenon
<1>10. e.root_tasks = {} => e.open_barrier = 1 BY <1>5, <1>6
<1>11. Len(l) + 1 = n + 2 /\ n + 1 # NULL BY <1>0, <1>1 DEF Nodes
<1>12. QED BY <1>2, <1>6, <1>7, <1>8, <1>9, <1>10, <1>11, Zenon DEF Recording

-----------------------------------------------------------------------------
\* The retire command follows the last layer, and so all commands.
LEMMA RetireFollows ==
    ASSUME NEW k \in Kinds
    PROVE  /\ Preds(k, Retire) = Layer(k, Len(k) + 1) /\ Earlier(k, Retire) = Cmd(k)
           /\ Retire \notin Positions(k)
<1>1. /\ Len(k) \in Nat /\ Cmd(k) \subseteq 1 .. Len(k) /\ Bar(k) \subseteq 1 .. Len(k)
      /\ Len(k) <= MaxTasks
  BY PositionsAreTasks, Zenon DEF Positions, Kinds
<1>2. /\ Retire \notin Positions(k) /\ Retire \notin Cmd(k)
      /\ \A t \in 1 .. Len(k) : t < Retire /\ t < Len(k) + 1
  BY <1>1, MaxTasksAssumption DEF Retire, Positions
<1>3. Segment(k, Retire) = Segment(k, Len(k) + 1) BY <1>1, <1>2, Zenon DEF Segment
<1>4. LastBar(k, Retire) = LastBar(k, Len(k) + 1) BY <1>1, <1>2, Zenon DEF LastBar
<1>5. Earlier(k, Retire) = Cmd(k) BY <1>1, <1>2, Zenon DEF Earlier
<1>6. QED BY <1>2, <1>3, <1>4, <1>5, Zenon DEF Preds, Layer

\* The command buffer when its recording has ended.
Executable(c, k) ==
    LET last == IF c.leaf_tasks # {} THEN c.leaf_tasks ELSE c.root_tasks IN
    /\ c \in BufferType
    /\ Wired(c, k, Positions(k)) /\ c.pending[Retire] = 1
    /\ FirstLayer(k, c.root_tasks)
    /\ last = Preds(k, Retire) /\ \A u \in last : Succ(c, u) = {}
    /\ c.root_tasks = {} => Len(k) = 0

\* The end of a recording makes it executable.
LEMMA RecordingEnds ==
    ASSUME NEW k \in Kinds, NEW c \in BufferType, Recording(c, k)
    PROVE  Executable(EndOf(c), k)
<1> DEFINE f == Flush(c)  g == LeavesBecomeRoots(f)  last == Layer(k, Len(k) + 1)
<1>1. /\ f \in BufferType /\ f.leaf_tasks = last /\ f.root_tasks = c.root_tasks
      /\ Wired(f, k, Positions(k)) /\ f.pending[Retire] = 1
  BY FlushWires
<1>2. /\ last \subseteq Tasks /\ \A u \in last : \A t \in Positions(k) : u \notin Preds(k, t)
      /\ last = {} => Len(k) = 0
      /\ c.root_tasks = {} => FirstLayer(k, last)
  BY LastLayer, PositionsAreTasks, Zenon
<1>3. \A u \in last : Succ(f, u) = {} BY <1>1, <1>2, Zenon DEF Wired
<1>4. Preds(k, Retire) = last BY RetireFollows, Zenon
<1>5. c.root_tasks # {} => last # {}
  <2>1. FirstLayer(k, c.root_tasks) BY Zenon DEF Recording
  <2>2. Len(k) = 0 => Positions(k) = {} BY DEF Positions
  <2>3. QED BY <1>2, <2>1, <2>2, Zenon DEF FirstLayer
<1>6. FirstLayer(k, c.root_tasks) BY Zenon DEF Recording
<1> HIDE DEF f, last
<1>7. /\ g \in BufferType
      /\ g.root_tasks = IF c.root_tasks = {} THEN last ELSE c.root_tasks
      /\ g.leaf_tasks = IF c.root_tasks = {} THEN {} ELSE last
      /\ g.pending = f.pending /\ \A u \in Tasks : Succ(g, u) = Succ(f, u)
  BY <1>1, LeavesMove
<1> HIDE DEF g
<1>8. Wired(g, k, Positions(k)) BY <1>1, <1>7, Zenon DEF Wired
<1>9. (IF g.leaf_tasks # {} THEN g.leaf_tasks ELSE g.root_tasks) = last BY <1>5, <1>7, Zenon
<1>10. \A u \in last : Succ(g, u) = {} BY <1>2, <1>3, <1>7, Zenon
<1>11. FirstLayer(k, g.root_tasks) BY <1>2, <1>6, <1>7, Zenon
<1>12. Executable(g, k)
  BY <1>1, <1>2, <1>4, <1>7, <1>8, <1>9, <1>10, <1>11, Zenon DEF Executable
<1>13. QED BY <1>12, Zenon DEF g, f, EndOf

Targets(k) == Positions(k) \cup {Retire}

\* Task u was enqueued in its turn: what it follows has retired, or is the first
\* barrier, which the roots only formally follow.
InTurn(k, u, q, d) ==
    \/ Preds(k, u) # {} /\ Preds(k, u) \subseteq d
    \/ \A v \in Preds(k, u) : u # Retire /\ v \notin q \cup d /\ Preds(k, v) = {}

\* The command buffer while it runs, tasks q being enqueued and tasks d done.
Running(c, k, q, d) ==
    /\ c \in BufferType
    /\ \A u \in Tasks : Succ(c, u) = {t \in Targets(k) : u \in Preds(k, t)}
    /\ \A t \in Targets(k) : c.pending[t] = Cardinality(Preds(k, t) \ d)
    /\ q \subseteq Targets(k) /\ d \subseteq Targets(k) /\ q \cap d = {}
    /\ \A u \in q \cup d : InTurn(k, u, q, d) /\ Earlier(k, u) \subseteq d

\* The issue command retires: the retire command waits for one task less.
Started(j) == [j EXCEPT !.pending[Retire] = @ - 1, !.root_tasks = {}, !.leaf_tasks = {}]

\* What that changes.
LEMMA IssueCommandRetires ==
    ASSUME NEW j \in BufferType, NEW i, i = Started(j)
    PROVE  /\ i \in BufferType /\ i.pending[Retire] = j.pending[Retire] - 1
           /\ \A t \in Nodes \ {Retire} : i.pending[t] = j.pending[t]
           /\ \A u \in Tasks : Succ(i, u) = Succ(j, u)
<1>0. Retire \in Nodes BY Zenon DEF Nodes
<1>1. /\ i.pending = [j.pending EXCEPT ![Retire] = @ - 1]
      /\ i.completion = j.completion /\ i.dependents = j.dependents
  BY Zenon DEF BufferType, Started
<1>2. j.pending \in [Nodes -> Int] BY Zenon DEF BufferType
<1>3. /\ i.pending \in [Nodes -> Int] /\ i.pending[Retire] = j.pending[Retire] - 1
      /\ \A t \in Nodes \ {Retire} : i.pending[t] = j.pending[t]
  <2> DEFINE x == j.pending[Retire] - 1
  <2>1. x \in Int BY <1>0, <1>2
  <2>2. i.pending = [j.pending EXCEPT ![Retire] = x] BY <1>1, Zenon
  <2> HIDE DEF x
  <2>3. /\ i.pending \in [Nodes -> Int] /\ i.pending[Retire] = x
        /\ \A t \in Nodes \ {Retire} : i.pending[t] = j.pending[t]
    BY <1>0, <1>2, <2>1, <2>2
  <2>4. QED BY <2>3, Zenon DEF x
<1>4. i \in BufferType
  <2>1. i = [j EXCEPT !.pending = i.pending, !.root_tasks = {}, !.leaf_tasks = {}]
    BY DEF BufferType, Started
  <2>2. i.pending \in [Nodes -> Int] BY <1>3, Zenon
  <2>3. QED BY <2>1, <2>2, Zenon DEF BufferType
<1>5. QED BY <1>1, <1>3, <1>4, Zenon DEF Succ

\* Issuing starts the command buffer off: the retire command waits for the last
\* layer, or is enqueued at once if nothing was recorded.
LEMMA IssueStarts ==
    ASSUME NEW k \in Kinds, NEW c, Executable(c, k),
           NEW j, j = IF c.root_tasks = {} THEN c ELSE Issued(c),
           NEW i, i = [j EXCEPT !.pending[Retire] = @ - 1, !.root_tasks = {}, !.leaf_tasks = {}],
           NEW q, q = IF j.pending[Retire] = 1 THEN c.root_tasks \cup {Retire} ELSE c.root_tasks
    PROVE  Running(i, k, q, {})
<1> DEFINE last == Preds(k, Retire)
<1>0. /\ Positions(k) \subseteq Tasks /\ Retire \notin Tasks /\ Retire \in Nodes
      /\ Targets(k) \subseteq Nodes
  BY PositionsAreTasks, Zenon DEF Nodes, Targets
<1>1. /\ c \in BufferType /\ Wired(c, k, Positions(k)) /\ c.pending[Retire] = 1
      /\ FirstLayer(k, c.root_tasks) /\ \A u \in last : Succ(c, u) = {}
      /\ c.root_tasks = {} => Len(k) = 0
      /\ last = IF c.leaf_tasks # {} THEN c.leaf_tasks ELSE c.root_tasks
  BY Zenon DEF Executable
<1>2. last \subseteq Positions(k) /\ IsFiniteSet(last) BY <1>0, PredsType, Zenon
<1>3. Cardinality(last) \in Nat /\ (Cardinality(last) = 0 <=> last = {})
  BY <1>2, FS_CardinalityType, FS_EmptySet, Zenon
<1> HIDE DEF last
<1>4. /\ j \in BufferType
      /\ \A u \in Tasks : Succ(j, u) = {t \in Targets(k) : u \in Preds(k, t)}
      /\ \A t \in Positions(k) : j.pending[t] = Cardinality(Preds(k, t))
      /\ j.pending[Retire] = 1 + Cardinality(last)
      /\ last = {} <=> c.root_tasks = {}
  <2>1. CASE c.root_tasks = {}
    <3>1. j = c /\ Positions(k) = {} BY <1>1, <2>1 DEF Positions
    <3>2. last = {} BY <1>2, <3>1, Zenon
    <3>3. \A u \in Tasks : Succ(c, u) = {} BY <1>1, <3>1, Zenon DEF Wired
    <3>4. \A u \in Tasks : {t \in Targets(k) : u \in Preds(k, t)} = {}
      BY <3>1, <3>2 DEF Targets, last
    <3>5. QED BY <1>1, <1>3, <2>1, <3>1, <3>2, <3>3, <3>4
  <2>2. CASE c.root_tasks # {}
    <3>1. j = Join(c, last, Retire) BY <1>1, <2>2, Zenon DEF Issued
    <3>2. Joined(j, c, last, Retire) BY <1>0, <1>1, <1>2, <3>1, JoinLinks, Zenon
    <3>3. ASSUME NEW u \in Tasks
          PROVE  Succ(j, u) = {t \in Targets(k) : u \in Preds(k, t)}
      <4>1. Succ(c, u) = {t \in Positions(k) : u \in Preds(k, t)} BY <1>1, Zenon DEF Wired
      <4>2. CASE u \in last
        <5>1. Succ(j, u) = {Retire} /\ Succ(c, u) = {} BY <1>1, <3>2, <4>2, Zenon DEF Joined
        <5>2. QED BY <4>1, <4>2, <5>1, Zenon DEF Targets, last
      <4>3. CASE u \notin last
        <5>1. Succ(j, u) = Succ(c, u) BY <3>2, <4>3, Zenon DEF Joined
        <5>2. QED BY <4>1, <4>3, <5>1, Zenon DEF Targets, last
      <4>4. QED BY <4>2, <4>3, Zenon
    <3>4. \A t \in Positions(k) : j.pending[t] = Cardinality(Preds(k, t))
      <4>1. \A t \in Positions(k) : t \in Nodes \ {Retire} BY <1>0, Zenon DEF Nodes
      <4>2. QED BY <1>1, <3>2, <4>1, Zenon DEF Wired, Joined
    <3>5. last # {} BY <1>1, <2>2, Zenon
    <3>6. QED BY <1>1, <2>2, <3>2, <3>3, <3>4, <3>5, Zenon DEF Joined
  <2>3. QED BY <2>1, <2>2, Zenon
<1>5. /\ i \in BufferType /\ i.pending[Retire] = j.pending[Retire] - 1
      /\ \A t \in Nodes \ {Retire} : i.pending[t] = j.pending[t]
      /\ \A u \in Tasks : Succ(i, u) = Succ(j, u)
  <2>1. i = Started(j) BY Zenon DEF Started
  <2>2. j \in BufferType BY <1>4, Zenon
  <2>3. QED BY <2>1, <2>2, IssueCommandRetires, Zenon
<1>6. ASSUME NEW t \in Targets(k) PROVE i.pending[t] = Cardinality(Preds(k, t) \ {})
  <2>1. Preds(k, t) \ {} = Preds(k, t) OBVIOUS
  <2>2. CASE t = Retire
    <3>1. i.pending[Retire] = j.pending[Retire] - 1 BY <1>5, Zenon
    <3>2. j.pending[Retire] - 1 = Cardinality(last)
      <4> DEFINE x == Cardinality(last)
      <4>1. x \in Nat /\ j.pending[Retire] = 1 + x BY <1>3, <1>4, Zenon
      <4> HIDE DEF x
      <4>2. j.pending[Retire] - 1 = x BY <4>1
      <4>3. QED BY <4>2, Zenon DEF x
    <3>3. QED BY <2>1, <2>2, <3>1, <3>2, Zenon DEF last
  <2>3. CASE t # Retire
    <3>1. t \in Positions(k) /\ t \in Nodes BY <1>0, <2>3, Zenon DEF Targets
    <3>2. i.pending[t] = j.pending[t] BY <1>5, <2>3, <3>1, Zenon
    <3>3. QED BY <1>4, <2>1, <3>1, <3>2, Zenon
  <2>4. QED BY <2>2, <2>3, Zenon
<1>7. q = IF c.root_tasks = {} THEN {Retire} ELSE c.root_tasks
  <2> DEFINE x == Cardinality(last)
  <2>1. x \in Nat /\ j.pending[Retire] = 1 + x /\ (x = 0 <=> c.root_tasks = {})
    BY <1>3, <1>4, Zenon
  <2> HIDE DEF x
  <2>2. j.pending[Retire] = 1 <=> c.root_tasks = {} BY <2>1
  <2>3. QED BY <2>2, Zenon
<1>8. q \subseteq Targets(k) BY <1>1, <1>7, Zenon DEF FirstLayer, Targets
<1>9. ASSUME NEW u \in q PROVE InTurn(k, u, q, {}) /\ Earlier(k, u) \subseteq {}
  <2>1. CASE c.root_tasks = {}
    <3>1. u = Retire /\ last = {} /\ Positions(k) = {} BY <1>1, <1>4, <1>7, <2>1 DEF Positions
    <3>2. Earlier(k, u) = {} BY <3>1, Zenon DEF Earlier, Cmd
    <3>3. QED BY <3>1, <3>2, Zenon DEF InTurn, last
  <2>2. CASE c.root_tasks # {} BY <1>0, <1>1, <1>7, <2>2, Zenon DEF InTurn, FirstLayer
  <2>3. QED BY <2>1, <2>2, Zenon
<1>10. QED BY <1>4, <1>5, <1>6, <1>8, <1>9, Zenon DEF Running

\* What has to run before u has run once the tasks that u directly follows have,
\* each in its turn.
LEMMA EarlierDone ==
    ASSUME NEW k \in Kinds, NEW u \in Targets(k), NEW d,
           Preds(k, u) # {}, Preds(k, u) \subseteq d,
           \A v \in Preds(k, u) : Earlier(k, v) \subseteq d
    PROVE  Earlier(k, u) \subseteq d
<1>0. /\ Len(k) \in Nat /\ Cmd(k) \subseteq 1 .. Len(k) /\ Bar(k) \subseteq 1 .. Len(k)
      /\ Cmd(k) \cap Bar(k) = {} /\ Targets(k) \subseteq Int
  BY PositionsAreTasks, MaxTasksAssumption DEF Positions, Targets, Retire
<1> SUFFICES ASSUME NEW a \in Earlier(k, u) PROVE a \in d OBVIOUS
<1>1. ASSUME NEW L \in LastBar(k, u), LastBar(k, u) = Preds(k, u),
             NEW b \in Bar(k), a < b, b < u
      PROVE  a \in d
  <2>1. L \in Bar(k) /\ b <= L BY <1>1, Zenon DEF LastBar
  <2>2. a \in Cmd(k) BY Zenon DEF Earlier
  <2>3. a < L /\ L \notin Cmd(k) BY <1>0, <1>1, <2>1, <2>2
  <2>4. a \in Earlier(k, L) BY <2>2, <2>3, Zenon DEF Earlier
  <2>5. QED BY <1>1, <2>4, Zenon
<1>2. CASE u \in Cmd(k)
  <2>1. PICK b \in Bar(k) : a < b /\ b < u BY <1>2, Zenon DEF Earlier
  <2>2. LastBar(k, u) = Preds(k, u) BY <1>2, Zenon DEF Preds
  <2>3. PICK L : L \in LastBar(k, u) BY <2>2, Zenon
  <2>4. QED BY <1>1, <2>1, <2>2, <2>3, Zenon
<1>3. CASE u \notin Cmd(k)
  <2>1. a \in Cmd(k) /\ a < u BY <1>3, Zenon DEF Earlier
  <2>2. CASE a \in Segment(k, u) BY <1>3, <2>2, Zenon DEF Preds, Layer
  <2>3. CASE a \notin Segment(k, u)
    <3>1. PICK b \in Bar(k) : b < u /\ a < b BY <1>0, <2>1, <2>3 DEF Segment
    <3>2. CASE Segment(k, u) # {}
      <4>1. PICK s : s \in Segment(k, u) BY <3>2, Zenon
      <4>2. s \in Cmd(k) /\ b < s /\ s \in Preds(k, u)
        BY <1>3, <3>1, <3>2, <4>1, Zenon DEF Segment, Preds, Layer
      <4>3. a \in Earlier(k, s) BY <2>1, <3>1, <4>2, Zenon DEF Earlier
      <4>4. QED BY <4>2, <4>3, Zenon
    <3>3. CASE Segment(k, u) = {}
      <4>1. LastBar(k, u) = Preds(k, u) BY <1>3, <3>3, Zenon DEF Preds, Layer
      <4>2. PICK L : L \in LastBar(k, u) BY <4>1, Zenon
      <4>3. QED BY <1>1, <3>1, <4>1, <4>2, Zenon
    <3>4. QED BY <3>2, <3>3, Zenon
  <2>4. QED BY <2>2, <2>3, Zenon
<1>4. QED BY <1>2, <1>3, Zenon

\* One worker step: t runs, what follows it counts down, and what waited for
\* nothing else is enqueued.
Following(c, t) == IF t = Retire THEN {} ELSE Succ(c, t)
Counted(c, F) ==
    [c EXCEPT !.pending = [u \in Nodes |-> IF u \in F THEN @[u] - 1 ELSE @[u]]]
Enqueued(c, q, t, F) == (q \ {t}) \cup {u \in F : c.pending[u] = 1}

\* The step keeps everybody's turn.
LEMMA ExecuteKeeps ==
    ASSUME NEW k \in Kinds, NEW c, NEW q, NEW d, Running(c, k, q, d), NEW t \in q
    PROVE  Running(Counted(c, Following(c, t)), k, Enqueued(c, q, t, Following(c, t)), d \cup {t})
<1> DEFINE F == Following(c, t)  e == Counted(c, F)  p == Enqueued(c, q, t, F)
<1>f. F = IF t = Retire THEN {} ELSE Succ(c, t) BY Zenon DEF Following
<1> HIDE DEF F
<1>e. e = [c EXCEPT !.pending = [u \in Nodes |-> IF u \in F THEN @[u] - 1 ELSE @[u]]]
  BY Zenon DEF Counted
<1>p. p = (q \ {t}) \cup {u \in F : c.pending[u] = 1} BY Zenon DEF Enqueued
<1> HIDE DEF e, p
<1> USE <1>f, <1>e, <1>p
<1>0. /\ Positions(k) \subseteq Tasks /\ Retire \notin Tasks /\ Targets(k) \subseteq Nodes
      /\ Targets(k) \subseteq Tasks \cup {Retire}
      /\ \A u \in Targets(k) : /\ Preds(k, u) \subseteq Positions(k) /\ u \notin Preds(k, u)
                               /\ IsFiniteSet(Preds(k, u))
  <2>1. /\ Positions(k) \subseteq Tasks /\ Retire \notin Tasks /\ Targets(k) \subseteq Nodes
        /\ Targets(k) \subseteq Tasks \cup {Retire} /\ Nodes \subseteq Int
    BY PositionsAreTasks, MaxTasksAssumption DEF Nodes, Targets, Tasks, Retire
  <2>2. ASSUME NEW u \in Targets(k)
        PROVE  /\ Preds(k, u) \subseteq Positions(k) /\ u \notin Preds(k, u)
               /\ IsFiniteSet(Preds(k, u))
    <3>1. u \in Nodes BY <2>1, Zenon
    <3>2. Preds(k, u) \subseteq Positions(k) /\ IsFiniteSet(Preds(k, u))
      BY <3>1, PredsType, Zenon
    <3>3. \A v \in Preds(k, u) : v < u BY <3>1, PredsType, Zenon
    <3>4. QED BY <2>1, <3>1, <3>2, <3>3
  <2>3. QED BY <2>1, <2>2, Zenon
<1>1. /\ c \in BufferType /\ q \subseteq Targets(k) /\ d \subseteq Targets(k)
      /\ q \cap d = {} /\ t \in Targets(k) /\ t \notin d
      /\ \A u \in q \cup d : InTurn(k, u, q, d) /\ Earlier(k, u) \subseteq d
      /\ \A u \in Targets(k) : c.pending[u] = Cardinality(Preds(k, u) \ d)
  BY Zenon DEF Running
<1>2. F = {u \in Targets(k) : t \in Preds(k, u)}
  <2>1. CASE t = Retire BY <1>0, <2>1, Zenon
  <2>2. CASE t # Retire
    <3>1. t \in Tasks BY <1>0, <1>1, <2>2, Zenon
    <3>2. QED BY <2>2, <3>1, Zenon DEF Running
  <2>3. QED BY <2>1, <2>2, Zenon
<1>3. /\ e \in BufferType
      /\ e.pending = [u \in Nodes |-> IF u \in F THEN c.pending[u] - 1 ELSE c.pending[u]]
      /\ \A u \in Tasks : Succ(e, u) = Succ(c, u)
  <2>1. /\ e.pending = [u \in Nodes |-> IF u \in F THEN c.pending[u] - 1 ELSE c.pending[u]]
        /\ e.completion = c.completion /\ e.dependents = c.dependents
    BY <1>1, Zenon DEF BufferType
  <2>2. e.pending \in [Nodes -> Int] BY <1>1, <2>1 DEF BufferType
  <2>3. e \in BufferType BY <1>1, <2>2, Zenon DEF BufferType
  <2>4. QED BY <2>1, <2>3, Zenon DEF Succ
<1>4. ASSUME NEW u \in Targets(k)
      PROVE  e.pending[u] = Cardinality(Preds(k, u) \ (d \cup {t}))
  <2> DEFINE R == Preds(k, u) \ d
  <2>1. IsFiniteSet(R)
    <3>1. IsFiniteSet(Preds(k, u)) /\ R \subseteq Preds(k, u) BY <1>0, Zenon
    <3>2. QED BY <3>1, FS_Subset, Zenon
  <2>2. u \in Nodes /\ c.pending[u] = Cardinality(R) BY <1>0, <1>1, Zenon
  <2>3. Preds(k, u) \ (d \cup {t}) = R \ {t} OBVIOUS
  <2>4. CASE u \in F
    <3>1. t \in R BY <1>1, <1>2, <2>4, Zenon
    <3>2. Cardinality(R \ {t}) = Cardinality(R) - 1
      <4> HIDE DEF R
      <4>1. QED BY <2>1, <3>1, FS_RemoveElement, Zenon
    <3>3. e.pending[u] = c.pending[u] - 1 BY <1>3, <2>2, <2>4, Zenon
    <3> HIDE DEF R
    <3>4. QED BY <2>2, <2>3, <3>2, <3>3, Zenon
  <2>5. CASE u \notin F
    <3>1. R \ {t} = R BY <1>2, <2>5, Zenon
    <3>2. e.pending[u] = c.pending[u] BY <1>3, <2>2, <2>5, Zenon
    <3> HIDE DEF R
    <3>3. QED BY <2>2, <2>3, <3>1, <3>2, Zenon
  <2>6. QED BY <2>4, <2>5, Zenon
<1>5. ASSUME NEW u \in F, c.pending[u] = 1
      PROVE  /\ u \in Targets(k) /\ u \notin d \cup {t}
             /\ Preds(k, u) # {} /\ Preds(k, u) \subseteq d \cup {t}
             /\ Earlier(k, u) \subseteq d \cup {t}
  <2> DEFINE R == Preds(k, u) \ d
  <2>1. u \in Targets(k) /\ t \in Preds(k, u) /\ t \in R BY <1>1, <1>2, Zenon
  <2>2. IsFiniteSet(R)
    <3>1. IsFiniteSet(Preds(k, u)) /\ R \subseteq Preds(k, u) BY <1>0, <2>1
    <3>2. QED BY <3>1, FS_Subset, Zenon
  <2>3. Cardinality(R) = 1 BY <1>1, <1>5, <2>1, Zenon
  <2>4. R = {t}
    <3> HIDE DEF R
    <3>1. PICK x : R = {x} BY <2>2, <2>3, FS_Singleton, Zenon
    <3>2. QED BY <2>1, <3>1, Zenon
  <2>5. Preds(k, u) # {} /\ Preds(k, u) \subseteq d \cup {t} BY <2>1, <2>4, Zenon
  <2>6. u \notin d \cup {t}
    <3>1. u # t BY <1>0, <2>1, Zenon
    <3>2. u \in d => InTurn(k, u, q, d) BY <1>1, Zenon
    <3>3. QED BY <1>1, <2>1, <3>1, <3>2, Zenon DEF InTurn
  <2>7. \A v \in Preds(k, u) : Earlier(k, v) \subseteq d \cup {t} BY <1>1, <2>5, Zenon
  <2>8. Earlier(k, u) \subseteq d \cup {t} BY <2>1, <2>5, <2>7, EarlierDone, Zenon
  <2>9. QED BY <2>1, <2>5, <2>6, <2>8
<1>6. /\ p \subseteq Targets(k) /\ d \cup {t} \subseteq Targets(k)
      /\ p \cap (d \cup {t}) = {}
  BY <1>1, <1>5, Zenon
<1>7. ASSUME NEW u \in p \cup (d \cup {t})
      PROVE  /\ InTurn(k, u, p, d \cup {t}) /\ Earlier(k, u) \subseteq d \cup {t}
  <2>1. CASE u \in F /\ c.pending[u] = 1 BY <1>5, <2>1, Zenon DEF InTurn
  <2>2. CASE ~(u \in F /\ c.pending[u] = 1)
    <3>1. u \in q \cup d BY <2>2, Zenon
    <3>2. InTurn(k, u, q, d) /\ Earlier(k, u) \subseteq d BY <1>1, <3>1, Zenon
    <3>3. CASE Preds(k, u) # {} /\ Preds(k, u) \subseteq d BY <3>2, <3>3, Zenon DEF InTurn
    <3>4. CASE \A v \in Preds(k, u) : u # Retire /\ v \notin q \cup d /\ Preds(k, v) = {}
      <4>1. ASSUME NEW v \in Preds(k, u) PROVE v \notin p \cup (d \cup {t})
        <5>1. v \notin q \cup d /\ Preds(k, v) = {} BY <3>4, Zenon
        <5>2. v \notin F BY <1>2, <5>1, Zenon
        <5>3. QED BY <5>1, <5>2
      <4>2. QED BY <3>2, <3>4, <4>1, Zenon DEF InTurn
    <3>5. QED BY <3>2, <3>3, <3>4, Zenon DEF InTurn
  <2>3. QED BY <2>1, <2>2, Zenon
<1>8. \A u \in Tasks : Succ(e, u) = {v \in Targets(k) : u \in Preds(k, v)}
  BY <1>3, Zenon DEF Running
<1>9. Running(e, k, p, d \cup {t}) BY <1>3, <1>4, <1>6, <1>7, <1>8, Zenon DEF Running
<1>10. QED BY <1>9, Zenon DEF e, p, F

-----------------------------------------------------------------------------
\* What has been enqueued and has not retired.
Unretired == queue \cup (ran \ done)

\* The inductive invariant.  A recording that failed, or whose tasks are being
\* discarded, is never issued: nothing is claimed of its graph.  A task that has
\* run and not retired has changed nothing that others wait for: in the graph it
\* is still enqueued.
IInv ==
    /\ kind \in Kinds
    /\ phase = "recording" => cb \in BufferType /\ Recording(cb, kind)
    /\ phase = "executable" => Executable(cb, kind)
    /\ phase = "issued" => Running(cb, kind, Unretired, done) /\ done \subseteq ran
    /\ phase # "issued" => queue = {} /\ ran = {} /\ done = {}

\* An empty recording is one.
LEMMA EmptyRecording == <<>> \in Kinds /\ Empty \in BufferType /\ Recording(Empty, <<>>)
<1>1. <<>> \in Kinds /\ Len(<<>>) = 0 BY MaxTasksAssumption DEF Kinds
<1>2. Positions(<<>>) = {} BY <1>1 DEF Positions
<1>3. Cmd(<<>>) = {} /\ Bar(<<>>) = {} BY <1>2, Zenon DEF Cmd, Bar
<1>4. /\ Empty.root_tasks = {} /\ Empty.leaf_tasks = {} /\ Empty.open_barrier = NULL
      /\ Empty.open_tasks = {} /\ Empty.completion = [t \in Tasks |-> NULL]
      /\ Empty.dependents = [t \in Tasks |-> {}]
      /\ Empty.pending = [t \in Nodes |-> IF t = Retire THEN 1 ELSE 0]
  BY Zenon DEF Empty
<1>5. Empty \in BufferType
  <2>1. [t \in Tasks |-> NULL] \in [Tasks -> Nodes \cup {NULL}] OBVIOUS
  <2>2. [t \in Nodes |-> IF t = Retire THEN 1 ELSE 0] \in [Nodes -> Int] OBVIOUS
  <2>3. QED BY <2>1, <2>2, Zenon DEF Empty, BufferType
<1>6. \A u \in Tasks : Succ(Empty, u) = {} BY <1>4, Zenon DEF Succ
<1>7. \A t \in Tasks : Empty.pending[t] = 0 /\ Empty.pending[Retire] = 1
  BY <1>1, <1>4, PositionsAreTasks, Zenon DEF Nodes
<1>8. Empty.pending[Retire] = 1 BY <1>4, Zenon DEF Nodes
<1>9. Wired(Empty, <<>>, {}) BY <1>6, <1>7, Zenon DEF Wired
<1>10. Segment(<<>>, Len(<<>>) + 1) = {} BY <1>3, Zenon DEF Segment
<1>11. FirstLayer(<<>>, {}) BY Zenon DEF FirstLayer
<1>12. QED BY <1>1, <1>2, <1>3, <1>4, <1>5, <1>8, <1>9, <1>10, <1>11, Zenon DEF Recording

\* A task that retires goes from the unretired tasks, and what it was the last to
\* wait for joins them.
LEMMA StepRetires ==
    ASSUME NEW t \in Nodes, Execute(t), Retires(t)
    PROVE  /\ cb' = Counted(cb, Following(cb, t)) /\ done' = done \cup {t}
           /\ Unretired' = Enqueued(cb, Unretired, t, Following(cb, t))
<1>1. Followers(t) = Following(cb, t) BY Zenon DEF Followers, Following, Succ
<1>2. /\ cb' = Counted(cb, Following(cb, t)) /\ done' = done \cup {t}
      /\ queue' = Enqueued(cb, queue, t, Following(cb, t)) /\ ran' = ran \cup {t}
  BY <1>1, Zenon DEF Execute, Counted, Enqueued
<1>3. QED BY <1>2, Zenon DEF Unretired, Enqueued

\* A task that runs and does not retire leaves the graph as it was.
LEMMA StepStays ==
    ASSUME NEW t \in Nodes, Execute(t), ~Retires(t), Running(cb, kind, Unretired, done)
    PROVE  cb' = cb /\ done' = done /\ Unretired' = Unretired
<1>1. /\ cb' = cb /\ done' = done /\ t \in queue
      /\ queue' = queue \ {t} /\ ran' = ran \cup {t}
  BY Zenon DEF Execute
<1>2. t \notin done BY <1>1, Zenon DEF Running, Unretired
<1>3. QED BY <1>1, <1>2 DEF Unretired

\* Every step keeps the inductive invariant.
LEMMA IInvStep == IInv /\ [Next]_vars => IInv'
<1> SUFFICES ASSUME IInv, [Next]_vars PROVE IInv' OBVIOUS
<1>1. CASE RecordCommand
  <2>1. /\ kind \in Kinds /\ cb \in BufferType /\ Recording(cb, kind) /\ Len(kind) < MaxTasks
        /\ queue' = {} /\ ran' = {} /\ done' = {} /\ phase' = "recording"
    BY <1>1, Zenon DEF IInv, RecordCommand, execution
  <2>2. PICK x \in {"command", "empty"} :
            kind' = Append(kind, x) /\ cb' = ExecutionTask(cb, Len(kind) + 1)
    BY <1>1, Zenon DEF RecordCommand
  <2>3. cb' \in BufferType /\ Recording(cb', kind')
    BY <2>1, <2>2, CommandRecorded, Zenon
  <2>4. kind' \in Kinds
    <3>1. x \in {"command", "empty", "barrier"} OBVIOUS
    <3>2. QED BY <2>1, <2>2, <3>1, AppendKeeps, Zenon
  <2>5. QED BY <2>1, <2>3, <2>4, Zenon DEF IInv
<1>2. CASE RecordBarrier
  <2>1. /\ kind \in Kinds /\ cb \in BufferType /\ Recording(cb, kind) /\ Len(kind) < MaxTasks
        /\ queue' = {} /\ ran' = {} /\ done' = {} /\ phase' = "recording"
    BY <1>2, Zenon DEF IInv, RecordBarrier, execution
  <2>2. cb' \in BufferType /\ Recording(cb', kind')
    BY <1>2, <2>1, BarrierRecorded, Zenon DEF RecordBarrier
  <2>3. kind' \in Kinds BY <1>2, <2>1, AppendKeeps, Zenon DEF RecordBarrier
  <2>4. QED BY <2>1, <2>2, <2>3, Zenon DEF IInv
<1>3. CASE RecordFails BY <1>3, Zenon DEF IInv, RecordFails, execution
<1>4. CASE End
  <2>1. /\ kind \in Kinds /\ cb \in BufferType /\ Recording(cb, kind) /\ kind' = kind
        /\ queue' = {} /\ ran' = {} /\ done' = {} /\ phase' = "executable" /\ cb' = EndOf(cb)
    BY <1>4, Zenon DEF IInv, End, execution
  <2>2. Executable(cb', kind') BY <2>1, RecordingEnds, Zenon
  <2>3. QED BY <2>1, <2>2 DEF IInv
<1>5. CASE Issue
  <2>1. /\ kind \in Kinds /\ Executable(cb, kind) /\ kind' = kind
        /\ ran' = {} /\ done' = {} /\ phase' = "issued"
    BY <1>5, Zenon DEF IInv, Issue
  <2> DEFINE j == IF cb.root_tasks = {} THEN cb ELSE Issued(cb)
  <2>2. /\ cb' = [j EXCEPT !.pending[Retire] = @ - 1, !.root_tasks = {}, !.leaf_tasks = {}]
        /\ queue' = IF j.pending[Retire] = 1 THEN cb.root_tasks \cup {Retire}
                                             ELSE cb.root_tasks
    BY <1>5, Zenon DEF Issue
  <2>3. j = IF cb.root_tasks = {} THEN cb ELSE Issued(cb) OBVIOUS
  <2> HIDE DEF j
  <2>4. Running(cb', kind, queue', {}) BY <2>1, <2>2, <2>3, IssueStarts, Zenon
  <2>5. Unretired' = queue' BY <2>1, Zenon DEF Unretired
  <2>6. QED BY <2>1, <2>4, <2>5, Zenon DEF IInv
<1>6. ASSUME NEW t \in Nodes, Execute(t) PROVE IInv'
  <2>1. /\ kind \in Kinds /\ Running(cb, kind, Unretired, done) /\ kind' = kind
        /\ t \in Unretired /\ phase' = "issued" /\ done \subseteq ran /\ ran' = ran \cup {t}
    BY <1>6, Zenon DEF IInv, Execute, Unretired
  <2>2. CASE Retires(t)
    <3>1. /\ cb' = Counted(cb, Following(cb, t)) /\ done' = done \cup {t}
          /\ Unretired' = Enqueued(cb, Unretired, t, Following(cb, t))
      BY <1>6, <2>2, StepRetires, Zenon
    <3>2. Running(cb', kind, Unretired', done \cup {t}) BY <2>1, <3>1, ExecuteKeeps, Zenon
    <3>3. QED BY <2>1, <3>1, <3>2, Zenon DEF IInv
  <2>3. CASE ~Retires(t)
    <3>1. cb' = cb /\ done' = done /\ Unretired' = Unretired
      BY <1>6, <2>1, <2>3, StepStays, Zenon
    <3>2. QED BY <2>1, <3>1, Zenon DEF IInv
  <2>4. QED BY <2>2, <2>3, Zenon
<1>7. CASE Reset BY <1>7, Zenon DEF IInv, Reset, execution
<1>8. CASE DiscardOne BY <1>8, Zenon DEF IInv, DiscardOne, execution
<1>9. CASE DiscardRoots BY <1>9, Zenon DEF IInv, DiscardRoots, execution
<1>10. CASE Discarded BY <1>10, EmptyRecording, Zenon DEF IInv, Discarded, execution
<1>11. CASE UNCHANGED vars BY <1>11, Zenon DEF IInv, Unretired, vars
<1>12. QED
  BY <1>1, <1>2, <1>3, <1>4, <1>5, <1>6, <1>7, <1>8, <1>9, <1>10, <1>11 DEF Next

\* For recordings of any length: a command starts to run after all commands on the
\* other side of a barrier before it have retired, and the retire command is
\* enqueued after every command has.
THEOREM BarriersRespectedHolds == Spec => []BarriersRespected
<1>1. Init => IInv BY EmptyRecording, Zenon DEF Init, IInv
<1>2. IInv => BarriersRespected
  <2> SUFFICES ASSUME IInv PROVE BarriersRespected OBVIOUS
  <2>1. Commands = Cmd(kind) /\ Barriers = Bar(kind)
    BY Zenon DEF Commands, Barriers, Recorded, Cmd, Bar, Positions
  <2>2. CASE phase # "issued" BY <2>2, Zenon DEF IInv, BarriersRespected
  <2>3. CASE phase = "issued"
    <3>1. kind \in Kinds /\ \A u \in queue \cup ran : Earlier(kind, u) \subseteq done
      BY <2>3, Zenon DEF IInv, Running, Unretired
    <3>2. \A c \in Commands : Before(c) = Earlier(kind, c) BY <2>1, Zenon DEF Before, Earlier
    <3>3. Earlier(kind, Retire) = Cmd(kind) BY <3>1, RetireFollows, Zenon
    <3>4. QED BY <2>1, <3>1, <3>2, <3>3, Zenon DEF BarriersRespected
  <2>4. QED BY <2>2, <2>3, Zenon
<1>3. QED BY <1>1, <1>2, IInvStep, PTL DEF Spec

-----------------------------------------------------------------------------
\* Whatever has to wait for nothing is a root, except a barrier that was recorded
\* first, which only roots follow; and what is recorded next follows another one.
Rooted(k, S) ==
    /\ \A u \in Positions(k) \ S : Preds(k, u) = {} =>
          u \in Bar(k) /\ \A v \in Positions(k) : u \in Preds(k, v) => v \in S
    /\ LastBar(k, Len(k) + 1) # {}
    /\ \A b \in LastBar(k, Len(k) + 1) : Preds(k, b) # {}

\* A task that is neither enqueued nor done waits for one that is not done, or is
\* a first barrier that only enqueued and finished tasks follow.
Waiting(k, q, d) ==
    \A u \in Targets(k) \ (q \cup d) :
        \/ Preds(k, u) \ d # {}
        \/ /\ Preds(k, u) = {} /\ u \in Bar(k)
           /\ \A v \in Targets(k) : u \in Preds(k, v) => v \in q \cup d

\* While there are no roots, the last layer is everything recorded but perhaps a
\* barrier that was recorded first.
LEMMA OnlyLayer ==
    ASSUME NEW k \in Kinds, NEW c \in BufferType, Recording(c, k), c.root_tasks = {},
           NEW last, last = Layer(k, Len(k) + 1)
    PROVE  \A u \in Positions(k) \ last :
              /\ Preds(k, u) = {} /\ u \in Bar(k)
              /\ \A v \in Positions(k) : u \in Preds(k, v) => v \in last
<1> DEFINE n == Len(k)
<1>0. /\ n \in Nat /\ Positions(k) = 1 .. n /\ Positions(k) = Cmd(k) \cup Bar(k)
      /\ Cmd(k) \cap Bar(k) = {} /\ Positions(k) \subseteq Nodes
  BY PositionsAreTasks, Zenon DEF Positions, Nodes
<1>1. Bar(k) \subseteq {1}
  <2>1. CASE c.open_barrier = NULL BY <2>1, Zenon DEF Recording
  <2>2. CASE c.open_barrier # NULL
    <3>0. c.open_barrier = 1 BY <2>2, Zenon DEF Recording
    <3>1. LastBar(k, n + 1) = {1} BY <2>2, <3>0, Zenon DEF Recording
    <3>2. \A d \in Bar(k) : d <= 1
      <4>1. 1 \in LastBar(k, n + 1) BY <3>1, Zenon
      <4>2. \A d \in Bar(k) : d < n + 1 => d <= 1 BY <4>1, Zenon DEF LastBar
      <4>3. \A d \in Bar(k) : d < n + 1 BY <1>0
      <4>4. QED BY <4>2, <4>3, Zenon
    <3>3. QED BY <1>0, <3>2
  <2>3. QED BY <2>1, <2>2, Zenon
<1>2. Segment(k, n + 1) = Cmd(k)
  <2>1. \A u \in Cmd(k) : u < n + 1 /\ \A b \in Bar(k) : b < u BY <1>0, <1>1
  <2>2. QED BY <2>1, Zenon DEF Segment
<1>3. CASE Cmd(k) = {}
  <2>1. \A u \in Positions(k) : u = 1 /\ u \in Bar(k) BY <1>0, <1>1, <1>3, Zenon
  <2>2. \A u \in Positions(k) : u \in LastBar(k, n + 1) BY <1>0, <1>1, <2>1 DEF LastBar
  <2>3. last = LastBar(k, n + 1) BY <1>2, <1>3, Zenon DEF Layer
  <2>4. QED BY <2>2, <2>3, Zenon
<1>4. CASE Cmd(k) # {}
  <2>1. last = Cmd(k) BY <1>2, <1>4, Zenon DEF Layer
  <2>2. SUFFICES ASSUME NEW u \in Positions(k) \ last
                 PROVE  /\ Preds(k, u) = {} /\ u \in Bar(k)
                        /\ \A v \in Positions(k) : u \in Preds(k, v) => v \in last
    OBVIOUS
  <2>3. u \in Bar(k) /\ u = 1 BY <1>0, <1>1, <2>1, <2>2, Zenon
  <2>4. \A v \in Preds(k, u) : v < u /\ v \in 1 .. n BY <1>0, <2>2, PredsType, Zenon
  <2>5. Preds(k, u) = {} BY <1>0, <2>3, <2>4
  <2>6. ASSUME NEW v \in Positions(k), u \in Preds(k, v) PROVE v \in last
    <3>1. u < v BY <1>0, <2>6, PredsType, Zenon
    <3>2. v \notin Bar(k) BY <1>0, <1>1, <2>3, <3>1
    <3>3. QED BY <1>0, <2>1, <3>2, Zenon
  <2>7. QED BY <2>3, <2>5, <2>6, Zenon
<1>5. QED BY <1>3, <1>4, Zenon

\* What is recorded next follows something, unless it is in the first layer, and
\* does not follow a first barrier that is not a root.
LEMMA NextFollows ==
    ASSUME NEW k \in Kinds, NEW S, Rooted(k, S)
    PROVE  /\ LastBar(k, Len(k) + 1) # {} /\ Layer(k, Len(k) + 1) # {}
           /\ \A u \in Positions(k) \ S : Preds(k, u) = {} =>
                 u \notin LastBar(k, Len(k) + 1) /\ u \notin Layer(k, Len(k) + 1)
<1>1. LastBar(k, Len(k) + 1) # {} BY Zenon DEF Rooted
<1>2. Layer(k, Len(k) + 1) # {} BY <1>1, Zenon DEF Layer
<1>3. ASSUME NEW u \in Positions(k) \ S, Preds(k, u) = {}
      PROVE  u \notin LastBar(k, Len(k) + 1) /\ u \notin Layer(k, Len(k) + 1)
  <2>1. u \in Bar(k) /\ u \notin LastBar(k, Len(k) + 1) BY <1>3, Zenon DEF Rooted
  <2>2. u \notin Segment(k, Len(k) + 1) BY <2>1, PositionsAreTasks, Zenon DEF Segment
  <2>3. QED BY <2>1, <2>2, Zenon DEF Layer
<1>4. QED BY <1>1, <1>2, <1>3, Zenon

\* Recording a command keeps the roots complete.
LEMMA CommandRooted ==
    ASSUME NEW k \in Kinds, Len(k) < MaxTasks, NEW x \in {"command", "empty"},
           NEW l, l = Append(k, x), NEW S, Rooted(k, S)
    PROVE  Rooted(l, S)
<1> DEFINE n == Len(k)
<1>0. /\ n \in Nat /\ Positions(k) = 1 .. n /\ Bar(k) \subseteq 1 .. n /\ Cmd(k) \subseteq 1 .. n
      /\ Positions(k) \subseteq Nodes
  BY PositionsAreTasks, Zenon DEF Positions, Nodes
<1>1. /\ l \in Kinds /\ Len(l) = n + 1 /\ Positions(l) = Positions(k) \cup {n + 1}
      /\ Cmd(l) = Cmd(k) \cup {n + 1} /\ Bar(l) = Bar(k)
      /\ \A t \in 1 .. n + 1 : LastBar(l, t) = LastBar(k, t)
      /\ \A t \in Positions(k) : Preds(l, t) = Preds(k, t)
  <2>1. x \in {"command", "empty", "barrier"} /\ x # "barrier" OBVIOUS
  <2>2. QED BY <2>1, AppendKeeps, Zenon
<1>2. LastBar(l, n + 2) = LastBar(k, n + 1) /\ Preds(l, n + 1) = LastBar(k, n + 1)
  BY <1>0, <1>1 DEF LastBar, Preds
<1>3. ASSUME NEW u \in Positions(l) \ S, Preds(l, u) = {}
      PROVE  u \in Bar(l) /\ \A v \in Positions(l) : u \in Preds(l, v) => v \in S
  <2>1. u # n + 1 BY <1>2, <1>3, NextFollows, Zenon
  <2>2. u \in Positions(k) \ S /\ Preds(k, u) = {} BY <1>1, <1>3, <2>1, Zenon
  <2>3. u \in Bar(k) /\ \A v \in Positions(k) : u \in Preds(k, v) => v \in S
    BY <2>2 DEF Rooted
  <2>4. u \notin Preds(l, n + 1) BY <1>2, <2>2, NextFollows, Zenon
  <2>5. QED BY <1>1, <2>3, <2>4, Zenon
<1>4. \A b \in LastBar(l, n + 2) : Preds(l, b) # {}
  <2>1. ASSUME NEW b \in LastBar(k, n + 1) PROVE Preds(l, b) # {}
    <3>1. Preds(k, b) # {} /\ b \in Positions(k) BY <1>0, <2>1, Zenon DEF Rooted, LastBar
    <3>2. QED BY <1>1, <3>1, Zenon
  <2>2. QED BY <1>2, <2>1, Zenon
<1>5. LastBar(l, n + 2) # {} BY <1>2 DEF Rooted
<1>6. Len(l) + 1 = n + 2 BY <1>0, <1>1
<1>7. QED BY <1>3, <1>4, <1>5, <1>6, Zenon DEF Rooted

\* Recording a barrier completes the roots, or keeps them complete.
LEMMA BarrierRooted ==
    ASSUME NEW k \in Kinds, NEW c \in BufferType, Recording(c, k), Len(k) < MaxTasks,
           c.root_tasks = {} \/ Rooted(k, c.root_tasks),
           NEW l, l = Append(k, "barrier"), NEW e, e = GlobalBarrier(c, Len(k) + 1)
    PROVE  e.root_tasks = {} \/ Rooted(l, e.root_tasks)
<1> DEFINE n == Len(k)  last == Layer(k, n + 1)
<1>0. /\ n \in Nat /\ Positions(k) = 1 .. n /\ n + 1 \in Tasks /\ Bar(k) \subseteq 1 .. n
      /\ Cmd(k) \subseteq 1 .. n /\ Positions(k) \subseteq Nodes
  BY PositionsAreTasks, MaxTasksAssumption DEF Positions, Nodes, Tasks
<1>1. /\ l \in Kinds /\ Len(l) = n + 1 /\ Positions(l) = Positions(k) \cup {n + 1}
      /\ Cmd(l) = Cmd(k) /\ Bar(l) = Bar(k) \cup {n + 1}
      /\ Segment(l, n + 1) = Segment(k, n + 1) /\ LastBar(l, n + 1) = LastBar(k, n + 1)
      /\ \A t \in Positions(k) : Preds(l, t) = Preds(k, t)
  <2>1. "barrier" \in {"command", "empty", "barrier"} OBVIOUS
  <2>2. n + 1 \in 1 .. n + 1 BY <1>0
  <2>3. QED BY <2>1, <2>2, AppendKeeps, Zenon
<1>2. LastBar(l, n + 2) = {n + 1}
  <2>1. n + 1 \in Bar(l) /\ n + 1 < n + 2 BY <1>0, <1>1
  <2>2. \A b \in Bar(l) : b <= n + 1 BY <1>0, <1>1
  <2>3. \A b \in Bar(l) : n + 1 <= b => b = n + 1 BY <1>0, <1>1
  <2>4. QED BY <2>1, <2>2, <2>3, Zenon DEF LastBar
<1>3. Preds(l, n + 1) = last BY <1>0, <1>1 DEF Preds, Layer
<1>4. e.root_tasks = IF c.root_tasks = {} THEN last ELSE c.root_tasks
  <2>1. Barred(e, c, n + 1, last) BY <1>0, BarrierJoins, Zenon
  <2>2. QED BY <2>1, Zenon DEF Barred
<1>5. ASSUME NEW S, last # {},
             \A u \in Positions(k) \ S : Preds(k, u) = {} =>
                /\ u \in Bar(k) /\ \A v \in Positions(k) : u \in Preds(k, v) => v \in S
                /\ u \notin last
      PROVE  Rooted(l, S)
  <2> HIDE DEF last
  <2>1. ASSUME NEW u \in Positions(l) \ S, Preds(l, u) = {}
        PROVE  u \in Bar(l) /\ \A v \in Positions(l) : u \in Preds(l, v) => v \in S
    <3>1. u # n + 1 BY <1>3, <1>5, <2>1, Zenon
    <3>2. u \in Positions(k) \ S /\ Preds(k, u) = {} BY <1>1, <2>1, <3>1, Zenon
    <3>3. QED BY <1>1, <1>3, <1>5, <3>2, Zenon
  <2>2. Len(l) + 1 = n + 2 BY <1>0, <1>1
  <2>3. QED BY <1>2, <1>3, <1>5, <2>1, <2>2, Zenon DEF Rooted
<1>6. CASE c.root_tasks = {} /\ last # {} BY <1>4, <1>5, <1>6, OnlyLayer
<1>7. CASE c.root_tasks = {} /\ last = {} BY <1>4, <1>7, Zenon
<1>8. CASE c.root_tasks # {}
  <2>1. Rooted(k, c.root_tasks) BY <1>8, Zenon
  <2>2. last # {} /\ \A u \in Positions(k) \ c.root_tasks : Preds(k, u) = {} => u \notin last
    BY <2>1, NextFollows, Zenon
  <2>3. Rooted(l, c.root_tasks) BY <1>5, <2>1, <2>2, Zenon DEF Rooted
  <2>4. QED BY <1>4, <1>8, <2>3, Zenon
<1>9. QED BY <1>6, <1>7, <1>8, Zenon

\* When the recording ends, everything but the roots waits for something.
LEMMA EndWaits ==
    ASSUME NEW k \in Kinds, NEW c \in BufferType, Recording(c, k),
           c.root_tasks = {} \/ Rooted(k, c.root_tasks),
           NEW e, e = EndOf(c), e.root_tasks # {}
    PROVE  Waiting(k, e.root_tasks, {})
<1> DEFINE n == Len(k)  last == Layer(k, n + 1)
<1>1. e.root_tasks = IF c.root_tasks = {} THEN last ELSE c.root_tasks
  <2>1. /\ Flush(c) \in BufferType /\ Flush(c).leaf_tasks = last
        /\ Flush(c).root_tasks = c.root_tasks
    BY FlushWires
  <2>2. QED BY <2>1, LeavesMove, Zenon DEF EndOf
<1>2. Preds(k, Retire) = last BY RetireFollows, Zenon
<1>3. ASSUME NEW S, last # {},
             \A u \in Positions(k) \ S : Preds(k, u) = {} =>
                /\ u \in Bar(k) /\ \A v \in Positions(k) : u \in Preds(k, v) => v \in S
                /\ u \notin last
      PROVE  Waiting(k, S, {})
  <2> HIDE DEF last
  <2>1. SUFFICES ASSUME NEW u \in Targets(k) \ S, Preds(k, u) = {}
                 PROVE  u \in Bar(k) /\ \A v \in Targets(k) : u \in Preds(k, v) => v \in S
    BY Zenon DEF Waiting
  <2>2. u \in Positions(k) \ S BY <1>2, <1>3, <2>1, Zenon DEF Targets
  <2>3. QED BY <1>2, <1>3, <2>1, <2>2, Zenon DEF Targets
<1>4. CASE c.root_tasks = {} BY <1>1, <1>3, <1>4, OnlyLayer, Zenon
<1>5. CASE c.root_tasks # {}
  <2>1. Rooted(k, c.root_tasks) BY <1>5, Zenon
  <2>2. last # {} /\ \A u \in Positions(k) \ c.root_tasks : Preds(k, u) = {} => u \notin last
    BY <2>1, NextFollows, Zenon
  <2>3. Waiting(k, c.root_tasks, {}) BY <1>3, <2>1, <2>2, Zenon DEF Rooted
  <2>4. QED BY <1>1, <1>5, <2>3, Zenon
<1>6. QED BY <1>4, <1>5, Zenon

\* A worker step: what no longer waits for anything is enqueued.
LEMMA ExecuteWaits ==
    ASSUME NEW k \in Kinds, NEW c, NEW q, NEW d, Running(c, k, q, d), Waiting(k, q, d),
           NEW t \in q
    PROVE  Waiting(k, Enqueued(c, q, t, Following(c, t)), d \cup {t})
<1> DEFINE p == Enqueued(c, q, t, Following(c, t))
<1>1. \A u \in q \cup d : u \in p \cup (d \cup {t}) BY Zenon DEF Enqueued
<1>2. SUFFICES ASSUME NEW u \in Targets(k) \ (p \cup (d \cup {t})), Preds(k, u) \ (d \cup {t}) = {}
               PROVE  /\ Preds(k, u) = {} /\ u \in Bar(k)
                      /\ \A v \in Targets(k) : u \in Preds(k, v) => v \in p \cup (d \cup {t})
  BY Zenon DEF Waiting
<1>3. u \in Targets(k) \ (q \cup d) BY <1>1, <1>2, Zenon
<1>4. CASE Preds(k, u) \ d # {}
  <2>1. Preds(k, u) \ d = {t} BY <1>2, <1>4, Zenon
  <2>2. c.pending[u] = 1
    <3>1. c.pending[u] = Cardinality(Preds(k, u) \ d) BY <1>3, Zenon DEF Running
    <3>2. Cardinality({t}) = 1 BY FS_Singleton, Zenon
    <3>3. QED BY <2>1, <3>1, <3>2, Zenon
  <2>3. t \in Tasks /\ t # Retire
    <3>1. u \in Nodes BY <1>3, PositionsAreTasks, Zenon DEF Targets, Nodes
    <3>2. t \in Positions(k) BY <2>1, <3>1, PredsType, Zenon
    <3>3. QED BY <3>2, PositionsAreTasks, Zenon
  <2>4. u \in Following(c, t) BY <1>3, <2>1, <2>3 DEF Following, Running
  <2>5. u \in p BY <2>2, <2>4, Zenon DEF Enqueued
  <2>6. QED BY <1>2, <2>5
<1>5. CASE Preds(k, u) \ d = {} BY <1>1, <1>3, <1>5, Zenon DEF Waiting
<1>6. QED BY <1>4, <1>5, Zenon

-----------------------------------------------------------------------------
\* The roots and the enqueued tasks are complete.
Complete ==
    /\ phase = "recording" => cb.root_tasks = {} \/ Rooted(kind, cb.root_tasks)
    /\ phase = "executable" /\ cb.root_tasks # {} => Waiting(kind, cb.root_tasks, {})
    /\ phase = "issued" => Waiting(kind, Unretired, done) /\ ran \cap Bar(kind) \subseteq done

\* Every step keeps them complete.
LEMMA CompleteStep == IInv /\ Complete /\ [Next]_vars => Complete'
<1> SUFFICES ASSUME IInv, Complete, [Next]_vars PROVE Complete' OBVIOUS
<1>1. CASE RecordCommand
  <2>1. /\ kind \in Kinds /\ Len(kind) < MaxTasks /\ phase' = "recording"
        /\ cb' = ExecutionTask(cb, Len(kind) + 1) /\ cb \in BufferType
        /\ cb.root_tasks = {} \/ Rooted(kind, cb.root_tasks)
    BY <1>1, Zenon DEF IInv, Complete, RecordCommand
  <2>2. PICK x \in {"command", "empty"} : kind' = Append(kind, x)
    BY <1>1, Zenon DEF RecordCommand
  <2>3. cb'.root_tasks = cb.root_tasks BY <2>1 DEF ExecutionTask, BufferType
  <2>4. Rooted(kind, cb.root_tasks) => Rooted(kind', cb.root_tasks)
    BY <2>1, <2>2, CommandRooted, Zenon
  <2>5. QED BY <2>1, <2>3, <2>4, Zenon DEF Complete
<1>2. CASE RecordBarrier
  <2>1. /\ kind \in Kinds /\ Len(kind) < MaxTasks /\ phase' = "recording"
        /\ kind' = Append(kind, "barrier") /\ cb' = GlobalBarrier(cb, Len(kind) + 1)
        /\ cb \in BufferType /\ Recording(cb, kind)
        /\ cb.root_tasks = {} \/ Rooted(kind, cb.root_tasks)
    BY <1>2, Zenon DEF IInv, Complete, RecordBarrier
  <2>2. cb'.root_tasks = {} \/ Rooted(kind', cb'.root_tasks) BY <2>1, BarrierRooted, Zenon
  <2>3. QED BY <2>1, <2>2, Zenon DEF Complete
<1>3. CASE RecordFails BY <1>3, Zenon DEF Complete, RecordFails
<1>4. CASE End
  <2>1. /\ kind \in Kinds /\ kind' = kind /\ phase' = "executable" /\ cb' = EndOf(cb)
        /\ cb \in BufferType /\ Recording(cb, kind)
        /\ cb.root_tasks = {} \/ Rooted(kind, cb.root_tasks)
    BY <1>4, Zenon DEF IInv, Complete, End
  <2>2. cb'.root_tasks # {} => Waiting(kind', cb'.root_tasks, {}) BY <2>1, EndWaits, Zenon
  <2>3. QED BY <2>1, <2>2, Zenon DEF Complete
<1>5. CASE Issue
  <2>1. /\ kind \in Kinds /\ kind' = kind /\ phase' = "issued" /\ Executable(cb, kind)
        /\ Unretired' = queue' /\ ran' = {} /\ done' = {} /\ phase = "executable"
    BY <1>5, Zenon DEF IInv, Issue, Unretired
  <2>2. CASE cb.root_tasks # {}
    <3>1. cb.root_tasks \subseteq queue' /\ queue' \subseteq cb.root_tasks \cup {Retire}
      BY <1>5, <2>2, Zenon DEF Issue
    <3>2. Waiting(kind, cb.root_tasks, {}) BY <2>1, <2>2, Zenon DEF Complete
    <3>3. Waiting(kind, queue', {}) BY <3>1, <3>2, Zenon DEF Waiting
    <3>4. QED BY <2>1, <3>3, Zenon DEF Complete
  <2>3. CASE cb.root_tasks = {}
    <3>1. cb.pending[Retire] = 1 /\ Len(kind) = 0 BY <2>1, <2>3, Zenon DEF Executable
    <3>2. queue' = cb.root_tasks \cup {Retire} BY <1>5, <2>3, <3>1, Zenon DEF Issue
    <3>3. Targets(kind) = {Retire} BY <3>1 DEF Targets, Positions
    <3>4. Waiting(kind, queue', {}) BY <3>2, <3>3, Zenon DEF Waiting
    <3>5. QED BY <2>1, <3>4, Zenon DEF Complete
  <2>4. QED BY <2>2, <2>3, Zenon
<1>6. ASSUME NEW t \in Nodes, Execute(t) PROVE Complete'
  <2>1. /\ kind \in Kinds /\ Running(cb, kind, Unretired, done) /\ kind' = kind
        /\ t \in Unretired /\ phase' = "issued" /\ Waiting(kind, Unretired, done)
        /\ ran \cap Bar(kind) \subseteq done /\ ran' = ran \cup {t}
    BY <1>6, Zenon DEF IInv, Complete, Execute, Unretired
  <2>2. CASE Retires(t)
    <3>1. done' = done \cup {t} /\ Unretired' = Enqueued(cb, Unretired, t, Following(cb, t))
      BY <1>6, <2>2, StepRetires, Zenon
    <3>2. Waiting(kind, Unretired', done \cup {t}) BY <2>1, <3>1, ExecuteWaits, Zenon
    <3>3. QED BY <2>1, <3>1, <3>2, Zenon DEF Complete
  <2>3. CASE ~Retires(t)
    <3>1. done' = done /\ Unretired' = Unretired BY <1>6, <2>1, <2>3, StepStays, Zenon
    <3>2. t \notin Bar(kind)
      <4>1. Bar(kind) \subseteq Tasks /\ Retire \notin Tasks BY <2>1, PositionsAreTasks, Zenon
      <4>2. t \in Bar(kind) => t # Retire /\ kind[t] = "barrier" BY <4>1, Zenon DEF Bar
      <4>3. "barrier" # "command" OBVIOUS
      <4>4. QED BY <2>3, <4>2, <4>3, Zenon DEF Retires
    <3>3. QED BY <2>1, <3>1, <3>2, Zenon DEF Complete
  <2>4. QED BY <2>2, <2>3, Zenon
<1>7. CASE Reset BY <1>7, Zenon DEF Complete, Reset
<1>8. CASE DiscardOne BY <1>8, Zenon DEF Complete, DiscardOne
<1>9. CASE DiscardRoots BY <1>9, Zenon DEF Complete, DiscardRoots
<1>10. CASE Discarded BY <1>10, Zenon DEF Complete, Discarded, Empty
<1>11. CASE UNCHANGED vars BY <1>11, Zenon DEF Complete, Unretired, vars
<1>12. QED
  BY <1>1, <1>2, <1>3, <1>4, <1>5, <1>6, <1>7, <1>8, <1>9, <1>10, <1>11, Zenon DEF Next

\* Among the barriers that hold a task up there would be a first one, and it
\* waits for a command that is not done.
LEMMA HeldByCommand ==
    ASSUME NEW k \in Kinds, NEW q, NEW d, Waiting(k, q, d), q \cap Bar(k) = {},
           NEW c \in Cmd(k), Earlier(k, c) \subseteq d
    PROVE  c \in q \cup d
<1> DEFINE X == {b \in Bar(k) : b < c /\ b \notin d
                                /\ \E w \in Targets(k) \ (q \cup d) : b \in Preds(k, w)}
<1>0. /\ Cmd(k) \subseteq 1 .. Len(k) /\ Bar(k) \subseteq 1 .. Len(k) /\ Len(k) \in Nat
      /\ Cmd(k) \cap Bar(k) = {} /\ Cmd(k) \subseteq Targets(k) /\ Bar(k) \subseteq Targets(k)
      /\ Targets(k) \subseteq Nodes /\ Positions(k) = Cmd(k) \cup Bar(k)
  BY PositionsAreTasks, Zenon DEF Positions, Targets, Nodes
<1>1. ASSUME NEW b \in X PROVE \E v \in X : v < b
  <2>1. b \in Bar(k) /\ b < c /\ b \in Targets(k) \ (q \cup d) BY <1>0, Zenon
  <2>2. PICK w \in Targets(k) \ (q \cup d) : b \in Preds(k, w) OBVIOUS
  <2>3. PICK v \in Preds(k, b) : v \notin d BY <2>1, <2>2, Zenon DEF Waiting
  <2>4. v \in Positions(k) /\ v < b BY <1>0, <2>1, <2>3, PredsType, Zenon
  <2>5. v \notin Cmd(k)
    <3>1. v \in Cmd(k) => v \in Earlier(k, c) BY <2>1, <2>4, Zenon DEF Earlier
    <3>2. QED BY <2>3, <3>1, Zenon
  <2>6. v \in Bar(k) BY <1>0, <2>4, <2>5
  <2>7. v < c BY <1>0, <2>1, <2>4, <2>6
  <2>8. v \in X BY <2>1, <2>3, <2>6, <2>7, Zenon
  <2>9. QED BY <2>4, <2>8, Zenon
<1>2. X = {}
  <2>1. SUFFICES ASSUME X # {} PROVE FALSE OBVIOUS
  <2>2. X \subseteq Nat BY <1>0
  <2> HIDE DEF X
  <2>3. PICK b \in X : \A y \in Nat : <<y, b>> \in OpToRel(<, Nat) => y \notin X
    <3>1. X \in SUBSET Nat /\ \E y \in X : TRUE BY <2>1, <2>2, Zenon
    <3>2. QED BY <2>1, <2>2, NatLessThanWellFounded, WFMin, Zenon
  <2>4. \A y \in X : ~(y < b) BY <2>2, <2>3, Zenon DEF OpToRel
  <2>5. QED BY <1>1, <2>4, Zenon
<1>3. SUFFICES ASSUME c \notin q \cup d PROVE FALSE OBVIOUS
<1>4. PICK b \in Preds(k, c) : b \notin d BY <1>0, <1>3, Zenon DEF Waiting
<1>5. b \in Bar(k) /\ b < c BY <1>4, Zenon DEF Preds, LastBar
<1>6. b \in X BY <1>0, <1>3, <1>4, <1>5, Zenon
<1>7. QED BY <1>2, <1>6, Zenon

\* For recordings of any length: nothing is ordered that no barrier orders.
THEOREM NoNeedlessWaitHolds == Spec => []NoNeedlessWait
<1>1. Init => IInv /\ Complete BY EmptyRecording DEF Init, IInv, Complete, Empty
<1>2. IInv /\ Complete => NoNeedlessWait
  <2> SUFFICES ASSUME IInv, Complete, phase = "issued", queue \cap Barriers = {},
                      NEW c \in Commands, Before(c) \subseteq done
               PROVE  c \in queue \cup ran
    BY Zenon DEF NoNeedlessWait
  <2>1. Commands = Cmd(kind) /\ Barriers = Bar(kind)
    BY Zenon DEF Commands, Barriers, Recorded, Cmd, Bar, Positions
  <2>2. Earlier(kind, c) = Before(c) BY <2>1, Zenon DEF Before, Earlier
  <2>3. /\ kind \in Kinds /\ Waiting(kind, Unretired, done) /\ ran \cap Bar(kind) \subseteq done
    BY Zenon DEF IInv, Complete
  <2>4. Unretired \cap Bar(kind) = {} BY <2>1, <2>3, Zenon DEF Unretired
  <2>5. c \in Unretired \cup done BY <2>1, <2>2, <2>3, <2>4, HeldByCommand
  <2>6. done \subseteq ran BY Zenon DEF IInv
  <2>7. QED BY <2>5, <2>6, Zenon DEF Unretired
<1>3. QED BY <1>1, <1>2, IInvStep, CompleteStep, PTL DEF Spec

-----------------------------------------------------------------------------
\* Only a barrier that was recorded first follows nothing.
LEMMA FirstBarrier ==
    ASSUME NEW k \in Kinds, NEW b \in Bar(k), Preds(k, b) = {}
    PROVE  b = 1
<1> DEFINE D == {d \in Bar(k) : d < b}  X == {n \in Nat : \E d \in D : n = b - d}
<1>0. /\ Len(k) \in Nat /\ Cmd(k) \subseteq 1 .. Len(k) /\ Bar(k) \subseteq 1 .. Len(k)
      /\ Cmd(k) \cap Bar(k) = {} /\ 1 .. Len(k) = Cmd(k) \cup Bar(k)
  BY PositionsAreTasks, Zenon DEF Positions
<1>1. Segment(k, b) = {} /\ LastBar(k, b) = {} BY <1>0, Zenon DEF Preds, Layer
<1>2. D = {}
  <2>1. SUFFICES ASSUME NEW d \in D PROVE FALSE OBVIOUS
  <2>2. b - d \in X BY <1>0, <2>1
  <2> HIDE DEF X
  <2>3. PICK n \in X : \A y \in Nat : <<y, n>> \in OpToRel(<, Nat) => y \notin X
    <3>1. X \in SUBSET Nat /\ X # {} BY <2>2, Zenon DEF X
    <3>2. QED BY <3>1, NatLessThanWellFounded, WFMin, Zenon
  <2>4. n \in Nat /\ \A y \in X : ~(y < n) BY <2>3, Zenon DEF OpToRel, X
  <2>5. PICK l \in D : n = b - l BY <2>3, Zenon DEF X
  <2>6. \A e \in D : b - e \in X /\ ~(b - e < n)
    <3>1. \A e \in D : b - e \in Nat BY <1>0
    <3>2. QED BY <2>4, <3>1, Zenon DEF X
  <2>7. \A e \in D : e <= l BY <1>0, <2>5, <2>6
  <2>8. l \in LastBar(k, b) BY <2>5, <2>7, Zenon DEF LastBar
  <2>9. QED BY <1>1, <2>8, Zenon
<1>3. SUFFICES ASSUME b # 1 PROVE FALSE OBVIOUS
<1>4. 1 < b /\ 1 \in 1 .. Len(k) BY <1>0, <1>3
<1>5. 1 \in Cmd(k) BY <1>0, <1>2, <1>4, Zenon
<1>6. 1 \in Segment(k, b) BY <1>2, <1>4, <1>5, Zenon DEF Segment
<1>7. QED BY <1>1, <1>6, Zenon

\* The commands that directly follow a first barrier.
Behind(k) ==
    {c \in Positions(k) : k[c] = "command" /\ 1 \in Bar(k) /\ \A b \in Bar(k) : b < c => b = 1}

\* Any other task has nothing pending, or need not have, when it was enqueued.
LEMMA EnqueuedRetires ==
    ASSUME NEW k \in Kinds, NEW c, NEW q, NEW d, Running(c, k, q, d), NEW t \in q,
           Behind(k) = {}
    PROVE  c.pending[t] = 0 \/ (t # Retire /\ k[t] # "command")
<1>1. SUFFICES ASSUME t = Retire \/ k[t] = "command" PROVE c.pending[t] = 0 OBVIOUS
<1>2. t \in Targets(k) /\ InTurn(k, t, q, d) BY Zenon DEF Running
<1>3. Preds(k, t) \subseteq d
  <2>1. SUFFICES ASSUME NEW v \in Preds(k, t), t # Retire, Preds(k, v) = {} PROVE FALSE
    BY <1>2, Zenon DEF InTurn
  <2>2. t \in Positions(k) /\ k[t] = "command" BY <1>1, <1>2, <2>1, Zenon DEF Targets
  <2>3. "command" # "barrier" OBVIOUS
  <2>4. t \in Cmd(k) BY <2>2, <2>3, Zenon DEF Cmd
  <2>5. v \in Bar(k) /\ \A b \in Bar(k) : b < t => b <= v BY <2>1, <2>4, Zenon DEF Preds, LastBar
  <2>6. v = 1 BY <2>1, <2>5, FirstBarrier, Zenon
  <2>7. Bar(k) \subseteq 1 .. Len(k) /\ Len(k) \in Nat BY PositionsAreTasks, Zenon DEF Positions
  <2>8. \A b \in Bar(k) : b < t => b = 1 BY <2>5, <2>6, <2>7
  <2>9. t \in Behind(k) BY <2>2, <2>5, <2>6, <2>8, Zenon DEF Behind
  <2>10. QED BY <2>9, Zenon
<1>4. c.pending[t] = Cardinality(Preds(k, t) \ d) BY <1>2, Zenon DEF Running
<1>5. Preds(k, t) \ d = {} BY <1>3, Zenon
<1>6. QED BY <1>4, <1>5, FS_EmptySet, Zenon

\* Whatever runs retires.
AllRetire == phase = "issued" /\ Behind(kind) = {} => ran \subseteq done

\* Every step keeps that.
LEMMA AllRetireStep == IInv /\ AllRetire /\ [Next]_vars => AllRetire'
<1> SUFFICES ASSUME IInv, AllRetire, [Next]_vars, phase' = "issued", Behind(kind)' = {}
             PROVE  ran' \subseteq done'
  BY Zenon DEF AllRetire
<1>1. CASE RecordCommand \/ RecordBarrier \/ RecordFails \/ End
  <2>1. phase' # "issued" BY <1>1 DEF RecordCommand, RecordBarrier, RecordFails, End
  <2>2. QED BY <2>1, Zenon
<1>2. CASE Reset \/ DiscardOne \/ DiscardRoots \/ Discarded
  <2>1. phase' # "issued" BY <1>2 DEF Reset, DiscardOne, DiscardRoots, Discarded
  <2>2. QED BY <2>1, Zenon
<1>3. CASE Issue
  <2>1. phase # "issued" /\ ran' = ran BY <1>3 DEF Issue
  <2>2. ran' = {} BY <2>1, Zenon DEF IInv
  <2>3. QED BY <2>2, Zenon
<1>4. ASSUME NEW t \in Nodes, Execute(t) PROVE ran' \subseteq done'
  <2>1. /\ phase = "issued" /\ kind' = kind /\ t \in Unretired /\ ran' = ran \cup {t}
    BY <1>4, Zenon DEF Execute, Unretired
  <2>2. Behind(kind) = {} BY <2>1, Zenon
  <2>3. kind \in Kinds /\ Running(cb, kind, Unretired, done) BY <2>1, Zenon DEF IInv
  <2>4. Retires(t) BY <2>1, <2>2, <2>3, EnqueuedRetires, Zenon DEF Retires
  <2>5. done' = done \cup {t} BY <1>4, <2>4, StepRetires, Zenon
  <2>6. QED BY <2>1, <2>2, <2>5, Zenon DEF AllRetire
<1>5. CASE UNCHANGED vars BY <1>5, Zenon DEF AllRetire, vars
<1>6. QED BY <1>1, <1>2, <1>3, <1>4, <1>5, Zenon DEF Next

\* When nothing is enqueued, nothing waits: of the tasks that have not retired,
\* leaving out a barrier that only retired tasks follow, there would be a first.
LEMMA NothingWaits ==
    ASSUME NEW k \in Kinds, NEW d, Waiting(k, {}, d)
    PROVE  Retire \in d
<1> DEFINE Idle(u) == u \in Bar(k) /\ \A v \in Targets(k) : u \in Preds(k, v) => v \in d
           X == {u \in Targets(k) : u \notin d /\ ~Idle(u)}
<1>0. /\ Targets(k) \subseteq Nat /\ Targets(k) \subseteq Nodes /\ Positions(k) \subseteq Targets(k)
      /\ Retire \in Targets(k) /\ Retire \notin Bar(k)
  <2>1. Positions(k) \subseteq Tasks /\ Bar(k) \subseteq Tasks /\ Retire \notin Tasks
    BY PositionsAreTasks, Zenon
  <2>2. Tasks \subseteq Nat /\ Retire \in Nat BY MaxTasksAssumption DEF Tasks, Retire
  <2>3. QED BY <2>1, <2>2, Zenon DEF Targets, Nodes
<1>1. ASSUME NEW u \in X PROVE \E v \in X : v < u
  <2>1. u \in Targets(k) \ ({} \cup d) BY Zenon
  <2>2. PICK v \in Preds(k, u) : v \notin d
    <3>1. CASE Preds(k, u) \ d # {} BY <3>1, Zenon
    <3>2. CASE Preds(k, u) \ d = {}
      <4>1. u \in Bar(k) /\ \A v \in Targets(k) : u \in Preds(k, v) => v \in {} \cup d
        BY <2>1, <3>2, Zenon DEF Waiting
      <4>2. Idle(u) BY <4>1, Zenon
      <4>3. QED BY <4>2, Zenon
    <3>3. QED BY <3>1, <3>2, Zenon
  <2>3. v \in Targets(k) /\ v < u BY <1>0, <2>1, <2>2, PredsType, Zenon
  <2>4. ~Idle(v) BY <2>1, <2>2, Zenon
  <2>5. v \in X BY <2>2, <2>3, <2>4, Zenon
  <2>6. QED BY <2>3, <2>5, Zenon
<1>2. X \subseteq Nat BY <1>0, Zenon
<1>3. Retire \notin d => Retire \in X BY <1>0, Zenon
<1> HIDE DEF X
<1>4. X = {}
  <2>1. SUFFICES ASSUME X # {} PROVE FALSE OBVIOUS
  <2>2. PICK b \in X : \A y \in Nat : <<y, b>> \in OpToRel(<, Nat) => y \notin X
    <3>1. X \in SUBSET Nat BY <1>2, Zenon
    <3>2. QED BY <2>1, <3>1, NatLessThanWellFounded, WFMin, Zenon
  <2>3. \A y \in X : ~(y < b) BY <1>2, <2>2, Zenon DEF OpToRel
  <2>4. QED BY <1>1, <2>3, Zenon
<1>5. QED BY <1>3, <1>4, Zenon

\* For recordings of any length without a command behind a barrier at their start:
\* the workers never run out of tasks before the submission has retired.
THEOREM NeverHaltsHolds == Spec => []NeverHalts
<1>1. Init => IInv /\ Complete /\ AllRetire
  BY EmptyRecording DEF Init, IInv, Complete, AllRetire, Empty
<1>2. IInv /\ Complete /\ AllRetire => NeverHalts
  <2> SUFFICES ASSUME IInv, Complete, AllRetire, phase = "issued", BehindFirstBarrier = {},
                      queue = {}
               PROVE  Retire \in done
    BY Zenon DEF NeverHalts
  <2>1. Behind(kind) = {}
    BY Zenon DEF BehindFirstBarrier, Barriers, Recorded, Behind, Bar, Positions
  <2>2. Unretired = {} BY <2>1, Zenon DEF AllRetire, Unretired
  <2>3. kind \in Kinds /\ Waiting(kind, {}, done) BY <2>2, Zenon DEF IInv, Complete
  <2>4. QED BY <2>3, NothingWaits, Zenon
<1>3. QED BY <1>1, <1>2, IInvStep, CompleteStep, AllRetireStep, PTL DEF Spec
=============================================================================
