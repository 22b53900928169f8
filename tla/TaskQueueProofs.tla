--------------------------- MODULE TaskQueueProofs --------------------------
(***************************************************************************)
(* Theorems about TaskQueue, for any finite set of batches, any queues,    *)
(* host threads and programs: the order in which the parts of a batch      *)
(* begin, the life of its arena, and what an idle queue has finished.      *)
(***************************************************************************)
EXTENDS TaskQueueMoves, FiniteSetTheorems, WellFoundedInduction

-----------------------------------------------------------------------------
\* There are finitely many tasks: finitely many batches of finitely many waits and
\* commands each.
LEMMA TasksFinite == IsFiniteSet(Tasks)
<1>1. ASSUME NEW b \in Batches PROVE IsFiniteSet(TasksOf(b))
  <2>1. IsFiniteSet(Timepoints(b))
    <3> DEFINE f == [w \in Waits[b] |-> Timepoint(b, w)]
    <3>1. f \in Surjection(Waits[b], Timepoints(b))
      BY DEF Timepoints, Surjection
    <3> QED
      BY <3>1, QueueAssumption, FS_Surjection, ZenonT(60)
  <2>2. IsFiniteSet(CommandsOf(b))
    <3> DEFINE f == [c \in Commands[b] |-> Command(b, c)]
    <3>1. f \in Surjection(Commands[b], CommandsOf(b))
      BY DEF CommandsOf, Surjection
    <3> QED
      BY <3>1, QueueAssumption, FS_Surjection, ZenonT(60)
  <2>3. IsFiniteSet({WaitCmd(b), IssueCmd(b), RetireCmd(b)}) /\ IsFiniteSet({Fence(b)})
    <3>1. \A x : IsFiniteSet({x})
      BY FS_Singleton, Zenon
    <3>2. {WaitCmd(b), IssueCmd(b), RetireCmd(b)} = ({WaitCmd(b)} \cup {IssueCmd(b)}) \cup {RetireCmd(b)}
      OBVIOUS
    <3>3. IsFiniteSet({WaitCmd(b)} \cup {IssueCmd(b)})
      BY <3>1, FS_Union, ZenonT(60)
    <3>4. IsFiniteSet(({WaitCmd(b)} \cup {IssueCmd(b)}) \cup {RetireCmd(b)})
      BY <3>1, <3>3, FS_Union, ZenonT(60)
    <3> QED
      BY <3>1, <3>2, <3>4, ZenonT(60)
  <2> QED
    BY <2>1, <2>2, <2>3, FS_Union, ZenonT(60) DEF TasksOf, ArenaTasks
<1>2. IsFiniteSet({TasksOf(b) : b \in Batches})
  <2> DEFINE f == [b \in Batches |-> TasksOf(b)]
  <2>1. f \in Surjection(Batches, {TasksOf(b) : b \in Batches})
    BY DEF Surjection
  <2> QED
    BY <2>1, QueueAssumption, FS_Surjection, ZenonT(60)
<1>3. Tasks = UNION {TasksOf(b) : b \in Batches}
  BY Zenon DEF Tasks, TasksOf
<1> QED
  BY <1>1, <1>2, <1>3, FS_UNION, ZenonT(60)


\* A set of indices has a greatest one.
LEMMA MaxIn ==
    ASSUME NEW n \in Nat, NEW S \in SUBSET (1 .. n), S # {}
    PROVE  Max(S) \in S
<1> DEFINE D == {n - i : i \in S}
<1>1. D \subseteq Nat /\ D # {}
  <2>1. \A i \in S : n - i \in Nat
    OBVIOUS
  <2> QED
    BY <2>1, Zenon
<1>2. PICK d \in D : \A e \in D : ~(<<e, d>> \in OpToRel(<, Nat))
  BY <1>1, WFMin, NatLessThanWellFounded, ZenonT(60)
<1>3. PICK i \in S : d = n - i
  BY Zenon
<1>4. \A j \in S : i >= j
  <2> SUFFICES ASSUME NEW j \in S PROVE ~(n - j < d)
    BY <1>3
  <2>1. n - j \in D /\ n - j \in Nat /\ d \in Nat
    BY <1>1
  <2> QED
    BY <1>2, <2>1, ZenonT(60) DEF OpToRel
<1> QED
  BY <1>4, Zenon DEF Max


\* Subsets of a finite set can be counted.
LEMMA FiniteCounting ==
    ASSUME NEW U, IsFiniteSet(U)
    PROVE  Counting(U)
<1> SUFFICES ASSUME NEW S \in SUBSET U
             PROVE  /\ Cardinality(S) \in Nat
                    /\ Cardinality(S) = 0 <=> S = {}
                    /\ \A x \in S : Cardinality(S \ {x}) = Cardinality(S) - 1
                    /\ \A x \in U \ S : Cardinality(S \cup {x}) = Cardinality(S) + 1
                    /\ \A T \in SUBSET S : Cardinality(T) <= Cardinality(S)
                    /\ \A T \in SUBSET U : Cardinality(S \cup T) <= Cardinality(S) + Cardinality(T)
  BY Zenon DEF Counting
<1>1. IsFiniteSet(S)
  BY FS_Subset, ZenonT(60)
<1>2. Cardinality(S) \in Nat
  BY <1>1, FS_CardinalityType, ZenonT(60)
<1>3. Cardinality(S) = 0 <=> S = {}
  BY <1>1, FS_EmptySet, ZenonT(60)
<1>4. \A x \in S : Cardinality(S \ {x}) = Cardinality(S) - 1
  BY <1>1, FS_RemoveElement, SMTT(60)
<1>5. \A x \in U \ S : Cardinality(S \cup {x}) = Cardinality(S) + 1
  BY <1>1, FS_AddElement, SMTT(60)
<1>6. \A T \in SUBSET S : Cardinality(T) <= Cardinality(S)
  BY <1>1, FS_Subset, ZenonT(60)
<1>7. ASSUME NEW T \in SUBSET U PROVE Cardinality(S \cup T) <= Cardinality(S) + Cardinality(T)
  <2>1. IsFiniteSet(T) /\ IsFiniteSet(S \cap T)
    BY <1>1, FS_Subset, FS_Intersection, ZenonT(60)
  <2>2. Cardinality(T) \in Nat /\ Cardinality(S \cap T) \in Nat
    BY <2>1, FS_CardinalityType, ZenonT(60)
  <2>3. Cardinality(S \cup T) = Cardinality(S) + Cardinality(T) - Cardinality(S \cap T)
    BY <1>1, <2>1, FS_Union, ZenonT(60)
  <2> QED
    BY <1>2, <2>2, <2>3, SMTT(60)
<1> QED
  BY <1>2, <1>3, <1>4, <1>5, <1>6, <1>7, ZenonT(60)

\* Nothing is built in the beginning.
LEMMA InitHolds == Init => IInv
<1> SUFFICES ASSUME Init PROVE IInv
  OBVIOUS
<1>1. Typed
  BY DEF Init, Typed, Stages
<1>2. /\ \A x \in Tasks : pending[x] = 0 /\ completion[x] = NoTask /\ stage[x] = "absent"
      /\ \A q \in Queues : tail[q] = NoTask /\ scope[q] = 0
      /\ \A u \in Users : step[u] = "call"
      /\ freed = {}
  BY Zenon DEF Init
<1>3. \A b \in Batches :
         /\ WaitCmd(b) \in Tasks /\ IssueCmd(b) \in Tasks /\ RetireCmd(b) \in Tasks /\ Fence(b) \in Tasks
         /\ Timepoints(b) \subseteq Tasks /\ CommandsOf(b) \subseteq Tasks /\ TasksOf(b) \subseteq Tasks
  BY Members, ZenonT(60)
<1>4. Linked
  BY <1>2, <1>3, SMTT(60) DEF Linked
<1>5. \A x \in Tasks : Sources(x) = {}
  BY <1>2, NoTaskApart, ZenonT(60) DEF Sources, Into
<1>6. Counted
  <2>1. Cardinality({}) = 0
    BY FS_EmptySet, Zenon
  <2>2. \A x \in Tasks : Cardinality(Sources(x)) = 0
    BY <1>5, <2>1, ZenonT(60)
  <2>3. ASSUME NEW x \in Tasks PROVE Cardinality(Sources(x)) <= pending[x]
    <3>1. Cardinality(Sources(x)) = 0 /\ pending[x] = 0
      BY <1>2, <2>2, ZenonT(60)
    <3> QED
      BY <3>1, SMTT(60)
  <2> QED
    BY <2>3, Zenon DEF Counted
<1>7. FinishedFree /\ AbsentFree
  BY <1>2, <1>5, ZenonT(60) DEF FinishedFree, AbsentFree
<1>8. Free
  BY <1>2, <1>3, SMTT(60) DEF Free
<1>9. Built
  BY <1>2, <1>3, ZenonT(60) DEF Built
<1>10. WaitPhase
  BY <1>2, <1>3, SMTT(60) DEF WaitPhase, Live
<1>11. Waited
  <2>1. \A b \in Batches : \A w \in Waits[b] : Timepoint(b, w) \in Tasks
    BY Members, ZenonT(60)
  <2> QED
    BY <1>2, <1>3, <2>1, SMTT(60) DEF Waited, Done
<1>12. Issued
  BY <1>2, <1>3, SMTT(60) DEF Issued
<1>13. Gate /\ FenceLast
  BY <1>2, <1>3, SMTT(60) DEF Gate, FenceLast, Finished
<1>14. ScopeExact
  <2>1. \A b \in Batches : ~Open(b)
    BY <1>2, <1>3, ZenonT(60) DEF Open
  <2>2. \A q \in Queues : {b \in Batches : Queue[b] = q /\ Open(b)} = {}
    BY <2>1, ZenonT(60)
  <2>3. Cardinality({}) = 0
    BY FS_EmptySet, Zenon
  <2> QED
    BY <1>2, <2>2, <2>3, ZenonT(60) DEF ScopeExact
<1>15. FreedLast
  BY <1>2, Zenon DEF FreedLast
<1>16. TailInFlight
  BY <1>2, <1>3, NoTaskApart, ZenonT(60) DEF TailInFlight
<1>17. InCall
  BY <1>2, SMTT(60) DEF InCall, Chaining
<1>18. Fresh
  BY <1>2, <1>3, ZenonT(60) DEF Fresh
<1>19. Apart
  <2> SUFFICES ASSUME NEW b \in Batches
               PROVE  /\ completion[IssueCmd(b)] = NoTask /\ pending[IssueCmd(b)] = 0
                      /\ stage[IssueCmd(b)] = "absent" /\ stage[RetireCmd(b)] = "absent"
                      /\ \A t \in CommandsOf(b) : completion[t] = NoTask /\ stage[t] = "absent"
    BY DEF Apart
  <2> QED
    BY <1>2, <1>3, ZenonT(60)
<1>20. Counting(Tasks) /\ Counting(Batches)
  BY TasksFinite, QueueAssumption, FiniteCounting, ZenonT(60)
<1>21. Maxima
  BY MaxIn, Zenon DEF Maxima
<1> QED
  BY <1>1, <1>4, <1>6, <1>7, <1>8, <1>9, <1>10, <1>11, <1>12, <1>13, <1>14, <1>15, <1>16, <1>17, <1>18, <1>19,
     <1>20, <1>21, ZenonT(60) DEF IInv

\* The invariant holds in every reachable state.
THEOREM InvariantHolds == Spec => []IInv
BY InitHolds, NextKeeps, PTL DEF Spec

-----------------------------------------------------------------------------
\* For any batches, queues and host threads: commands begin after every
\* semaphore their batch waits for has reached its value, or an event could not
\* be acquired, and the semaphores are signaled after every command retired.
THEOREM BatchOrderHolds == Spec => []BatchOrder
<1>1. IInv => BatchOrder
  <2> SUFFICES ASSUME IInv, NEW b \in Batches
               PROVE  /\ b \notin faulted /\ (\E t \in CommandsOf(b) : Begun(t)) => Unreached(b) = {}
                      /\ Begun(RetireCmd(b)) => \A t \in CommandsOf(b) : stage[t] \in {"retired", "done"}
    BY Zenon DEF BatchOrder
  <2>1. Begun(RetireCmd(b)) => \A t \in CommandsOf(b) : stage[t] \in {"retired", "done"}
    BY DEF IInv, Gate, Begun, Finished
  <2>2. ASSUME b \notin faulted, NEW t \in CommandsOf(b), Begun(t), NEW w \in Waits[b]
        PROVE  ~(value[w[1]] < w[2])
    <3>1. WaitsOver(b)
      BY <2>2, SMTT(60) DEF IInv, Issued, Begun
    <3>2. /\ stage[WaitCmd(b)] \in {"running", "retired", "done"}
          /\ stage[Timepoint(b, w)] \in {"absent", "done"}
      BY <3>1, Members, SMTT(60) DEF WaitsOver, Finished
    <3>3. value[w[1]] >= w[2]
      BY <2>2, <3>2, ZenonT(60) DEF IInv, Waited, Done
    <3>4. w[1] \in Semaphores /\ w[2] \in Nat
      BY QueueAssumption, SMTT(60)
    <3>5. value[w[1]] \in Nat
      BY <3>4, ZenonT(60) DEF IInv, Typed
    <3> QED
      BY <3>3, <3>4, <3>5, SMTT(60)
  <2> QED
    BY <2>1, <2>2, ZenonT(60) DEF Unreached
<1> QED
  BY <1>1, InvariantHolds, PTL

\* For any batches, queues and host threads: as long as no batch finds an issue
\* in flight, the arena is dropped after the last of its tasks is done, and the
\* queue does not point into it.
THEOREM ArenaOutlivesTasksHolds == Spec => []ArenaOutlivesTasks
<1>1. IInv => ArenaOutlivesTasks
  <2> SUFFICES ASSUME IInv, chained = {}, NEW b \in freed
               PROVE  tail[Queue[b]] # IssueCmd(b) /\ \A t \in ArenaTasks(b) : stage[t] \in {"absent", "done"}
    BY ZenonT(60) DEF ArenaOutlivesTasks
  <2>1. b \in Batches /\ Queue[b] \in Queues
    BY QueueAssumption, SMTT(60) DEF IInv, Typed
  <2>2. CASE stage[IssueCmd(b)] = "absent"
    <3>1. tail[Queue[b]] # IssueCmd(b)
      BY <2>1, <2>2, ZenonT(60) DEF IInv, TailInFlight
    <3>2. \A t \in TasksOf(b) : stage[t] = "absent"
      BY <2>1, <2>2, ZenonT(60) DEF IInv, Built
    <3> QED
      BY <3>1, <3>2, ZenonT(60) DEF TasksOf
  <2>3. CASE Done(RetireCmd(b))
    <3>1. Done(IssueCmd(b))
      BY <2>1, <2>3, SMTT(60) DEF IInv, Apart, Done
    <3>2. tail[Queue[b]] # IssueCmd(b)
      BY <2>1, <3>1, SMTT(60) DEF IInv, TailInFlight, Done
    <3>3. stage[WaitCmd(b)] \in {"absent", "done"}
      <4>1. CASE Waits[b] = {}
        BY <2>1, <4>1, SMTT(60) DEF IInv, Built
      <4>2. CASE Waits[b] # {}
        BY <2>1, <3>1, <4>2, SMTT(60) DEF IInv, Apart, Done
      <4> QED
        BY <4>1, <4>2, ZenonT(60)
    <3>4. \A t \in Timepoints(b) : stage[t] \in {"absent", "done"}
      BY <2>1, <3>1, SMTT(60) DEF IInv, Free, WaitPhase, Live, Done
    <3> QED
      BY <2>3, <3>1, <3>2, <3>3, <3>4, SMTT(60) DEF ArenaTasks, Done
  <2> QED
    BY <2>2, <2>3, ZenonT(60) DEF IInv, FreedLast
<1> QED
  BY <1>1, InvariantHolds, PTL

\* For any batches, queues and host threads: as long as no batch finds an issue
\* in flight, a queue whose scope is idle has retired all its batches and has no
\* tail.
THEOREM IdleMeansFinishedHolds == Spec => []IdleMeansFinished
<1>1. IInv => IdleMeansFinished
  <2> SUFFICES ASSUME IInv, NEW q \in Queues, scope[q] = 0, chained = {}
               PROVE  /\ tail[q] = NoTask
                      /\ \A b \in Batches : Queue[b] = q /\ stage[IssueCmd(b)] # "absent" => Done(RetireCmd(b))
    BY Zenon DEF IdleMeansFinished
  <2>1. \A b \in Batches : Queue[b] = q => ~Open(b)
    <3> DEFINE S == {b \in Batches : Queue[b] = q /\ Open(b)}
    <3>1. IsFiniteSet(S)
      BY QueueAssumption, FS_Subset, ZenonT(60)
    <3>2. Cardinality(S) = 0
      BY Zenon DEF IInv, ScopeExact
    <3>3. S = {}
      BY <3>1, <3>2, FS_EmptySet, ZenonT(60)
    <3> QED
      BY <3>3, Zenon
  <2>2. ASSUME NEW b \in Batches, Queue[b] = q, stage[IssueCmd(b)] # "absent"
        PROVE  Done(RetireCmd(b)) /\ Done(IssueCmd(b))
    <3>1. stage[Fence(b)] = "done"
      BY <2>1, <2>2, ZenonT(60) DEF IInv, Built, Open
    <3>2. Done(RetireCmd(b))
      BY <3>1, SMTT(60) DEF IInv, FenceLast
    <3>3. Done(IssueCmd(b))
      BY <3>2, SMTT(60) DEF IInv, Apart, Done
    <3> QED
      BY <3>2, <3>3, ZenonT(60)
  <2>3. tail[q] = NoTask
    <3> SUFFICES ASSUME tail[q] # NoTask PROVE FALSE
      OBVIOUS
    <3>1. tail[q] \in {IssueCmd(b) : b \in Batches}
      BY Zenon DEF IInv, Typed
    <3>2. PICK b \in Batches : tail[q] = IssueCmd(b)
      BY <3>1, Zenon
    <3>3. Queue[b] = q /\ stage[IssueCmd(b)] \notin {"absent", "done"}
      BY <3>2, Zenon DEF IInv, TailInFlight
    <3> QED
      BY <2>2, <3>3, SMTT(60) DEF Done
  <2> QED
    BY <2>2, <2>3, ZenonT(60)
<1> QED
  BY <1>1, InvariantHolds, PTL

=============================================================================
