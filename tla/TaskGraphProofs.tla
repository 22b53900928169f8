-------------------------- MODULE TaskGraphProofs ---------------------------
(***************************************************************************)
(* Theorems about TaskGraph, for every finite graph that satisfies the     *)
(* assumptions of that module and any set of workers: the inductive        *)
(* invariant, that it holds initially and that every step preserves it,    *)
(* what follows from it, the refinement of TaskOrder, and what an idle     *)
(* scope promises.                                                         *)
(***************************************************************************)
EXTENDS TaskGraph, FiniteSetTheorems, TLAPS

\* Executed, and with its completion task notified.
Gone == {"released", "retired"}
\* In some list of ready or waiting tasks.
Queued == {"local", "incoming", "waiting", "batch", "posted"}

\* Which types of task may be in which stage, and in whose hands.
StageTypes ==
    \A t \in Tasks :
        /\ where[t] = "absent" => t \in Spawned /\ t \notin issued
        /\ where[t] \in {"local", "incoming"} => Type[t] # "SHARD"
        /\ where[t] \in {"batch", "posted"} => Type[t] \in {"CALL", "SHARD"}
        /\ where[t] = "waiting" => Type[t] = "WAIT"
        /\ where[t] = "active" /\ Type[t] \in {"CALL", "SHARD"} => holder[t] \in Workers
        /\ where[t] = "active" /\ Type[t] \notin {"CALL", "SHARD"} =>
              /\ Type[t] \in {"BARRIER", "FENCE", "DISPATCH"}
              /\ holder[t] = Coordinator
              /\ Type[t] = "DISPATCH" => t \in issued

\* An edge is delivered exactly when its source has passed the decrement.
CompletionDelivered ==
    \A t \in Tasks : Completion[t] # NoTask =>
        (CompletionEdge(t) \in delivered <=> where[t] \in Gone)

BarrierDelivered ==
    \A t \in Tasks : \A i \in DOMAIN Dependents[t] :
        /\ BarrierEdge(t, i) \in delivered => where[t] \in Gone \cup {"active", "retiring"}
        /\ where[t] \in Gone \cup {"retiring"} => BarrierEdge(t, i) \in delivered

\* A task that is not spawned yet has a parent that is still to spawn it.
ParentWillSpawn ==
    \A t \in Tasks : \A s \in Spawns[t] :
        /\ where[s] = "absent" =>
              /\ where[t] \in Queued \cup {"absent", "idle", "active"}
              /\ where[t] # "active" => t \notin issued
        /\ where[s] # "absent" => t \in issued

\* What is spawned into a task that is still active is out of the other
\* threads' reach, or done.
SpawnsInHand ==
    \A t \in Tasks : \A s \in Spawns[t] : where[t] = "active" /\ Completion[s] = t =>
        \/ where[s] = "absent"
        \/ Type[t] = "DISPATCH" /\ where[s] = "batch"
        \/ Type[t] = "CALL" /\ where[s] = "local" /\ holder[s] = holder[t]
        \/ Type[t] = "CALL" /\ where[s] \in Gone

\* An active task waits for nothing but what it spawned.
ActiveWaitsForSpawns ==
    \A t \in Tasks : where[t] = "active" => \A e \in Outstanding(t) : e[1] \in Spawns[t]

\* The scope counts the fences that have not ended their submission.
ScopeExact ==
    scope = Cardinality({t \in Tasks : Type[t] = "FENCE" /\ where[t] \notin Gone \cup {"retiring"}})

\* The inductive invariant.
IInv ==
    /\ TypeOK /\ PendingExact /\ NoTaskForgotten /\ QueuedMeansReady
    /\ StageTypes /\ CompletionDelivered /\ BarrierDelivered
    /\ ParentWillSpawn /\ SpawnsInHand /\ ActiveWaitsForSpawns /\ ScopeExact

-----------------------------------------------------------------------------
\* What an edge can be, and what it connects.
LEMMA EdgeKinds ==
    ASSUME NEW e \in Edges
    PROVE  /\ e[1] \in Tasks /\ e[3] \in Tasks /\ e[1] # e[3]
           /\ \/ /\ e = CompletionEdge(e[1])
                 /\ Completion[e[1]] = e[3]
                 /\ Completion[e[1]] # NoTask
              \/ \E i \in DOMAIN Dependents[e[1]] : e = BarrierEdge(e[1], i)
<1>1. CASE e \in CompletionEdges
  <2>1. PICK t \in Tasks : Completion[t] # NoTask /\ e = CompletionEdge(t)
    BY <1>1, Zenon DEF CompletionEdges
  <2>2. e[1] = t /\ e[3] = Completion[t] BY <2>1, Zenon DEF CompletionEdge
  <2>3. e[1] # e[3] BY GraphAssumption, Zenon
  <2>4. Completion[t] \in Tasks BY <2>1, GraphAssumption, Zenon
  <2>5. QED BY <2>1, <2>2, <2>3, <2>4, Zenon
<1>2. CASE \E b \in Tasks : e \in BarrierEdges(b)
  <2>1. PICK b \in Tasks : e \in BarrierEdges(b) BY <1>2, Zenon
  <2>2. PICK i \in DOMAIN Dependents[b] : e = BarrierEdge(b, i)
    BY <2>1, Zenon DEF BarrierEdges
  <2>3. e[1] = b /\ e[3] = Dependents[b][i] BY <2>2, Zenon DEF BarrierEdge
  <2>4. Dependents[b][i] \in Tasks BY <2>2, GraphAssumption
  <2>5. e[1] # e[3] BY GraphAssumption, Zenon
  <2>6. QED BY <2>2, <2>3, <2>4, <2>5, Zenon
<1>3. QED BY <1>1, <1>2, Zenon DEF Edges

\* The ends of a completion edge.
LEMMA CompletionEdgeFacts ==
    ASSUME NEW t \in Tasks, Completion[t] # NoTask
    PROVE  /\ CompletionEdge(t) \in Edges
           /\ CompletionEdge(t)[1] = t
           /\ CompletionEdge(t)[3] = Completion[t]
           /\ Completion[t] \in Tasks /\ Completion[t] # t
<1>1. CompletionEdge(t) \in Edges BY Zenon DEF CompletionEdges, Edges
<1>2. CompletionEdge(t)[1] = t /\ CompletionEdge(t)[3] = Completion[t]
  BY Zenon DEF CompletionEdge
<1>3. CompletionEdge(t)[1] # CompletionEdge(t)[3] BY <1>1, GraphAssumption, Zenon
<1>4. Completion[t] \in Tasks BY GraphAssumption, Zenon
<1>5. QED BY <1>1, <1>2, <1>3, <1>4, Zenon

\* The ends of a barrier edge: only barriers have dependents.
LEMMA BarrierEdgeFacts ==
    ASSUME NEW b \in Tasks, NEW i \in DOMAIN Dependents[b]
    PROVE  /\ BarrierEdge(b, i) \in Edges
           /\ BarrierEdge(b, i)[1] = b
           /\ BarrierEdge(b, i)[3] \in Tasks
           /\ BarrierEdge(b, i)[3] # b
           /\ Type[b] = "BARRIER"
<1>1. BarrierEdge(b, i) \in Edges BY DEF BarrierEdges, Edges
<1>2. BarrierEdge(b, i)[1] = b BY Zenon DEF BarrierEdge
<1>3. Dependents[b] # <<>> OBVIOUS
<1>4. Type[b] = "BARRIER" BY <1>3, SpawnAssumption, Zenon
<1>5. QED BY <1>1, <1>2, <1>4, EdgeKinds, Zenon

\* No two decrements are the same edge.
LEMMA EdgesDistinct ==
    ASSUME NEW t \in Tasks, NEW b \in Tasks, NEW i \in DOMAIN Dependents[b]
    PROVE  /\ CompletionEdge(t) # BarrierEdge(b, i)
           /\ \A u \in Tasks : CompletionEdge(t) = CompletionEdge(u) => t = u
           /\ \A u \in Tasks : \A j \in DOMAIN Dependents[u] :
                 BarrierEdge(u, j) = BarrierEdge(b, i) => u = b /\ i = j
<1>1. i # 0 BY GraphAssumption
<1>2. QED BY <1>1, Zenon DEF CompletionEdge, BarrierEdge

\* A completion edge names its source.
LEMMA CompletionEdgeInjective ==
    \A t, u : CompletionEdge(t) = CompletionEdge(u) => t = u
BY Zenon DEF CompletionEdge

\* The outstanding edges of a task can be counted.
LEMMA OutstandingFinite ==
    ASSUME NEW t \in Tasks
    PROVE  /\ IsFiniteSet(Outstanding(t))
           /\ Cardinality(Outstanding(t)) \in Nat
           /\ Cardinality(Outstanding(t)) = 0 <=> Outstanding(t) = {}
<1>1. Outstanding(t) \subseteq Edges BY Zenon DEF Outstanding, EdgesInto
<1>2. IsFiniteSet(Outstanding(t)) BY <1>1, GraphAssumption, FS_Subset, Zenon
<1>3. QED BY <1>2, FS_CardinalityType, FS_EmptySet, Zenon

\* A counter at zero means that no decrement is outstanding.
LEMMA PendingZero ==
    ASSUME PendingExact, NEW t \in Tasks
    PROVE  /\ pending[t] \in Nat
           /\ pending[t] = 0 <=> Outstanding(t) = {}
BY OutstandingFinite, Zenon DEF PendingExact

\* A step that moves built tasks only and delivers nothing keeps the counts.
LEMMA CountsKept ==
    ASSUME TypeOK, PendingExact, UNCHANGED <<pending, delivered>>,
           \A t \in Tasks : where'[t] = "absent" <=> where[t] = "absent"
    PROVE  /\ PendingExact'
           /\ \A t \in Tasks : Outstanding(t)' = Outstanding(t)
<1>1. ASSUME NEW t \in Tasks PROVE Outstanding(t)' = Outstanding(t)
  BY EdgeKinds, Zenon DEF Outstanding, EdgesInto
<1>2. QED BY <1>1, Zenon DEF PendingExact

\* A decrement keeps the counts exact.
LEMMA NotifyCounts ==
    ASSUME TypeOK, PendingExact, NEW e \in Edges, e \in Outstanding(e[3]),
           delivered' = delivered \cup {e},
           pending' = [pending EXCEPT ![e[3]] = @ - 1],
           \A t \in Tasks : where'[t] = "absent" <=> where[t] = "absent"
    PROVE  /\ PendingExact'
           /\ pending[e[3]] \in Nat \ {0}
           /\ \A t \in Tasks : Outstanding(t)' = Outstanding(t) \ {e}
<1>1. e[3] \in Tasks BY EdgeKinds, Zenon
<1>2. ASSUME NEW t \in Tasks PROVE Outstanding(t)' = Outstanding(t) \ {e}
  BY EdgeKinds, Zenon DEF Outstanding, EdgesInto
<1>3. ASSUME NEW t \in Tasks, t # e[3] PROVE Outstanding(t)' = Outstanding(t)
  BY <1>2, <1>3, Zenon DEF Outstanding, EdgesInto
<1>4. Cardinality(Outstanding(e[3])') = Cardinality(Outstanding(e[3])) - 1
  BY <1>1, <1>2, OutstandingFinite, FS_RemoveElement
<1>5. PendingExact' BY <1>1, <1>3, <1>4, Zenon DEF PendingExact, TypeOK
<1>6. pending[e[3]] \in Nat \ {0} BY <1>1, PendingZero, Zenon
<1>7. QED BY <1>2, <1>5, <1>6, Zenon

\* Building a spawned task adds exactly the edge to its completion task.
LEMMA SpawnCounts ==
    ASSUME TypeOK, PendingExact, CompletionDelivered,
           NEW t \in Tasks, NEW s \in Spawns[t], where[s] = "absent",
           UNCHANGED delivered,
           pending' = [c \in Tasks |-> IF c = Completion[s] THEN pending[c] + 1
                                                            ELSE pending[c]],
           NEW stage, stage # "absent", where' = [where EXCEPT ![s] = stage]
    PROVE  /\ PendingExact'
           /\ \A c \in Tasks : Outstanding(c)' =
                 IF c = Completion[s] THEN Outstanding(c) \cup {CompletionEdge(s)}
                                      ELSE Outstanding(c)
<1>1. s \in Tasks /\ Type[s] # "BARRIER"
  <2>1. s \in Tasks BY GraphAssumption, Zenon
  <2>2. Type[t] \in {"CALL", "DISPATCH"} BY SpawnAssumption, Zenon
  <2>3. QED BY <2>1, <2>2, SpawnAssumption, Zenon
<1>2. \A e \in Edges : e[1] = s => e = CompletionEdge(s) /\ Completion[s] = e[3] /\ Completion[s] # NoTask
  BY <1>1, EdgeKinds, BarrierEdgeFacts, Zenon
<1>3. ASSUME NEW c \in Tasks PROVE Outstanding(c)' =
          IF c = Completion[s] THEN Outstanding(c) \cup {CompletionEdge(s)} ELSE Outstanding(c)
  <2>1. Completion[s] = c => /\ Completion[s] # NoTask
                             /\ CompletionEdge(s) \in EdgesInto(c)
                             /\ CompletionEdge(s) \notin delivered
                             /\ CompletionEdge(s)[1] = s
    <3>1. SUFFICES ASSUME Completion[s] = c
                   PROVE  /\ Completion[s] # NoTask
                          /\ CompletionEdge(s) \in EdgesInto(c)
                          /\ CompletionEdge(s) \notin delivered
                          /\ CompletionEdge(s)[1] = s
      OBVIOUS
    <3>2. Completion[s] # NoTask BY <3>1, GraphAssumption, Zenon
    <3>3. /\ CompletionEdge(s) \in Edges /\ CompletionEdge(s)[1] = s
          /\ CompletionEdge(s)[3] = c
      BY <1>1, <3>1, <3>2, CompletionEdgeFacts, Zenon
    <3>4. CompletionEdge(s) \notin delivered
      BY <1>1, <3>2, Zenon DEF CompletionDelivered, Gone
    <3>5. QED BY <3>2, <3>3, <3>4, Zenon DEF EdgesInto
  <2>2. \A e \in EdgesInto(c) : e[1] \in Tasks BY EdgeKinds, Zenon DEF EdgesInto
  <2>3. QED BY <1>1, <1>2, <2>1, <2>2, Zenon DEF Outstanding, EdgesInto, TypeOK
<1>4. CompletionEdge(s) \notin Outstanding(Completion[s])
  BY Zenon DEF Outstanding, CompletionEdge
<1>5. ASSUME NEW c \in Tasks, c = Completion[s]
      PROVE  Cardinality(Outstanding(c)') = Cardinality(Outstanding(c)) + 1
  <2>1. Outstanding(c)' = Outstanding(c) \cup {CompletionEdge(s)} BY <1>3, <1>5, Zenon
  <2>2. CompletionEdge(s) \notin Outstanding(c) BY <1>4, <1>5, Zenon
  <2>3. IsFiniteSet(Outstanding(c)) BY OutstandingFinite, Zenon
  <2>4. QED BY <2>1, <2>2, <2>3, FS_AddElement, Zenon
<1>6. PendingExact' BY <1>3, <1>5, Zenon DEF PendingExact, TypeOK
<1>7. QED BY <1>3, <1>6, Zenon

\* The initial state satisfies the inductive invariant.
LEMMA InitIInv == Init => IInv
<1> SUFFICES ASSUME Init PROVE IInv OBVIOUS
<1>1. ASSUME NEW t \in Tasks
      PROVE  /\ Outstanding(t) = {e \in EdgesInto(t) : e[1] \notin Spawned}
             /\ pending[t] = Cardinality(Outstanding(t))
  <2>1. \A e \in EdgesInto(t) : e[1] \in Tasks BY EdgeKinds, Zenon DEF EdgesInto
  <2>2. QED BY <2>1, Zenon DEF Init, Outstanding
<1>2. PendingExact BY <1>1, Zenon DEF PendingExact
<1>3. TypeOK
  <2>1. pending \in [Tasks -> Nat] BY <1>1, OutstandingFinite, Zenon DEF Init
  <2>2. scope \in Nat
    <3>1. {t \in Tasks : Type[t] = "FENCE"} \subseteq Tasks OBVIOUS
    <3>2. QED BY <3>1, GraphAssumption, FS_Subset, FS_CardinalityType, Zenon DEF Init
  <2>3. QED BY <2>1, <2>2, Zenon DEF Init, TypeOK, Stages, Procs
<1>4. NoTaskForgotten /\ QueuedMeansReady
  BY <1>3 DEF Init, TypeOK, NoTaskForgotten, QueuedMeansReady
<1>5. StageTypes
  <2>1. \A t \in Tasks : Type[t] = "SHARD" => t \in Spawned BY SpawnAssumption, Zenon
  <2>2. QED BY <2>1, Zenon DEF Init, StageTypes
<1>6. CompletionDelivered /\ BarrierDelivered
  BY Zenon DEF Init, CompletionDelivered, BarrierDelivered, Gone
<1>7. ParentWillSpawn
  <2>1. \A t \in Tasks : \A s \in Spawns[t] : s \in Spawned /\ s \in Tasks
    BY GraphAssumption, Zenon DEF Spawned
  <2>2. QED BY <2>1, Zenon DEF Init, ParentWillSpawn, Queued
<1>8. SpawnsInHand /\ ActiveWaitsForSpawns
  BY Zenon DEF Init, SpawnsInHand, ActiveWaitsForSpawns
<1>9. ScopeExact
  <2>1. {t \in Tasks : Type[t] = "FENCE" /\ where[t] \notin Gone \cup {"retiring"}}
          = {t \in Tasks : Type[t] = "FENCE"}
    BY Zenon DEF Init, Gone
  <2>2. QED BY <2>1, Zenon DEF Init, ScopeExact
<1>10. QED BY <1>2, <1>3, <1>4, <1>5, <1>6, <1>7, <1>8, <1>9, Zenon DEF IInv

-----------------------------------------------------------------------------
\* What every move of one built task between stages preserves, as long as it
\* does not pass the decrement of its completion edge.
LEMMA MoveTask ==
    ASSUME IInv, NEW t \in Tasks, NEW stage \in Stages, NEW p \in Procs \cup {NoProc},
           Place(t, stage, p), UNCHANGED <<pending, delivered>>,
           where[t] # "absent", stage # "absent",
           (where[t] \in Gone <=> stage \in Gone) \/ Completion[t] = NoTask,
           stage = "idle" => pending[t] > 0,
           stage \notin {"idle", "active"} => pending[t] = 0,
           stage = "active" /\ where[t] # "active" => pending[t] = 0,
           Type[t] = "BARRIER" =>
               /\ stage \in {"active", "retiring"} \cup Gone
                     \/ where[t] \notin {"active", "retiring"} \cup Gone
               /\ stage \in {"retiring"} \cup Gone => BarrierEdges(t) \subseteq delivered
    PROVE  /\ PendingExact' /\ NoTaskForgotten' /\ QueuedMeansReady'
           /\ CompletionDelivered' /\ BarrierDelivered' /\ ActiveWaitsForSpawns'
           /\ where' \in [Tasks -> Stages]
           /\ holder' \in [Tasks -> Procs \cup {NoProc}]
           /\ pending' \in [Tasks -> Nat]
<1>1. /\ where' = [where EXCEPT ![t] = stage]
      /\ holder' = [holder EXCEPT ![t] = p]
      /\ TypeOK
  BY Zenon DEF Place, IInv
<1>2. \A u \in Tasks : where'[u] = "absent" <=> where[u] = "absent"
  BY <1>1, Zenon DEF TypeOK
<1>3. PendingExact' /\ \A u \in Tasks : Outstanding(u)' = Outstanding(u)
  BY <1>1, <1>2, CountsKept, Zenon DEF IInv
<1>4. NoTaskForgotten' /\ QueuedMeansReady'
  BY <1>1, Zenon DEF IInv, TypeOK, NoTaskForgotten, QueuedMeansReady
<1>5. CompletionDelivered'
  BY <1>1, Zenon DEF IInv, TypeOK, CompletionDelivered
<1>6. BarrierDelivered'
  <2>1. SUFFICES ASSUME NEW b \in Tasks, NEW i \in DOMAIN Dependents[b]
                 PROVE  /\ BarrierEdge(b, i) \in delivered => where'[b] \in Gone \cup {"active", "retiring"}
                        /\ where'[b] \in Gone \cup {"retiring"} => BarrierEdge(b, i) \in delivered
    BY Zenon DEF BarrierDelivered
  <2>2. Type[b] = "BARRIER" /\ BarrierEdge(b, i) \in BarrierEdges(b)
    BY BarrierEdgeFacts, Zenon DEF BarrierEdges
  <2>3. QED BY <1>1, <2>2, Zenon DEF IInv, TypeOK, BarrierDelivered
<1>7. ActiveWaitsForSpawns'
  <2>1. stage = "active" /\ where[t] # "active" => Outstanding(t) = {}
    BY PendingZero, Zenon DEF IInv
  <2>2. QED BY <1>1, <1>3, <2>1, Zenon DEF IInv, TypeOK, ActiveWaitsForSpawns
<1>8. QED BY <1>1, <1>3, <1>4, <1>5, <1>6, <1>7, Zenon DEF TypeOK

\* Moves that do not involve a fence at its end keep the scope's count.
LEMMA ScopeKept ==
    ASSUME ScopeExact, UNCHANGED scope,
           \A t \in Tasks : Type[t] = "FENCE" =>
               (where'[t] \in Gone \cup {"retiring"} <=> where[t] \in Gone \cup {"retiring"})
    PROVE  ScopeExact'
<1>1. {t \in Tasks : Type[t] = "FENCE" /\ where'[t] \notin Gone \cup {"retiring"}}
        = {t \in Tasks : Type[t] = "FENCE" /\ where[t] \notin Gone \cup {"retiring"}}
  OBVIOUS
<1>2. QED BY <1>1, Zenon DEF ScopeExact

\* A move keeps the promise that unspawned tasks have a parent to spawn them.
LEMMA ParentKept ==
    ASSUME IInv, NEW t \in Tasks, NEW stage, NEW p, Place(t, stage, p),
           where[t] # "absent", stage # "absent",
           issued \subseteq issued', issued' \subseteq issued \cup {t},
           \A s \in Spawns[t] : where[s] = "absent" =>
               /\ stage \in Queued \cup {"idle", "active"}
               /\ stage # "active" => t \notin issued'
    PROVE  ParentWillSpawn'
<1>1. \A u \in Tasks : \A s \in Spawns[u] : s \in Tasks /\ s # u
  BY GraphAssumption, SpawnAssumption, Zenon
<1>2. QED BY <1>1, Zenon DEF IInv, TypeOK, ParentWillSpawn, Place

\* A task that an active task could have in hand is not moved by others.
LEMMA InHandKept ==
    ASSUME IInv, NEW t \in Tasks, NEW stage, NEW p, Place(t, stage, p),
           \/ where[t] \in {"incoming", "waiting", "posted", "active", "retiring"} \cup Gone
           \/ where[t] = "local" /\ holder[t] = Coordinator,
           where[t] \in Gone => stage \in Gone,
           stage = "active" => \A s \in Spawns[t] : Completion[s] = t =>
               where[s] = "absent" \/ (Type[t] = "CALL" /\ where[s] \in Gone)
    PROVE  SpawnsInHand'
<1>1. SUFFICES ASSUME NEW u \in Tasks, NEW s \in Spawns[u], where'[u] = "active", Completion[s] = u
               PROVE  \/ where'[s] = "absent"
                      \/ Type[u] = "DISPATCH" /\ where'[s] = "batch"
                      \/ Type[u] = "CALL" /\ where'[s] = "local" /\ holder'[s] = holder'[u]
                      \/ Type[u] = "CALL" /\ where'[s] \in Gone
  BY Zenon DEF SpawnsInHand
<1>2. s \in Tasks /\ s # u BY GraphAssumption, SpawnAssumption, Zenon
<1>3. CASE u = t BY <1>1, <1>2, <1>3, Zenon DEF IInv, TypeOK, Place
<1>4. CASE u # t
  <2>1. where[u] = "active" /\ holder'[u] = holder[u]
    BY <1>1, <1>4, Zenon DEF IInv, TypeOK, Place
  <2>2. \/ where[s] = "absent"
        \/ Type[u] = "DISPATCH" /\ where[s] = "batch"
        \/ Type[u] = "CALL" /\ where[s] = "local" /\ holder[s] = holder[u]
        \/ Type[u] = "CALL" /\ where[s] \in Gone
    BY <1>1, <2>1, Zenon DEF IInv, SpawnsInHand
  <2>3. Type[u] = "CALL" => holder[u] # Coordinator
    BY <2>1, ProcsAssumption, Zenon DEF IInv, StageTypes
  <2>4. s = t => Type[u] = "CALL" /\ where[s] \in Gone BY <2>2, <2>3, Zenon DEF Gone
  <2>5. QED BY <1>2, <2>1, <2>2, <2>4, Zenon DEF IInv, TypeOK, Place
<1>5. QED BY <1>3, <1>4, Zenon

-----------------------------------------------------------------------------
(* The steps that move one task and touch no counter.                      *)

\* The coordinator's moves of one task.
LEMMA CoordinatorMoves ==
    ASSUME IInv, NEW t \in Tasks,
           \/ RelayToWorker(t) \/ ScheduleNop(t) \/ ScheduleBarrierOrFence(t)
           \/ ScheduleWait(t) \/ ScheduleDispatch(t) \/ WakeWaitingTask(t)
    PROVE  IInv'
<1> DEFINE stage == where'[t]
           p == holder'[t]
<1>1. /\ stage \in {"batch", "retiring", "active", "waiting", "local"}
      /\ p \in Procs \cup {NoProc}
      /\ Place(t, stage, p) /\ UNCHANGED <<pending, delivered, signaled, scope>>
      /\ where[t] \in {"local", "incoming", "waiting"}
      /\ where[t] = "local" => holder[t] = Coordinator
      /\ resolved' \subseteq Tasks
      /\ issued' \subseteq Tasks /\ issued \subseteq issued' /\ issued' \subseteq issued \cup {t}
      /\ t \in issued' \ issued => stage = "active" /\ Type[t] = "DISPATCH"
  BY Zenon DEF IInv, TypeOK, RelayToWorker, ScheduleNop, ScheduleBarrierOrFence, ScheduleWait,
         ScheduleDispatch, WakeWaitingTask, Pops, Place, Procs
<1>2. /\ stage = "batch" => Type[t] = "CALL"
      /\ stage = "retiring" => /\ p = Coordinator
                               /\ Type[t] \in {"NOP", "WAIT"} \/ (Type[t] = "DISPATCH" /\ t \in issued)
      /\ stage = "active" => /\ p = Coordinator
                             /\ Type[t] \in {"BARRIER", "FENCE", "DISPATCH"}
                             /\ Type[t] = "DISPATCH" => t \in issued' /\ t \notin issued
      /\ stage = "waiting" => Type[t] = "WAIT"
      /\ stage = "local" => Type[t] = "WAIT"
  BY Zenon DEF IInv, TypeOK, StageTypes, RelayToWorker, ScheduleNop, ScheduleBarrierOrFence,
     ScheduleWait, ScheduleDispatch, WakeWaitingTask, Pops, Place
<1>3. stage \in Stages BY <1>1, Zenon DEF Stages
<1>4. pending[t] = 0 BY <1>1, Zenon DEF IInv, QueuedMeansReady
<1>5. \A s \in Spawns[t] : where[s] = "absent" => t \notin issued
  BY <1>1, Zenon DEF IInv, ParentWillSpawn
<1>6. ASSUME NEW s \in Spawns[t], stage = "retiring" PROVE where[s] # "absent"
  BY <1>1, <1>2, <1>5, <1>6, SpawnAssumption, Zenon
<1>7. ASSUME NEW s \in Spawns[t], stage = "active" PROVE where[s] = "absent"
  BY <1>2, <1>7, SpawnAssumption, Zenon DEF IInv, ParentWillSpawn
<1>8. TypeOK' /\ StageTypes'
  <2>1. where' \in [Tasks -> Stages] /\ holder' \in [Tasks -> Procs \cup {NoProc}]
    BY <1>1, <1>3 DEF IInv, TypeOK, Place
  <2>2. TypeOK' BY <1>1, <2>1, Zenon DEF IInv, TypeOK
  <2>3. StageTypes' BY <1>1, <1>2, Zenon DEF IInv, TypeOK, StageTypes, Place
  <2>4. QED BY <2>2, <2>3, Zenon
<1>9. ScopeExact' BY <1>1, <1>2, ScopeKept, Zenon DEF IInv, TypeOK, Place, Gone
<1>10. Type[t] = "BARRIER" => stage = "active" BY <1>1, <1>2, Zenon
<1> HIDE DEF stage, p
<1>11. /\ PendingExact' /\ NoTaskForgotten' /\ QueuedMeansReady'
       /\ CompletionDelivered' /\ BarrierDelivered' /\ ActiveWaitsForSpawns'
  BY <1>1, <1>3, <1>4, <1>10, MoveTask, Zenon DEF Gone
<1>12. ParentWillSpawn'
  BY <1>1, <1>5, <1>6, ParentKept, Zenon DEF Queued
<1>13. SpawnsInHand'
  BY <1>1, <1>7, InHandKept, Zenon DEF Gone
<1>14. QED BY <1>8, <1>9, <1>11, <1>12, <1>13, Zenon DEF IInv

\* A dispatch that has been issued, and a barrier that has walked its dependents.
LEMMA IssueOrWalkDone ==
    ASSUME IInv, NEW t \in Tasks, IssueDone(t) \/ BarrierDone(t)
    PROVE  IInv'
<1> DEFINE stage == where'[t]
           p == holder'[t]
<1>1. /\ stage \in {"retiring", "idle"} /\ p \in Procs \cup {NoProc}
      /\ Place(t, stage, p)
      /\ UNCHANGED <<pending, issued, resolved, signaled, delivered, scope>>
      /\ where[t] = "active" /\ Type[t] \in {"DISPATCH", "BARRIER"}
      /\ Type[t] = "BARRIER" => stage = "retiring" /\ BarrierEdges(t) \subseteq delivered
      /\ Type[t] = "DISPATCH" => /\ \A s \in Spawns[t] : where[s] # "absent"
                                 /\ stage = "idle" <=> Spawns[t] # {}
  BY Zenon DEF IInv, TypeOK, IssueDone, BarrierDone, Place, Procs
<1>2. stage \in Stages BY <1>1, Zenon DEF Stages
<1>3. stage = "idle" => pending[t] > 0
  <2>1. SUFFICES ASSUME stage = "idle" PROVE pending[t] > 0 OBVIOUS
  <2>2. PICK s \in Spawns[t] : TRUE BY <1>1, <2>1, Zenon
  <2>3. s \in Tasks /\ Completion[s] = t BY <1>1, <2>1, GraphAssumption, SpawnAssumption, Zenon
  <2>4. where[s] = "batch" BY <1>1, <2>1, <2>3, Zenon DEF IInv, SpawnsInHand
  <2>5. Completion[s] # NoTask BY <2>3, GraphAssumption, Zenon
  <2>6. CompletionEdge(s) \in Outstanding(t)
    BY <2>3, <2>4, <2>5, CompletionEdgeFacts, Zenon DEF IInv, CompletionDelivered, Outstanding,
       EdgesInto, Gone
  <2>7. QED BY <2>6, PendingZero DEF IInv
<1>4. stage = "retiring" => pending[t] = 0
  <2>1. stage = "retiring" => Spawns[t] = {} BY <1>1, SpawnAssumption, Zenon
  <2>2. stage = "retiring" => Outstanding(t) = {}
    BY <1>1, <2>1, Zenon DEF IInv, ActiveWaitsForSpawns
  <2>3. QED BY <2>2, PendingZero, Zenon DEF IInv
<1>5. TypeOK' /\ StageTypes'
  <2>1. where' \in [Tasks -> Stages] /\ holder' \in [Tasks -> Procs \cup {NoProc}]
    BY <1>1, <1>2, Zenon DEF IInv, TypeOK, Place
  <2>2. TypeOK' BY <1>1, <2>1, Zenon DEF IInv, TypeOK
  <2>3. StageTypes' BY <1>1, Zenon DEF IInv, TypeOK, StageTypes, Place
  <2>4. QED BY <2>2, <2>3, Zenon
<1>6. ScopeExact' BY <1>1, ScopeKept, Zenon DEF IInv, TypeOK, Place, Gone
<1>7. \A s \in Spawns[t] : where[s] # "absent" BY <1>1, SpawnAssumption, Zenon
<1> HIDE DEF stage, p
<1>8. /\ PendingExact' /\ NoTaskForgotten' /\ QueuedMeansReady'
      /\ CompletionDelivered' /\ BarrierDelivered' /\ ActiveWaitsForSpawns'
  BY <1>1, <1>2, <1>3, <1>4, MoveTask, Zenon DEF Gone
<1>9. ParentWillSpawn' BY <1>1, <1>7, ParentKept, Zenon
<1>10. SpawnsInHand' BY <1>1, InHandKept, Zenon DEF Gone
<1>11. QED BY <1>5, <1>6, <1>8, <1>9, <1>10, Zenon DEF IInv

\* A fence ends its submission.
LEMMA FenceEnds ==
    ASSUME IInv, NEW t \in Tasks, FenceRetire(t)
    PROVE  IInv'
<1> DEFINE Open == {u \in Tasks : Type[u] = "FENCE" /\ where[u] \notin Gone \cup {"retiring"}}
<1>1. /\ Type[t] = "FENCE" /\ where[t] = "active" /\ Place(t, "retiring", Coordinator)
      /\ scope' = scope - 1
      /\ UNCHANGED <<pending, issued, resolved, signaled, delivered>>
      /\ "retiring" \in Stages /\ Coordinator \in Procs \cup {NoProc}
  BY Zenon DEF FenceRetire, Stages, Procs
<1>2. Open' = Open \ {t} /\ t \in Open BY <1>1, Zenon DEF IInv, TypeOK, Place, Gone
<1>3. /\ IsFiniteSet(Open) /\ Cardinality(Open) \in Nat
      /\ Cardinality(Open \ {t}) = Cardinality(Open) - 1
      /\ Cardinality(Open \ {t}) \in Nat
  <2>1. Open \subseteq Tasks OBVIOUS
  <2>2. IsFiniteSet(Open) BY <2>1, GraphAssumption, FS_Subset, Zenon
  <2>3. IsFiniteSet(Open \ {t}) BY <2>2, FS_RemoveElement, Zenon
  <2>4. QED BY <1>2, <2>2, <2>3, FS_RemoveElement, FS_CardinalityType, Zenon
<1>4. scope = Cardinality(Open) BY Zenon DEF IInv, ScopeExact
<1>5. scope' = Cardinality(Open') /\ scope' \in Nat BY <1>1, <1>2, <1>3, <1>4, Zenon
<1>6. ScopeExact' BY <1>5, Zenon DEF ScopeExact
<1>7. Spawns[t] = {} BY <1>1, SpawnAssumption, Zenon
<1>8. pending[t] = 0
  <2>1. Outstanding(t) = {} BY <1>1, <1>7, Zenon DEF IInv, ActiveWaitsForSpawns
  <2>2. QED BY <2>1, PendingZero, Zenon DEF IInv
<1>9. TypeOK' /\ StageTypes'
  <2>1. where' \in [Tasks -> Stages] /\ holder' \in [Tasks -> Procs \cup {NoProc}]
    BY <1>1, Zenon DEF IInv, TypeOK, Place
  <2>2. TypeOK' BY <1>1, <1>5, <2>1, Zenon DEF IInv, TypeOK
  <2>3. StageTypes' BY <1>1, Zenon DEF IInv, TypeOK, StageTypes, Place
  <2>4. QED BY <2>2, <2>3, Zenon
<1>10. /\ PendingExact' /\ NoTaskForgotten' /\ QueuedMeansReady'
       /\ CompletionDelivered' /\ BarrierDelivered' /\ ActiveWaitsForSpawns'
  BY <1>1, <1>8, MoveTask, Zenon DEF Gone
<1>11. ParentWillSpawn' BY <1>1, <1>7, ParentKept, Zenon
<1>12. SpawnsInHand' BY <1>1, InHandKept, Zenon DEF Gone
<1>13. QED BY <1>6, <1>9, <1>10, <1>11, <1>12, Zenon DEF IInv

\* A worker takes a task, and leaves a call or a shard.
LEMMA WorkerMoves ==
    ASSUME IInv, NEW t \in Tasks, NEW w \in Workers,
           WorkerTake(w, t) \/ CallReturn(w, t) \/ ShardExecute(w, t)
    PROVE  IInv'
<1> DEFINE stage == where'[t]
           p == holder'[t]
<1>1. /\ stage \in {"active", "retiring", "idle", "abandoned"} /\ p \in Procs \cup {NoProc}
      /\ Place(t, stage, p)
      /\ UNCHANGED <<pending, resolved, signaled, delivered, scope>>
      /\ issued' \subseteq Tasks /\ issued \subseteq issued' /\ issued' \subseteq issued \cup {t}
      /\ where[t] = (IF stage = "active" THEN "posted" ELSE "active")
      /\ stage = "active" => p = w /\ issued' = issued
      /\ stage # "active" => \/ Type[t] = "CALL" /\ \A s \in Spawns[t] : where[s] # "absent"
                             \/ Type[t] = "SHARD"
      /\ stage = "idle" => pending[t] # 0
      /\ stage \notin {"idle", "active"} => pending[t] = 0 \/ Type[t] = "SHARD"
  BY Zenon DEF IInv, TypeOK, WorkerTake, CallReturn, ShardExecute, Place, Procs
<1>2. stage \in Stages BY <1>1, Zenon DEF Stages
<1>3. Type[t] \in {"CALL", "SHARD"} BY <1>1, Zenon DEF IInv, StageTypes
<1>4. Type[t] = "SHARD" => Spawns[t] = {} BY SpawnAssumption, Zenon
<1>5. stage = "active" \/ Type[t] = "SHARD" => pending[t] = 0
  <2>1. stage = "active" => pending[t] = 0 BY <1>1, Zenon DEF IInv, QueuedMeansReady
  <2>2. Type[t] = "SHARD" /\ stage # "active" => Outstanding(t) = {}
    BY <1>1, <1>4, Zenon DEF IInv, ActiveWaitsForSpawns
  <2>3. QED BY <2>1, <2>2, PendingZero, Zenon DEF IInv
<1>6. stage = "idle" => pending[t] > 0 BY <1>1 DEF IInv, TypeOK
<1>7. ASSUME stage = "active", NEW s \in Spawns[t], Completion[s] = t
      PROVE  where[s] = "absent" \/ (Type[t] = "CALL" /\ where[s] \in Gone)
  <2>1. Outstanding(t) = {} BY <1>5, <1>7, PendingZero, Zenon DEF IInv
  <2>2. s \in Tasks /\ Completion[s] # NoTask BY <1>7, GraphAssumption, Zenon
  <2>3. CompletionEdge(s) \in EdgesInto(t) /\ CompletionEdge(s)[1] = s
    BY <1>7, <2>2, CompletionEdgeFacts, Zenon DEF EdgesInto
  <2>4. where[s] = "absent" \/ CompletionEdge(s) \in delivered
    BY <2>1, <2>3, Zenon DEF Outstanding
  <2>5. QED BY <1>3, <1>4, <2>2, <2>4, Zenon DEF IInv, CompletionDelivered
<1>8. TypeOK' /\ StageTypes'
  <2>1. where' \in [Tasks -> Stages] /\ holder' \in [Tasks -> Procs \cup {NoProc}]
    BY <1>1, <1>2, Zenon DEF IInv, TypeOK, Place
  <2>2. TypeOK' BY <1>1, <2>1, Zenon DEF IInv, TypeOK
  <2>3. StageTypes' BY <1>1, <1>3 DEF IInv, TypeOK, StageTypes, Place
  <2>4. QED BY <2>2, <2>3, Zenon
<1>9. ScopeExact' BY <1>1, <1>3, ScopeKept, Zenon DEF IInv, TypeOK, Place, Gone
<1>10. \A s \in Spawns[t] : where[s] = "absent" => stage = "active"
  BY <1>1, <1>4, Zenon
<1> HIDE DEF stage, p
<1>11. /\ PendingExact' /\ NoTaskForgotten' /\ QueuedMeansReady'
       /\ CompletionDelivered' /\ BarrierDelivered' /\ ActiveWaitsForSpawns'
  BY <1>1, <1>2, <1>3, <1>5, <1>6, MoveTask, Zenon DEF Gone
<1>12. ParentWillSpawn' BY <1>1, <1>10, ParentKept, Zenon
<1>13. SpawnsInHand' BY <1>1, <1>7, InHandKept, Zenon DEF Gone
<1>14. QED BY <1>8, <1>9, <1>11, <1>12, <1>13, Zenon DEF IInv

\* The second half of iree_task_retire.
LEMMA CleansUp ==
    ASSUME IInv, NEW t \in Tasks, NEW p \in Procs, Cleanup(p, t)
    PROVE  IInv'
<1>1. /\ where[t] = "released" /\ Place(t, "retired", NoProc)
      /\ UNCHANGED <<pending, issued, resolved, signaled, delivered, scope>>
      /\ "retired" \in Stages
  BY Zenon DEF Cleanup, Stages
<1>2. pending[t] = 0 BY <1>1, Zenon DEF IInv, QueuedMeansReady
<1>3. Type[t] = "BARRIER" => BarrierEdges(t) \subseteq delivered
  BY <1>1, Zenon DEF IInv, BarrierDelivered, BarrierEdges, Gone
<1>4. TypeOK' /\ StageTypes'
  <2>1. where' \in [Tasks -> Stages] /\ holder' \in [Tasks -> Procs \cup {NoProc}]
    BY <1>1, Zenon DEF IInv, TypeOK, Place
  <2>2. TypeOK' BY <1>1, <2>1, Zenon DEF IInv, TypeOK
  <2>3. StageTypes' BY <1>1, Zenon DEF IInv, TypeOK, StageTypes, Place
  <2>4. QED BY <2>2, <2>3, Zenon
<1>5. ScopeExact' BY <1>1, ScopeKept, Zenon DEF IInv, TypeOK, Place, Gone
<1>6. /\ PendingExact' /\ NoTaskForgotten' /\ QueuedMeansReady'
      /\ CompletionDelivered' /\ BarrierDelivered' /\ ActiveWaitsForSpawns'
  BY <1>1, <1>2, <1>3, MoveTask, Zenon DEF Gone
<1>7. \A s \in Spawns[t] : where[s] # "absent"
  BY <1>1, Zenon DEF IInv, ParentWillSpawn, Queued
<1>8. ParentWillSpawn' BY <1>1, <1>7, ParentKept, Zenon
<1>9. SpawnsInHand' BY <1>1, InHandKept, Zenon DEF Gone
<1>10. QED BY <1>4, <1>5, <1>6, <1>8, <1>9, Zenon DEF IInv

\* The first half of iree_task_retire for a task without a completion task.
LEMMA RetiresAlone ==
    ASSUME IInv, NEW t \in Tasks, NEW p \in Procs, Retire(p, t), Completion[t] = NoTask
    PROVE  IInv'
<1>1. /\ where[t] = "retiring" /\ where' = [where EXCEPT ![t] = "released"]
      /\ UNCHANGED <<pending, holder, issued, resolved, signaled, delivered, scope>>
      /\ "released" \in Stages
  BY Zenon DEF Retire, Stages
<1>2. Place(t, "released", holder[t]) BY <1>1, Zenon DEF Place, IInv, TypeOK
<1>3. holder[t] \in Procs \cup {NoProc} BY Zenon DEF IInv, TypeOK
<1>4. pending[t] = 0 BY <1>1, Zenon DEF IInv, QueuedMeansReady
<1>5. Type[t] = "BARRIER" => BarrierEdges(t) \subseteq delivered
  BY <1>1, Zenon DEF IInv, BarrierDelivered, BarrierEdges, Gone
<1>6. TypeOK' /\ StageTypes'
  <2>1. where' \in [Tasks -> Stages] BY <1>1, Zenon DEF IInv, TypeOK
  <2>2. TypeOK' BY <1>1, <2>1, Zenon DEF IInv, TypeOK
  <2>3. StageTypes' BY <1>1, Zenon DEF IInv, TypeOK, StageTypes
  <2>4. QED BY <2>2, <2>3, Zenon
<1>7. ScopeExact' BY <1>1, ScopeKept, Zenon DEF IInv, TypeOK, Gone
<1>8. /\ PendingExact' /\ NoTaskForgotten' /\ QueuedMeansReady'
      /\ CompletionDelivered' /\ BarrierDelivered' /\ ActiveWaitsForSpawns'
  BY <1>1, <1>2, <1>3, <1>4, <1>5, MoveTask, Zenon DEF Gone
<1>9. \A s \in Spawns[t] : where[s] # "absent"
  BY <1>1, Zenon DEF IInv, ParentWillSpawn, Queued
<1>10. ParentWillSpawn' BY <1>1, <1>2, <1>9, ParentKept, Zenon
<1>11. SpawnsInHand' BY <1>1, <1>2, InHandKept, Zenon DEF Gone
<1>12. QED BY <1>6, <1>7, <1>8, <1>10, <1>11, Zenon DEF IInv

-----------------------------------------------------------------------------
(* The steps that change counters or move many tasks.                      *)

\* Nobody decrements a task that is in a list, in another thread's hands, not
\* built or already retired: the target of an edge about to be delivered is idle.
LEMMA TargetIsIdle ==
    ASSUME IInv, NEW e \in Edges, e \notin delivered,
           \/ where[e[1]] = "retiring"
           \/ where[e[1]] = "active" /\ Type[e[1]] = "BARRIER"
    PROVE  /\ where[e[3]] = "idle"
           /\ e \in Outstanding(e[3])
           /\ Type[e[3]] # "SHARD"
<1>1. e[1] \in Tasks /\ e[3] \in Tasks BY EdgeKinds, Zenon
<1>2. e \in Outstanding(e[3]) BY <1>1, Zenon DEF Outstanding, EdgesInto
<1>3. pending[e[3]] # 0 BY <1>1, <1>2, PendingZero, Zenon DEF IInv
<1>4. where[e[3]] \in {"absent", "idle", "active"}
  BY <1>1, <1>3, Zenon DEF IInv, QueuedMeansReady
<1>5. where[e[3]] # "absent"
  <2>1. SUFFICES ASSUME where[e[3]] = "absent" PROVE FALSE OBVIOUS
  <2>2. e[3] \in Spawned /\ e[3] \notin issued BY <1>1, <2>1, Zenon DEF IInv, StageTypes
  <2>3. PICK t \in Tasks : e[3] \in Spawns[t] BY <2>2, Zenon DEF Spawned
  <2>4. e[1] \in Spawns[e[3]] BY <2>3, SpawnAssumption, Zenon
  <2>5. where[e[1]] # "absent" => e[3] \in issued
    BY <1>1, <2>4, Zenon DEF IInv, ParentWillSpawn
  <2>6. QED BY <2>2, <2>5, Zenon
<1>6. where[e[3]] # "active"
  <2>1. SUFFICES ASSUME where[e[3]] = "active" PROVE FALSE OBVIOUS
  <2>2. e[1] \in Spawns[e[3]] BY <1>1, <1>2, <2>1, Zenon DEF IInv, ActiveWaitsForSpawns
  <2>3. Type[e[1]] # "BARRIER" BY <1>1, <2>2, SpawnAssumption
  <2>4. Completion[e[1]] = e[3] BY <1>1, <2>3, EdgeKinds, BarrierEdgeFacts, Zenon
  <2>5. where[e[1]] = "retiring" BY <2>3, Zenon
  <2>6. QED BY <1>1, <2>1, <2>2, <2>4, <2>5, Zenon DEF IInv, SpawnsInHand, Gone
<1>7. Type[e[3]] # "SHARD"
  <2>1. SUFFICES ASSUME Type[e[3]] = "SHARD" PROVE FALSE OBVIOUS
  <2>2. PICK t \in Tasks : e[3] \in Spawns[t] BY <1>1, <2>1, SpawnAssumption DEF Spawned
  <2>3. e[1] \in Spawns[e[3]] BY <2>2, SpawnAssumption, Zenon
  <2>4. QED BY <1>1, <2>1, <2>3, SpawnAssumption
<1>8. QED BY <1>2, <1>4, <1>5, <1>6, <1>7, Zenon

\* The decrement, by iree_task_retire and by iree_task_barrier_retire.
LEMMA Notifies ==
    ASSUME IInv, NEW p \in Procs, NEW e \in Edges, e \notin delivered,
           NEW stage, Notify(p, e, stage),
           UNCHANGED <<issued, resolved, signaled, scope>>,
           \/ /\ where[e[1]] = "retiring" /\ stage = "released"
              /\ e = CompletionEdge(e[1]) /\ Completion[e[1]] # NoTask
           \/ /\ where[e[1]] = "active" /\ stage = "active" /\ Type[e[1]] = "BARRIER"
              /\ \E i \in DOMAIN Dependents[e[1]] : e = BarrierEdge(e[1], i)
    PROVE  IInv'
<1> DEFINE f == e[1]
           c == e[3]
<1>1. f \in Tasks /\ c \in Tasks /\ f # c BY EdgeKinds, Zenon
<1>2. where[c] = "idle" /\ e \in Outstanding(c) /\ Type[c] # "SHARD" BY TargetIsIdle, Zenon
<1>3. /\ delivered' = delivered \cup {e}
      /\ pending' = [pending EXCEPT ![c] = @ - 1]
  BY Zenon DEF Notify
<1>4. /\ pending[c] # 1 => where' = [where EXCEPT ![f] = stage] /\ holder' = holder
      /\ pending[c] = 1 => /\ where' = [where EXCEPT ![f] = stage, ![c] = "local"]
                           /\ holder' = [holder EXCEPT ![c] = p]
  BY Zenon DEF Notify
<1>5. /\ where'[f] = stage /\ holder'[f] = holder[f]
      /\ where'[c] = (IF pending[c] = 1 THEN "local" ELSE "idle")
      /\ \A u \in Tasks \ {f, c} : where'[u] = where[u] /\ holder'[u] = holder[u]
      /\ where' \in [Tasks -> Stages] /\ holder' \in [Tasks -> Procs \cup {NoProc}]
  BY <1>1, <1>2, <1>4 DEF IInv, TypeOK, Stages
<1>6. \A u \in Tasks : where'[u] = "absent" <=> where[u] = "absent" BY <1>2, <1>5, Zenon
<1>7. /\ PendingExact' /\ pending[c] \in Nat \ {0}
      /\ \A u \in Tasks : Outstanding(u)' = Outstanding(u) \ {e}
  BY <1>2, <1>3, <1>6, NotifyCounts, Zenon DEF IInv
<1>8. pending' \in [Tasks -> Nat]
  <2>1. pending \in [Tasks -> Nat] BY Zenon DEF IInv, TypeOK
  <2>2. pending[c] - 1 \in Nat BY <1>7
  <2>3. QED BY ONLY <1>1, <1>3, <2>1, <2>2, Zenon
<1>9. TypeOK' BY <1>3, <1>5, <1>8, Zenon DEF IInv, TypeOK
<1>10. NoTaskForgotten' /\ QueuedMeansReady'
  <2>1. pending'[c] = pending[c] - 1 /\ \A u \in Tasks \ {c} : pending'[u] = pending[u]
    BY <1>1, <1>3, Zenon DEF IInv, TypeOK
  <2>2. stage = "released" => pending[f] = 0 BY <1>1, Zenon DEF IInv, QueuedMeansReady
  <2>3. QED BY <1>1, <1>5, <1>7, <2>1, <2>2 DEF IInv, NoTaskForgotten, QueuedMeansReady
<1>11. StageTypes' BY <1>1, <1>2, <1>5 DEF IInv, StageTypes
<1>12. CompletionDelivered'
  <2>1. SUFFICES ASSUME NEW u \in Tasks, Completion[u] # NoTask
                 PROVE  CompletionEdge(u) \in delivered' <=> where'[u] \in Gone
    BY Zenon DEF CompletionDelivered
  <2>2. CompletionEdge(u) \in delivered <=> where[u] \in Gone
    BY <2>1, Zenon DEF IInv, CompletionDelivered
  <2>3. CompletionEdge(u) = e <=> u = f /\ stage = "released"
    BY <1>1, EdgesDistinct, CompletionEdgeInjective
  <2>4. QED BY <1>2, <1>3, <1>5, <2>2, <2>3, Zenon DEF Gone
<1>13. BarrierDelivered'
  <2>1. SUFFICES ASSUME NEW b \in Tasks, NEW i \in DOMAIN Dependents[b]
                 PROVE  /\ BarrierEdge(b, i) \in delivered' => where'[b] \in Gone \cup {"active", "retiring"}
                        /\ where'[b] \in Gone \cup {"retiring"} => BarrierEdge(b, i) \in delivered'
    BY Zenon DEF BarrierDelivered
  <2>2. /\ BarrierEdge(b, i) \in delivered => where[b] \in Gone \cup {"active", "retiring"}
        /\ where[b] \in Gone \cup {"retiring"} => BarrierEdge(b, i) \in delivered
    BY Zenon DEF IInv, BarrierDelivered
  <2>3. BarrierEdge(b, i) = e => b = f BY BarrierEdgeFacts
  <2>4. QED BY <1>1, <1>2, <1>3, <1>5, <2>2, <2>3, Zenon DEF Gone
<1>14. ParentWillSpawn'
  <2>1. \A u \in Tasks : \A s \in Spawns[u] : s \in Tasks BY GraphAssumption, Zenon
  <2>2. \A s \in Spawns[f] : where[s] # "absent"
    BY <1>1, SpawnAssumption DEF IInv, ParentWillSpawn, Queued
  <2>3. QED BY <1>2, <1>5, <1>6, <2>1, <2>2 DEF IInv, ParentWillSpawn, Queued
<1>15. SpawnsInHand'
  <2>1. SUFFICES ASSUME NEW u \in Tasks, NEW s \in Spawns[u], where'[u] = "active", Completion[s] = u
                 PROVE  \/ where'[s] = "absent"
                        \/ Type[u] = "DISPATCH" /\ where'[s] = "batch"
                        \/ Type[u] = "CALL" /\ where'[s] = "local" /\ holder'[s] = holder'[u]
                        \/ Type[u] = "CALL" /\ where'[s] \in Gone
    BY Zenon DEF SpawnsInHand
  <2>2. s \in Tasks BY GraphAssumption, Zenon
  <2>3. where[u] = "active" /\ u # c /\ holder'[u] = holder[u] BY <1>1, <1>5, <2>1, Zenon
  <2>4. \/ where[s] = "absent"
        \/ Type[u] = "DISPATCH" /\ where[s] = "batch"
        \/ Type[u] = "CALL" /\ where[s] = "local" /\ holder[s] = holder[u]
        \/ Type[u] = "CALL" /\ where[s] \in Gone
    BY <2>1, <2>3, Zenon DEF IInv, SpawnsInHand
  <2>5. s # f /\ s # c BY <1>2, <2>4, Zenon DEF Gone
  <2>6. QED BY <1>5, <2>2, <2>3, <2>4, <2>5, Zenon
<1>16. ActiveWaitsForSpawns'
  BY <1>5, <1>7, Zenon DEF IInv, ActiveWaitsForSpawns
<1>17. ScopeExact'
  <2>1. Type[f] = "FENCE" => where[f] = "retiring" OBVIOUS
  <2>2. \A u \in Tasks : Type[u] = "FENCE" =>
          (where'[u] \in Gone \cup {"retiring"} <=> where[u] \in Gone \cup {"retiring"})
    BY <1>1, <1>2, <1>5, <2>1, Zenon DEF Gone
  <2>3. QED BY <2>2, ScopeKept, Zenon DEF IInv
<1>18. QED BY <1>7, <1>9, <1>10, <1>11, <1>12, <1>13, <1>14, <1>15, <1>16, <1>17, Zenon DEF IInv

-----------------------------------------------------------------------------
\* Building a shard or a nested task and linking it to its completion task.
LEMMA SpawnsOne ==
    ASSUME IInv, NEW t \in Tasks, NEW s \in Spawns[t],
           where[t] = "active", where[s] = "absent",
           NEW stage, where' = [where EXCEPT ![s] = stage],
           pending' = [c \in Tasks |-> IF c = Completion[s] THEN pending[c] + 1 ELSE pending[c]],
           issued' = issued \cup {t},
           UNCHANGED <<resolved, signaled, delivered, scope>>,
           \/ Type[t] = "DISPATCH" /\ stage = "batch" /\ UNCHANGED holder
           \/ /\ Type[t] = "CALL" /\ stage = "local"
              /\ holder' = [holder EXCEPT ![s] = holder[t]]
    PROVE  IInv'
<1>1. /\ s \in Tasks /\ s # t /\ Type[s] \notin {"BARRIER", "FENCE"}
      /\ Completion[s] \in {t, Completion[t]}
      /\ Type[t] = "DISPATCH" => Type[s] = "SHARD" /\ Completion[s] = t
      /\ Type[t] = "CALL" => Type[s] # "SHARD"
      /\ \A u \in Tasks : s \in Spawns[u] => u = t
      /\ \A e \in Edges : e[3] = s => e[1] \in Spawns[s]
  BY GraphAssumption, SpawnAssumption, Zenon
<1>2. /\ where'[s] = stage /\ stage \in {"batch", "local"}
      /\ \A u \in Tasks \ {s} : where'[u] = where[u] /\ holder'[u] = holder[u]
      /\ where' \in [Tasks -> Stages] /\ holder' \in [Tasks -> Procs \cup {NoProc}]
      /\ stage = "local" => holder'[s] = holder[t]
  BY <1>1, Zenon DEF IInv, TypeOK, Stages
<1>3. /\ PendingExact'
      /\ \A c \in Tasks : Outstanding(c)' =
            IF c = Completion[s] THEN Outstanding(c) \cup {CompletionEdge(s)} ELSE Outstanding(c)
  <2>1. stage # "absent" BY <1>2, Zenon
  <2>2. QED BY <2>1, SpawnCounts, Zenon DEF IInv
<1>4. pending' \in [Tasks -> Nat]
  <2>1. pending \in [Tasks -> Nat] BY Zenon DEF IInv, TypeOK
  <2>2. pending' = [c \in Tasks |-> IF c = Completion[s] THEN pending[c] + 1 ELSE pending[c]]
    OBVIOUS
  <2>3. QED BY ONLY <2>1, <2>2
<1>5. TypeOK' BY <1>2, <1>4, Zenon DEF IInv, TypeOK
<1>6. s \notin issued BY <1>1, Zenon DEF IInv, StageTypes
<1>7. pending'[s] = 0
  <2>1. ASSUME NEW e \in Outstanding(s) PROVE FALSE
    <3>1. e \in Edges /\ e[3] = s /\ where[e[1]] # "absent"
      BY Zenon DEF Outstanding, EdgesInto
    <3>2. e[1] \in Spawns[s] BY <1>1, <3>1, Zenon
    <3>3. QED BY <1>1, <1>6, <3>1, <3>2, Zenon DEF IInv, ParentWillSpawn
  <2>2. pending[s] = 0 BY <1>1, <2>1, PendingZero, Zenon DEF IInv
  <2>3. Completion[s] # s
    <3>1. CASE Completion[s] = NoTask BY <1>1, <3>1, GraphAssumption, Zenon
    <3>2. CASE Completion[s] # NoTask BY <1>1, <3>2, CompletionEdgeFacts, Zenon
    <3>3. QED BY <3>1, <3>2, Zenon
  <2>4. QED BY <1>1, <2>2, <2>3, Zenon DEF IInv, TypeOK
<1>8. ASSUME NEW c \in Tasks, c = Completion[s], c # t
      PROVE  where[c] \in {"absent", "idle"}
  <2>1. Completion[t] = c /\ Completion[t] # NoTask BY <1>1, <1>8, GraphAssumption, Zenon
  <2>2. CompletionEdge(t) \in Outstanding(c)
    BY <2>1, CompletionEdgeFacts, Zenon DEF IInv, CompletionDelivered, Outstanding, EdgesInto,
       Gone
  <2>3. pending[c] # 0 BY <2>2, PendingZero, Zenon DEF IInv
  <2>4. where[c] \in {"absent", "idle", "active"} BY <2>3, Zenon DEF IInv, QueuedMeansReady
  <2>5. where[c] # "active"
    <3>1. SUFFICES ASSUME where[c] = "active" PROVE FALSE OBVIOUS
    <3>2. CompletionEdge(t)[1] = t BY <2>1, CompletionEdgeFacts, Zenon
    <3>3. t \in Spawns[c] BY <2>2, <3>1, <3>2, Zenon DEF IInv, ActiveWaitsForSpawns
    <3>4. Type[t] = "CALL" BY <1>1, <1>8, Zenon
    <3>5. Type[c] \in {"CALL", "DISPATCH"} BY <3>3, SpawnAssumption, Zenon
    <3>6. Spawns[t] = {} BY <3>3, <3>4, <3>5, SpawnAssumption, Zenon
    <3>7. QED BY <3>6, Zenon
  <2>6. QED BY <2>4, <2>5, Zenon
<1>9. NoTaskForgotten' /\ QueuedMeansReady'
  <2>1. \A c \in Tasks : pending'[c] = IF c = Completion[s] THEN pending[c] + 1 ELSE pending[c]
    OBVIOUS
  <2>2. NoTaskForgotten' BY <1>2, <2>1 DEF IInv, TypeOK, NoTaskForgotten
  <2>3. ASSUME NEW c \in Tasks, where'[c] \notin {"absent", "idle", "active"}
        PROVE  pending'[c] = 0
    <3>1. CASE c = s BY <1>7, <3>1, Zenon
    <3>2. CASE c # s
      <4>1. where'[c] = where[c] BY <1>2, <3>2, Zenon
      <4>2. c # Completion[s] BY <1>8, <2>3, <4>1, Zenon
      <4>3. QED BY <2>1, <2>3, <4>1, <4>2, Zenon DEF IInv, QueuedMeansReady
    <3>3. QED BY <3>1, <3>2, Zenon
  <2>4. QED BY <2>2, <2>3, Zenon DEF QueuedMeansReady
<1>10. StageTypes'
  <2>1. Type[t] = "CALL" => holder[t] \in Workers BY Zenon DEF IInv, StageTypes
  <2>2. QED BY <1>1, <1>2, <1>6, <2>1 DEF IInv, StageTypes
<1>11. CompletionDelivered' BY <1>1, <1>2, Zenon DEF IInv, CompletionDelivered, Gone
<1>12. BarrierDelivered'
  BY <1>1, <1>2, BarrierEdgeFacts, Zenon DEF IInv, BarrierDelivered, Gone
<1>13. ParentWillSpawn'
  <2>1. \A u \in Tasks : \A x \in Spawns[u] : x \in Tasks /\ x # u
    BY GraphAssumption, SpawnAssumption, Zenon
  <2>2. QED BY <1>1, <1>2, <1>6, <2>1 DEF IInv, ParentWillSpawn, Queued
<1>14. SpawnsInHand'
  <2>1. \A u \in Tasks : \A x \in Spawns[u] : x \in Tasks /\ x # u
    BY GraphAssumption, SpawnAssumption, Zenon
  <2>2. \A u \in Tasks : where'[u] = "active" => where[u] = "active" /\ u # s BY <1>2, Zenon
  <2>3. QED BY <1>1, <1>2, <2>1, <2>2 DEF IInv, SpawnsInHand
<1>15. ActiveWaitsForSpawns'
  <2>1. SUFFICES ASSUME NEW u \in Tasks, where'[u] = "active", NEW e \in Outstanding(u)'
                 PROVE  e[1] \in Spawns[u]
    BY Zenon DEF ActiveWaitsForSpawns
  <2>2. where[u] = "active" BY <1>2, <2>1, Zenon
  <2>3. CASE e \in Outstanding(u) BY <2>2, <2>3, Zenon DEF IInv, ActiveWaitsForSpawns
  <2>4. CASE e \notin Outstanding(u)
    <3>1. u = Completion[s] /\ e = CompletionEdge(s) BY <1>3, <2>1, <2>4, Zenon
    <3>2. u = t BY <1>8, <2>2, <3>1, Zenon
    <3>3. e[1] = s BY <3>1, Zenon DEF CompletionEdge
    <3>4. QED BY <3>2, <3>3, Zenon
  <2>5. QED BY <2>3, <2>4, Zenon
<1>16. ScopeExact'
  <2>1. \A u \in Tasks : Type[u] = "FENCE" =>
          (where'[u] \in Gone \cup {"retiring"} <=> where[u] \in Gone \cup {"retiring"})
    BY <1>1, <1>2, Zenon
  <2>2. QED BY <2>1, ScopeKept, Zenon DEF IInv
<1>17. QED BY <1>3, <1>5, <1>9, <1>10, <1>11, <1>12, <1>13, <1>14, <1>15, <1>16, Zenon DEF IInv

\* Moves of a whole list: a submission to the executor, a batch to the workers.
LEMMA ListMoves ==
    ASSUME IInv, PostBatchSubmit \/ \E p \in Procs : MergeSubmission(p)
    PROVE  IInv'
<1>1. PICK mine \in SUBSET Tasks, from \in Stages, to \in Stages :
        /\ \A t \in mine : where[t] = from
        /\ <<from, to>> \in {<<"local", "incoming">>, <<"batch", "posted">>}
        /\ where' = [t \in Tasks |-> IF t \in mine THEN to ELSE where[t]]
        /\ holder' \in [Tasks -> Procs \cup {NoProc}]
        /\ \A t \in Tasks \ mine : holder'[t] = holder[t]
        /\ from = "local" => \E p \in Procs : p # Coordinator /\ ~Busy(p)
                                 /\ \A t \in mine : holder[t] = p
        /\ from = "batch" => ~Busy(Coordinator)
        /\ UNCHANGED <<pending, issued, resolved, signaled, delivered, scope>>
  <2>1. CASE PostBatchSubmit
    <3> DEFINE batch == {t \in Tasks : where[t] = "batch"}
    <3>1. /\ batch \in SUBSET Tasks /\ \A t \in batch : where[t] = "batch"
          /\ where' = [t \in Tasks |-> IF t \in batch THEN "posted" ELSE where[t]]
          /\ holder' = holder /\ ~Busy(Coordinator)
          /\ UNCHANGED <<pending, issued, resolved, signaled, delivered, scope>>
      BY <2>1, Zenon DEF PostBatchSubmit
    <3>2. holder' \in [Tasks -> Procs \cup {NoProc}] BY <3>1, Zenon DEF IInv, TypeOK
    <3> HIDE DEF batch
    <3>3. QED BY <3>1, <3>2, Zenon DEF Stages
  <2>2. CASE \E p \in Procs : MergeSubmission(p)
    <3>1. PICK p \in Procs : MergeSubmission(p) BY <2>2, Zenon
    <3> DEFINE own == {t \in Tasks : where[t] = "local" /\ holder[t] = p}
    <3>2. /\ own \in SUBSET Tasks /\ \A t \in own : where[t] = "local" /\ holder[t] = p
          /\ where' = [t \in Tasks |-> IF t \in own THEN "incoming" ELSE where[t]]
          /\ holder' = [t \in Tasks |-> IF t \in own THEN NoProc ELSE holder[t]]
          /\ ~Busy(p) /\ p # Coordinator
          /\ UNCHANGED <<pending, issued, resolved, signaled, delivered, scope>>
      BY <3>1, Zenon DEF MergeSubmission
    <3> HIDE DEF own
    <3>3. /\ holder' \in [Tasks -> Procs \cup {NoProc}]
          /\ \A t \in Tasks \ own : holder'[t] = holder[t]
      BY <3>2, Zenon DEF IInv, TypeOK
    <3>4. QED BY <3>2, <3>3, Zenon DEF Stages
  <2>3. QED BY <2>1, <2>2, Zenon
<1>2. /\ from \in {"local", "batch"} /\ to \in {"incoming", "posted"}
      /\ from = "local" <=> to = "incoming"
  BY <1>1, Zenon
<1>3. \A t \in Tasks : where'[t] = IF t \in mine THEN to ELSE where[t] BY <1>1, Zenon
<1>4. TypeOK' BY <1>1, <1>2, Zenon DEF IInv, TypeOK, Stages
<1>5. \A t \in Tasks : where'[t] = "absent" <=> where[t] = "absent" BY <1>1, <1>2, <1>3, Zenon
<1>6. PendingExact' /\ \A t \in Tasks : Outstanding(t)' = Outstanding(t)
  BY <1>1, <1>5, CountsKept, Zenon DEF IInv
<1>7. NoTaskForgotten' /\ QueuedMeansReady'
  BY <1>1, <1>2, <1>3, Zenon DEF IInv, NoTaskForgotten, QueuedMeansReady
<1>8. StageTypes' BY <1>1, <1>2, <1>3, Zenon DEF IInv, StageTypes
<1>9. CompletionDelivered' BY <1>1, <1>2, <1>3, Zenon DEF IInv, CompletionDelivered, Gone
<1>10. BarrierDelivered' BY <1>1, <1>2, <1>3, Zenon DEF IInv, BarrierDelivered, Gone
<1>11. ParentWillSpawn'
  <2>1. \A u \in Tasks : \A s \in Spawns[u] : s \in Tasks BY GraphAssumption, Zenon
  <2>2. QED BY <1>1, <1>2, <1>3, <2>1, Zenon DEF IInv, ParentWillSpawn, Queued
<1>12. SpawnsInHand'
  <2>1. SUFFICES ASSUME NEW u \in Tasks, NEW s \in Spawns[u], where'[u] = "active", Completion[s] = u
                 PROVE  \/ where'[s] = "absent"
                        \/ Type[u] = "DISPATCH" /\ where'[s] = "batch"
                        \/ Type[u] = "CALL" /\ where'[s] = "local" /\ holder'[s] = holder'[u]
                        \/ Type[u] = "CALL" /\ where'[s] \in Gone
    BY Zenon DEF SpawnsInHand
  <2>2. s \in Tasks BY GraphAssumption, Zenon
  <2>3. where[u] = "active" /\ u \notin mine /\ holder'[u] = holder[u]
    BY <1>1, <1>2, <1>3, <2>1, Zenon
  <2>4. \/ where[s] = "absent"
        \/ Type[u] = "DISPATCH" /\ where[s] = "batch"
        \/ Type[u] = "CALL" /\ where[s] = "local" /\ holder[s] = holder[u]
        \/ Type[u] = "CALL" /\ where[s] \in Gone
    BY <2>1, <2>3, Zenon DEF IInv, SpawnsInHand
  <2>5. Busy(holder[u]) BY <2>3, Zenon DEF Busy
  <2>6. Type[u] = "DISPATCH" => holder[u] = Coordinator BY <2>3, Zenon DEF IInv, StageTypes
  <2>7. s \notin mine BY <1>1, <1>2, <2>4, <2>5, <2>6, Zenon DEF Gone
  <2>8. QED BY <1>1, <1>3, <2>2, <2>3, <2>4, <2>7, Zenon
<1>13. ActiveWaitsForSpawns'
  BY <1>1, <1>2, <1>3, <1>6, Zenon DEF IInv, ActiveWaitsForSpawns
<1>14. ScopeExact'
  <2>1. \A u \in Tasks : Type[u] = "FENCE" =>
          (where'[u] \in Gone \cup {"retiring"} <=> where[u] \in Gone \cup {"retiring"})
    BY <1>1, <1>2, <1>3, Zenon DEF Gone
  <2>2. QED BY <1>1, <2>1, ScopeKept, Zenon DEF IInv
<1>15. QED BY <1>4, <1>6, <1>7, <1>8, <1>9, <1>10, <1>11, <1>12, <1>13, <1>14 DEF IInv

-----------------------------------------------------------------------------
(* The theorems.                                                           *)

\* Every step preserves the inductive invariant.
LEMMA NextIInv == IInv /\ [Next]_vars => IInv'
<1> SUFFICES ASSUME IInv, [Next]_vars PROVE IInv' OBVIOUS
<1>1. ASSUME NEW t \in Tasks, NEW s \in Tasks, IssueShard(t, s) PROVE IInv'
  <2>1. /\ s \in Spawns[t] /\ where[t] = "active" /\ where[s] = "absent"
        /\ where' = [where EXCEPT ![s] = "batch"] /\ Type[t] = "DISPATCH"
        /\ UNCHANGED <<holder, issued, resolved, signaled, delivered, scope>>
        /\ pending' = [pending EXCEPT ![t] = @ + 1]
    BY <1>1, Zenon DEF IssueShard
  <2>2. Completion[s] = t BY <2>1, SpawnAssumption, Zenon
  <2>3. pending' = [c \in Tasks |-> IF c = Completion[s] THEN pending[c] + 1 ELSE pending[c]]
    BY <2>1, <2>2, Zenon DEF IInv, TypeOK
  <2>4. issued' = issued \cup {t} BY <2>1, Zenon DEF IInv, StageTypes
  <2>5. QED BY <2>1, <2>3, <2>4, SpawnsOne, Zenon
<1>2. ASSUME NEW w \in Workers, NEW t \in Tasks, NEW s \in Tasks, CallSpawn(w, t, s) PROVE IInv'
  <2>1. /\ s \in Spawns[t] /\ where[t] = "active" /\ where[s] = "absent" /\ holder[t] = w
        /\ where' = [where EXCEPT ![s] = "local"] /\ Type[t] = "CALL"
        /\ holder' = [holder EXCEPT ![s] = holder[t]]
        /\ issued' = issued \cup {t}
        /\ UNCHANGED <<resolved, signaled, delivered, scope>>
        /\ pending' = [c \in Tasks |-> IF c = Completion[s] THEN pending[c] + 1 ELSE pending[c]]
    BY <1>2, Zenon DEF CallSpawn, Place
  <2>2. QED BY <2>1, SpawnsOne, Zenon
<1>3. ASSUME NEW t \in Tasks, BarrierNotify(t) PROVE IInv'
  <2>1. PICK i \in DOMAIN Dependents[t] :
          /\ BarrierEdge(t, i) \notin delivered
          /\ Notify(Coordinator, BarrierEdge(t, i), "active")
    BY <1>3, Zenon DEF BarrierNotify
  <2>2. BarrierEdge(t, i) \in Edges /\ BarrierEdge(t, i)[1] = t BY BarrierEdgeFacts, Zenon
  <2>3. /\ Type[t] = "BARRIER" /\ where[t] = "active"
        /\ UNCHANGED <<issued, resolved, signaled, scope>>
    BY <1>3, Zenon DEF BarrierNotify
  <2>4. Coordinator \in Procs BY Zenon DEF Procs
  <2>5. QED BY <2>1, <2>2, <2>3, <2>4, Notifies, Zenon
<1>4. ASSUME NEW p \in Procs, NEW t \in Tasks, Retire(p, t) PROVE IInv'
  <2>1. CASE Completion[t] = NoTask BY <1>4, <2>1, RetiresAlone, Zenon
  <2>2. CASE Completion[t] # NoTask
    <3>1. /\ where[t] = "retiring" /\ Notify(p, CompletionEdge(t), "released")
          /\ UNCHANGED <<issued, resolved, signaled, scope>>
      BY <1>4, <2>2, Zenon DEF Retire
    <3>2. CompletionEdge(t) \in Edges /\ CompletionEdge(t)[1] = t
      BY <2>2, CompletionEdgeFacts, Zenon
    <3>3. CompletionEdge(t) \notin delivered
      BY <2>2, <3>1, Zenon DEF IInv, CompletionDelivered, Gone
    <3>4. QED BY <2>2, <3>1, <3>2, <3>3, Notifies, Zenon
  <2>3. QED BY <2>1, <2>2, Zenon
<1>5. ASSUME UNCHANGED <<pending, where, holder, issued, resolved, delivered, scope>>,
             signaled' \subseteq Tasks
      PROVE  IInv'
  <2>1. \A t \in Tasks : Outstanding(t)' = Outstanding(t) BY <1>5, Zenon DEF Outstanding
  <2>2. TypeOK' BY <1>5, Zenon DEF IInv, TypeOK
  <2>3. PendingExact' /\ ActiveWaitsForSpawns'
    BY <1>5, <2>1, Zenon DEF IInv, PendingExact, ActiveWaitsForSpawns
  <2>4. /\ NoTaskForgotten' /\ QueuedMeansReady' /\ StageTypes' /\ CompletionDelivered'
        /\ BarrierDelivered' /\ ParentWillSpawn' /\ SpawnsInHand' /\ ScopeExact'
    BY <1>5 DEF IInv, NoTaskForgotten, QueuedMeansReady, StageTypes, CompletionDelivered,
               BarrierDelivered, ParentWillSpawn, SpawnsInHand, ScopeExact
  <2>5. QED BY <2>2, <2>3, <2>4, Zenon DEF IInv
<1>6. ASSUME NEW t \in Tasks, SignalWaitHandle(t) PROVE IInv'
  BY <1>5, <1>6, Zenon DEF SignalWaitHandle, IInv, TypeOK
<1>7. CASE UNCHANGED vars BY <1>5, <1>7, Zenon DEF vars, IInv, TypeOK
<1>8. CASE CoordinatorStep
  BY <1>1, <1>3, <1>8, CoordinatorMoves, IssueOrWalkDone, FenceEnds, ListMoves, Zenon DEF
     CoordinatorStep
<1>9. ASSUME NEW w \in Workers, WorkerStep(w) PROVE IInv'
  BY <1>2, <1>9, WorkerMoves, Zenon DEF WorkerStep
<1>10. ASSUME NEW p \in Procs, NEW t \in Tasks, Cleanup(p, t) PROVE IInv'
  BY <1>10, CleansUp, Zenon
<1>11. ASSUME NEW p \in Procs, MergeSubmission(p) PROVE IInv' BY <1>11, ListMoves, Zenon
<1>12. CASE Finished BY <1>7, <1>12, Zenon DEF Finished
<1>13. QED BY <1>4, <1>6, <1>7, <1>8, <1>9, <1>10, <1>11, <1>12, Zenon DEF Next

\* The inductive invariant holds in every state of every behaviour.
THEOREM Invariance == Spec => []IInv
BY InitIInv, NextIInv, PTL DEF Spec

\* The types are right, for every graph: no counter goes below zero.
THEOREM TypeCorrect == Spec => []TypeOK
<1>1. IInv => TypeOK BY Zenon DEF IInv
<1>2. QED BY <1>1, Invariance, PTL

\* The dependency counters are exact, for every graph and every interleaving.
THEOREM PendingExactHolds == Spec => []PendingExact
<1>1. IInv => PendingExact BY Zenon DEF IInv
<1>2. QED BY <1>1, Invariance, PTL

\* No task that became ready is left in no list.
THEOREM NoTaskForgottenHolds == Spec => []NoTaskForgotten
<1>1. IInv => NoTaskForgotten BY Zenon DEF IInv
<1>2. QED BY <1>1, Invariance, PTL

\* The asserts of enqueue and retire never fire.
THEOREM QueuedMeansReadyHolds == Spec => []QueuedMeansReady
<1>1. IInv => QueuedMeansReady BY Zenon DEF IInv
<1>2. QED BY <1>1, Invariance, PTL

-----------------------------------------------------------------------------
\* What a decrement does to the target: it goes from idle to local, or stays.
LEMMA NotifyMoves ==
    ASSUME IInv, NEW p \in Procs, NEW e \in Edges, e \notin delivered, NEW stage,
           Notify(p, e, stage),
           \/ where[e[1]] = "retiring"
           \/ where[e[1]] = "active" /\ Type[e[1]] = "BARRIER"
    PROVE  /\ e[1] \in Tasks /\ e[3] \in Tasks /\ where'[e[1]] = stage
           /\ where[e[3]] = "idle" /\ where'[e[3]] \in {"idle", "local"}
           /\ \A u \in Tasks \ {e[1], e[3]} : where'[u] = where[u]
<1>1. e[1] \in Tasks /\ e[3] \in Tasks /\ e[1] # e[3] BY EdgeKinds, Zenon
<1>2. where[e[3]] = "idle" BY TargetIsIdle, Zenon
<1>3. QED BY <1>1, <1>2, Zenon DEF Notify, IInv, TypeOK

\* What the first half of iree_task_retire does to the stages.
LEMMA RetireMoves ==
    ASSUME IInv, NEW p \in Procs, NEW t \in Tasks, Retire(p, t)
    PROVE  /\ where[t] = "retiring" /\ where'[t] = "released" /\ issued' = issued
           /\ \A u \in Tasks \ {t} : \/ where'[u] = where[u]
                                     \/ where[u] = "idle" /\ where'[u] = "local"
<1>1. where[t] = "retiring" /\ issued' = issued BY Zenon DEF Retire
<1>2. CASE Completion[t] = NoTask BY <1>1, <1>2, Zenon DEF Retire, IInv, TypeOK
<1>3. CASE Completion[t] # NoTask
  <2>1. Notify(p, CompletionEdge(t), "released") BY <1>3, Zenon DEF Retire
  <2>2. CompletionEdge(t) \in Edges /\ CompletionEdge(t)[1] = t
    BY <1>3, CompletionEdgeFacts, Zenon
  <2>3. CompletionEdge(t) \notin delivered
    BY <1>1, <1>3, Zenon DEF IInv, CompletionDelivered, Gone
  <2> DEFINE c == CompletionEdge(t)[3]
  <2>4. /\ where'[t] = "released" /\ where[c] = "idle" /\ where'[c] \in {"idle", "local"}
        /\ \A u \in Tasks \ {t, c} : where'[u] = where[u]
    <3> HIDE DEF c
    <3>1. where[CompletionEdge(t)[1]] = "retiring" BY <1>1, <2>2, Zenon
    <3>2. /\ where'[CompletionEdge(t)[1]] = "released"
          /\ where[c] = "idle" /\ where'[c] \in {"idle", "local"}
          /\ \A u \in Tasks \ {CompletionEdge(t)[1], c} : where'[u] = where[u]
      BY <2>1, <2>2, <2>3, <3>1, NotifyMoves DEF c
    <3>3. QED BY <2>2, <3>2, Zenon
  <2> HIDE DEF c
  <2>5. QED BY <1>1, <2>4, Zenon
<1>4. QED BY <1>2, <1>3, Zenon

\* What one decrement of a barrier does to the stages.
LEMMA BarrierNotifyMoves ==
    ASSUME IInv, NEW t \in Tasks, BarrierNotify(t)
    PROVE  /\ where[t] = "active" /\ where'[t] = "active" /\ issued' = issued
           /\ \A u \in Tasks \ {t} : \/ where'[u] = where[u]
                                     \/ where[u] = "idle" /\ where'[u] = "local"
<1>1. where[t] = "active" /\ Type[t] = "BARRIER" /\ issued' = issued BY Zenon DEF BarrierNotify
<1>2. PICK i \in DOMAIN Dependents[t] :
        /\ BarrierEdge(t, i) \notin delivered
        /\ Notify(Coordinator, BarrierEdge(t, i), "active")
  BY Zenon DEF BarrierNotify
<1>3. BarrierEdge(t, i) \in Edges /\ BarrierEdge(t, i)[1] = t BY BarrierEdgeFacts, Zenon
<1>4. Coordinator \in Procs BY Zenon DEF Procs
<1>5. QED BY <1>1, <1>2, <1>3, <1>4, NotifyMoves

\* No task enters a submission list twice, or while a thread executes it.
THEOREM EnqueuedFromNoListHolds == Spec => EnqueuedFromNoList
<1> DEFINE A == \A t \in Tasks : where'[t] = "local" /\ where[t] # "local"
                                   => where[t] \in {"absent", "idle", "waiting"}
<1>1. ASSUME IInv, [Next]_vars PROVE [A]_vars
  <2> SUFFICES A OBVIOUS
  <2>0. TypeOK BY <1>1, Zenon DEF IInv
  <2>1. ASSUME NEW t \in Tasks,
               \/ RelayToWorker(t) \/ ScheduleNop(t) \/ ScheduleBarrierOrFence(t)
               \/ ScheduleWait(t) \/ ScheduleDispatch(t) \/ WakeWaitingTask(t)
               \/ IssueDone(t) \/ BarrierDone(t) \/ FenceRetire(t) \/ SignalWaitHandle(t)
        PROVE  A
    BY <2>0, <2>1, Zenon DEF TypeOK, Place, RelayToWorker, ScheduleNop, ScheduleBarrierOrFence,
       ScheduleWait, ScheduleDispatch, WakeWaitingTask, IssueDone, BarrierDone, FenceRetire,
       SignalWaitHandle
  <2>2. ASSUME NEW t \in Tasks, NEW s \in Tasks, NEW w \in Workers,
               IssueShard(t, s) \/ CallSpawn(w, t, s)
        PROVE  A
    BY <2>0, <2>2, Zenon DEF TypeOK, Place, IssueShard, CallSpawn
  <2>3. ASSUME NEW t \in Tasks, NEW s \in Tasks, IssueShard(t, s) PROVE A
    BY <2>0, <2>3, Zenon DEF TypeOK, Place, IssueShard
  <2>4. ASSUME NEW t \in Tasks, NEW w \in Workers,
               WorkerTake(w, t) \/ CallReturn(w, t) \/ ShardExecute(w, t)
        PROVE  A
    BY <2>0, <2>4, Zenon DEF TypeOK, Place, WorkerTake, CallReturn, ShardExecute
  <2>5. ASSUME NEW p \in Procs, NEW t \in Tasks, Retire(p, t) PROVE A
    BY <1>1, <2>5, RetireMoves, Zenon
  <2>6. ASSUME NEW t \in Tasks, BarrierNotify(t) PROVE A BY <1>1, <2>6, BarrierNotifyMoves, Zenon
  <2>7. ASSUME NEW p \in Procs, NEW t \in Tasks, Cleanup(p, t) PROVE A
    BY <2>0, <2>7, Zenon DEF TypeOK, Place, Cleanup
  <2>8. ASSUME NEW p \in Procs, MergeSubmission(p) PROVE A BY <2>8, Zenon DEF MergeSubmission
  <2>9. CASE PostBatchSubmit BY <2>9, Zenon DEF PostBatchSubmit
  <2>10. CASE UNCHANGED vars BY <2>10, Zenon DEF vars
  <2>11. CASE CoordinatorStep BY <2>1, <2>3, <2>6, <2>9, <2>11 DEF CoordinatorStep
  <2>12. ASSUME NEW w \in Workers, WorkerStep(w) PROVE A
    BY <2>2, <2>4, <2>12, Zenon DEF WorkerStep
  <2>13. CASE Finished BY <2>10, <2>13, Zenon DEF Finished
  <2>14. QED BY <1>1, <2>1, <2>5, <2>7, <2>8, <2>10, <2>11, <2>12, <2>13, Zenon DEF Next
<1>2. IInv /\ [Next]_vars => [A]_vars BY <1>1, Zenon
<1>3. QED BY <1>2, Invariance, PTL DEF Spec, EnqueuedFromNoList

-----------------------------------------------------------------------------
\* A task that has no decrement to come from tasks it did not spawn, built or
\* still to be spawned, has all its prerequisites behind it.
LEMMA PrereqsDone ==
    ASSUME IInv, NEW t \in Tasks,
           where[t] # "absent", where[t] # "active" => pending[t] = 0
    PROVE  Waited(t) \ Spawns[t] \subseteq Done
<1>1. SUFFICES ASSUME NEW u \in Tasks, Completion[u] = t, u \notin Spawns[t]
               PROVE  where[u] \in Gone
  BY Zenon DEF Waited, Done, Gone
<1>2. \A x \in Tasks : Completion[x] = t /\ where[x] # "absent" /\ where[x] \notin Gone
                         => where[t] = "active" /\ x \in Spawns[t]
  <2>1. SUFFICES ASSUME NEW x \in Tasks, Completion[x] = t, where[x] # "absent", where[x] \notin Gone
                 PROVE  where[t] = "active" /\ x \in Spawns[t]
    OBVIOUS
  <2>2. Completion[x] # NoTask BY <2>1, GraphAssumption, Zenon
  <2>3. CompletionEdge(x) \in Outstanding(t) /\ CompletionEdge(x)[1] = x
    BY <2>1, <2>2, CompletionEdgeFacts, Zenon DEF IInv, CompletionDelivered, Outstanding,
       EdgesInto
  <2>4. pending[t] # 0 BY <2>3, PendingZero, Zenon DEF IInv
  <2>5. QED BY <2>3, <2>4, Zenon DEF IInv, ActiveWaitsForSpawns
<1>3. CASE where[u] # "absent" BY <1>1, <1>2, <1>3, Zenon
<1>4. CASE where[u] = "absent"
  <2>1. u \in Spawned BY <1>4, Zenon DEF IInv, StageTypes
  <2>2. PICK v \in Tasks : u \in Spawns[v] BY <2>1, Zenon DEF Spawned
  <2>3. v # t BY <1>1, <2>2, Zenon
  <2>4. Completion[v] = t /\ Type[v] = "CALL"
    BY <1>1, <2>2, <2>3, SpawnAssumption, Zenon
  <2>5. \A x \in Tasks : v \notin Spawns[x]
    <3>1. SUFFICES ASSUME NEW x \in Tasks, v \in Spawns[x] PROVE FALSE OBVIOUS
    <3>2. Type[x] \in {"CALL", "DISPATCH"} BY <3>1, SpawnAssumption, Zenon
    <3>3. Type[v] = "CALL" => Spawns[v] = {} BY <3>1, <3>2, SpawnAssumption, Zenon
    <3>4. QED BY <2>2, <2>4, <3>3, Zenon
  <2>6. where[v] # "absent" BY <2>5, Zenon DEF IInv, StageTypes, Spawned
  <2>7. where[v] \notin Gone BY <1>4, <2>2, Zenon DEF IInv, ParentWillSpawn, Queued, Gone
  <2>8. QED BY <1>2, <2>4, <2>5, <2>6, <2>7, Zenon
<1>5. QED BY <1>3, <1>4, Zenon

\* A task that retires has everything it spawned into itself behind it.
LEMMA NestedDone ==
    ASSUME IInv, NEW t \in Tasks, where[t] = "retiring"
    PROVE  Waited(t) \cap Spawns[t] \subseteq Done
<1>1. SUFFICES ASSUME NEW s \in Tasks, Completion[s] = t, s \in Spawns[t]
               PROVE  where[s] \in Gone
  BY Zenon DEF Waited, Done, Gone
<1>2. where[s] # "absent" BY <1>1, Zenon DEF IInv, ParentWillSpawn, Queued
<1>3. Completion[s] # NoTask BY <1>1, GraphAssumption, Zenon
<1>4. Outstanding(t) = {}
  <2>1. pending[t] = 0 BY Zenon DEF IInv, QueuedMeansReady
  <2>2. QED BY <2>1, PendingZero, Zenon DEF IInv
<1>5. CompletionEdge(s) \in delivered
  BY <1>1, <1>2, <1>3, <1>4, CompletionEdgeFacts, Zenon DEF Outstanding, EdgesInto
<1>6. QED BY <1>3, <1>5, Zenon DEF IInv, CompletionDelivered

\* Every step begins a task whose prerequisites are done, finishes a task whose
\* nested tasks are done, or changes nothing that TaskOrder sees.
LEMMA StepSimulates ==
    ASSUME IInv, [Next]_vars
    PROVE  [Order!Next]_<<Begun, Done>>
<1>0. TypeOK BY Zenon DEF IInv
<1> USE DEF Begun, Done
<1>b. ASSUME NEW t \in Tasks, t \notin Begun, Begun' = Begun \cup {t}, Done' = Done,
             where[t] # "absent", where[t] # "active" => pending[t] = 0
      PROVE  Order!Next
  <2>1. Waited(t) \ Spawns[t] \subseteq Done BY <1>b, PrereqsDone, Zenon
  <2> HIDE DEF Begun, Done
  <2>2. QED BY <1>b, <2>1, Zenon DEF Order!Next, Order!Begin
<1>1. ASSUME NEW t \in Tasks,
             \/ ScheduleNop(t) \/ ScheduleBarrierOrFence(t) \/ ScheduleWait(t) \/ ScheduleDispatch(t)
      PROVE  [Order!Next]_<<Begun, Done>>
  <2>1. /\ where[t] \in {"incoming", "local"}
        /\ \A u \in Tasks \ {t} : where'[u] = where[u] /\ (u \in issued' <=> u \in issued)
        /\ where'[t] \in {"retiring", "active", "waiting"}
        /\ where'[t] = "active" => Type[t] \in {"BARRIER", "FENCE"} \/ t \in issued'
        /\ t \in issued => t \in issued'
        /\ where'[t] = "waiting" => issued' = issued
    BY <1>0, <1>1, Zenon DEF TypeOK, Place, Pops, ScheduleNop, ScheduleBarrierOrFence,
       ScheduleWait, ScheduleDispatch
  <2>2. pending[t] = 0 BY <2>1, Zenon DEF IInv, QueuedMeansReady
  <2>3. Done' = Done BY <2>1, Zenon
  <2>4. CASE t \in Begun \/ where'[t] = "waiting"
    <3>1. Begun' = Begun BY <2>1, <2>4, Zenon
    <3>2. QED BY <2>3, <3>1, Zenon
  <2>5. CASE t \notin Begun /\ where'[t] # "waiting"
    <3>1. Begun' = Begun \cup {t} BY <2>1, <2>5, Zenon
    <3>2. QED BY <1>b, <2>1, <2>2, <2>3, <2>5, <3>1, Zenon
  <2>6. QED BY <2>4, <2>5, Zenon
<1>2. ASSUME NEW t \in Tasks,
             \/ RelayToWorker(t) \/ WakeWaitingTask(t) \/ IssueDone(t) \/ BarrierDone(t)
             \/ FenceRetire(t) \/ SignalWaitHandle(t) \/ BarrierNotify(t)
      PROVE  UNCHANGED <<Begun, Done>>
  <2>1. CASE BarrierNotify(t)
    <3>1. /\ where[t] = "active" /\ where'[t] = "active" /\ issued' = issued
          /\ \A u \in Tasks \ {t} : \/ where'[u] = where[u]
                                    \/ where[u] = "idle" /\ where'[u] = "local"
      BY <2>1, BarrierNotifyMoves
    <3>2. QED BY <3>1, Zenon
  <2>2. CASE ~BarrierNotify(t)
    <3>1. /\ \A u \in Tasks \ {t} : where'[u] = where[u]
          /\ issued' = issued
          /\ \/ where'[t] = where[t]
             \/ where[t] \in {"incoming", "local", "waiting"} /\ where'[t] \in {"batch", "local"}
             \/ where[t] = "active" /\ where'[t] \in {"retiring", "idle"}
                  /\ (t \in issued \/ (Type[t] \in {"BARRIER", "FENCE"} /\ where'[t] = "retiring"))
      BY <1>0, <1>2, <2>2, Zenon DEF IInv, StageTypes, TypeOK, Place, Pops, RelayToWorker,
         WakeWaitingTask, IssueDone, BarrierDone, FenceRetire, SignalWaitHandle
    <3>2. QED BY <3>1, Zenon
  <2>3. QED BY <2>1, <2>2, Zenon
<1>3. ASSUME NEW t \in Tasks, NEW s \in Tasks, IssueShard(t, s)
      PROVE  UNCHANGED <<Begun, Done>>
  <2>1. /\ where[s] = "absent" /\ where'[s] = "batch" /\ issued' = issued
        /\ \A u \in Tasks \ {s} : where'[u] = where[u]
    BY <1>0, <1>3, Zenon DEF TypeOK, IssueShard
  <2>2. QED BY <2>1, Zenon
<1>4. ASSUME NEW w \in Workers, NEW t \in Tasks, NEW s \in Tasks, CallSpawn(w, t, s)
      PROVE  [Order!Next]_<<Begun, Done>>
  <2>1. /\ where[s] = "absent" /\ where'[s] = "local" /\ issued' = issued \cup {t}
        /\ \A u \in Tasks \ {s} : where'[u] = where[u]
        /\ where[t] = "active"
    BY <1>0, <1>4, Zenon DEF TypeOK, CallSpawn, Place
  <2>2. Done' = Done BY <2>1, Zenon
  <2>3. Begun' = Begun \cup {t} BY <2>1, Zenon
  <2>4. CASE t \in Begun BY <2>2, <2>3, <2>4
  <2>5. CASE t \notin Begun BY <1>b, <2>1, <2>2, <2>3, <2>5, Zenon
  <2>6. QED BY <2>4, <2>5, Zenon
<1>5. ASSUME NEW w \in Workers, NEW t \in Tasks,
             WorkerTake(w, t) \/ CallReturn(w, t) \/ ShardExecute(w, t)
      PROVE  [Order!Next]_<<Begun, Done>>
  <2>1. /\ \A u \in Tasks \ {t} : where'[u] = where[u] /\ (u \in issued' <=> u \in issued)
        /\ t \in issued => t \in issued'
        /\ \/ where[t] = "posted" /\ where'[t] = "active" /\ issued' = issued
           \/ where[t] = "active" /\ Type[t] = "CALL" /\ where'[t] \in {"retiring", "idle"} /\ t \in issued'
           \/ where[t] = "active" /\ Type[t] = "SHARD" /\ where'[t] \in {"retiring", "abandoned"} /\ issued' = issued
    BY <1>0, <1>5, Zenon DEF TypeOK, Place, WorkerTake, CallReturn, ShardExecute
  <2>2. where[t] = "posted" => pending[t] = 0 BY Zenon DEF IInv, QueuedMeansReady
  <2>3. where[t] = "posted" => Type[t] \in {"CALL", "SHARD"} BY Zenon DEF IInv, StageTypes
  <2>4. Done' = Done BY <2>1, Zenon
  <2>5. CASE t \in Begun \/ (where[t] = "posted" /\ Type[t] = "CALL")
    <3>1. Begun' = Begun BY <2>1, <2>3, <2>5, Zenon
    <3>2. QED BY <2>4, <3>1, Zenon
  <2>6. CASE t \notin Begun /\ ~(where[t] = "posted" /\ Type[t] = "CALL")
    <3>1. Begun' = Begun \cup {t} BY <2>1, <2>3, <2>6, Zenon
    <3>2. QED BY <1>b, <2>1, <2>2, <2>4, <2>6, <3>1, Zenon
  <2>7. QED BY <2>5, <2>6, Zenon
<1>6. ASSUME NEW p \in Procs, NEW t \in Tasks, Retire(p, t)
      PROVE  Order!Next
  <2>1. /\ where[t] = "retiring" /\ where'[t] = "released" /\ issued' = issued
        /\ \A u \in Tasks \ {t} : \/ where'[u] = where[u]
                                  \/ where[u] = "idle" /\ where'[u] = "local"
    BY <1>6, RetireMoves, Zenon
  <2>2. Begun' = Begun /\ Done' = Done \cup {t} /\ t \in Begun \ Done BY <2>1, Zenon
  <2>3. Waited(t) \cap Spawns[t] \subseteq Done BY <2>1, NestedDone, Zenon
  <2> HIDE DEF Begun, Done
  <2>4. QED BY <2>2, <2>3, Zenon DEF Order!Next, Order!Finish
<1>7. ASSUME NEW p \in Procs, NEW t \in Tasks, Cleanup(p, t)
      PROVE  UNCHANGED <<Begun, Done>>
  BY <1>0, <1>7, Zenon DEF TypeOK, Place, Cleanup
<1>8. ASSUME NEW p \in Procs, MergeSubmission(p)
      PROVE  UNCHANGED <<Begun, Done>>
  BY <1>8, Zenon DEF MergeSubmission
<1>9. CASE PostBatchSubmit
  <2>1. UNCHANGED <<Begun, Done>> BY <1>9, Zenon DEF PostBatchSubmit
  <2>2. QED BY <2>1, Zenon
<1>10. CASE UNCHANGED vars
  <2>1. UNCHANGED <<Begun, Done>> BY <1>10, Zenon DEF vars
  <2>2. QED BY <2>1, Zenon
<1> HIDE DEF Begun, Done
<1>11. CASE CoordinatorStep BY <1>1, <1>2, <1>3, <1>9, <1>11, Zenon DEF CoordinatorStep
<1>12. ASSUME NEW w \in Workers, WorkerStep(w) PROVE [Order!Next]_<<Begun, Done>>
  BY <1>4, <1>5, <1>12, Zenon DEF WorkerStep
<1>13. CASE Finished BY <1>10, <1>13, Zenon DEF Finished
<1>14. QED BY <1>2, <1>6, <1>7, <1>8, <1>10, <1>11, <1>12, <1>13, Zenon DEF Next

\* The detailed task system implements the abstract task order.
THEOREM TaskOrderImplemented == Spec => ImplementsTaskOrder
<1>1. Init => Order!Init
  BY Zenon DEF Init, Order!Init, Begun, Done
<1>2. IInv /\ [Next]_vars => [Order!Next]_<<Begun, Done>> BY StepSimulates, Zenon
<1>3. QED BY <1>1, <1>2, Invariance, PTL DEF Spec, ImplementsTaskOrder, Order!Spec

-----------------------------------------------------------------------------
\* A set of tasks that holds, with each task, every task that notifies it.
ClosedUpstream(S) == \A e \in Edges : e[3] \in S => e[1] \in S

\* The tasks that lead to t along completion tasks and barrier dependents: those
\* in every set that holds t and is closed under notifiers.
LeadsTo(t) ==
    {u \in Tasks : \A S \in SUBSET Tasks : t \in S /\ ClosedUpstream(S) => u \in S}

\* A barrier retires on the coordinator.
BarrierHeld ==
    \A b \in Tasks : Type[b] = "BARRIER" /\ where[b] = "retiring" => holder[b] = Coordinator

\* The coordinator has started the fence.
FenceStarted(t) == Type[t] = "FENCE" /\ where[t] \in Gone \cup {"active", "retiring"}

\* Once the coordinator has started a fence, all that leads to it is released.
FencesFollow ==
    \A t \in Tasks : FenceStarted(t) => \A u \in LeadsTo(t) \ {t} : where[u] \in Gone

\* What a step may do to released tasks, to retiring barriers and to fences.
FenceStep ==
    /\ \A u \in Tasks : where[u] \in Gone => where'[u] \in Gone
    /\ \A b \in Tasks : Type[b] = "BARRIER" /\ where'[b] = "retiring" =>
          \/ holder'[b] = Coordinator
          \/ where[b] = "retiring" /\ holder'[b] = holder[b]
    /\ \A t \in Tasks : FenceStarted(t)' /\ ~FenceStarted(t) =>
          ~Busy(Coordinator) /\ where[t] \in {"local", "incoming"}

\* A decrement leaves whoever is retiring in the same hands.
LEMMA NotifyHolds ==
    ASSUME IInv, NEW p \in Procs, NEW e \in Edges, e \notin delivered, NEW stage,
           Notify(p, e, stage),
           \/ where[e[1]] = "retiring"
           \/ where[e[1]] = "active" /\ Type[e[1]] = "BARRIER"
    PROVE  \A b \in Tasks : where'[b] = "retiring" => holder'[b] = holder[b]
<1>1. /\ e[3] \in Tasks /\ where'[e[3]] \in {"idle", "local"} BY NotifyMoves
<1>2. QED BY <1>1, Zenon DEF Notify, IInv, TypeOK

\* Every step of the system is such a step.
LEMMA StepIsFenceStep ==
    ASSUME IInv, [Next]_vars PROVE FenceStep
<1>0. TypeOK /\ StageTypes BY Zenon DEF IInv
<1>1. ASSUME NEW t \in Tasks, RelayToWorker(t) \/ ScheduleNop(t) \/ ScheduleWait(t)
      PROVE  FenceStep
  BY <1>0, <1>1, Zenon DEF TypeOK, Place, Pops, RelayToWorker, ScheduleNop, ScheduleWait,
     FenceStep, FenceStarted, Gone
<1>2. ASSUME NEW t \in Tasks, ScheduleBarrierOrFence(t) PROVE FenceStep
  BY <1>0, <1>2, Zenon DEF TypeOK, Place, Pops, ScheduleBarrierOrFence, FenceStep,
     FenceStarted, Gone
<1>3. ASSUME NEW t \in Tasks, ScheduleDispatch(t) \/ WakeWaitingTask(t) PROVE FenceStep
  BY <1>0, <1>3, Zenon DEF TypeOK, Place, Pops, ScheduleDispatch, WakeWaitingTask, FenceStep,
     FenceStarted, Gone
<1>4. ASSUME NEW t \in Tasks, IssueDone(t) \/ BarrierDone(t) \/ FenceRetire(t) PROVE FenceStep
  BY <1>0, <1>4, Zenon DEF TypeOK, Place, IssueDone, BarrierDone, FenceRetire, FenceStep,
     FenceStarted, Gone
<1>5. ASSUME NEW t \in Tasks, NEW s \in Tasks, IssueShard(t, s) PROVE FenceStep
  BY <1>0, <1>5, Zenon DEF TypeOK, IssueShard, FenceStep, FenceStarted, Gone
<1>6. ASSUME NEW t \in Tasks, NEW s \in Tasks, NEW w \in Workers, CallSpawn(w, t, s)
      PROVE  FenceStep
  BY <1>0, <1>6, Zenon DEF TypeOK, Place, CallSpawn, FenceStep, FenceStarted, Gone
<1>7. ASSUME NEW t \in Tasks, NEW w \in Workers, WorkerTake(w, t) PROVE FenceStep
  BY <1>0, <1>7, Zenon DEF TypeOK, StageTypes, Place, WorkerTake, FenceStep, FenceStarted, Gone
<1>8. ASSUME NEW t \in Tasks, NEW w \in Workers, CallReturn(w, t) \/ ShardExecute(w, t)
      PROVE  FenceStep
  BY <1>0, <1>8, Zenon DEF TypeOK, Place, CallReturn, ShardExecute, FenceStep, FenceStarted, Gone
<1>9. ASSUME NEW p \in Procs, NEW t \in Tasks, Retire(p, t) PROVE FenceStep
  <2>1. \A b \in Tasks : where'[b] = "retiring" => holder'[b] = holder[b]
    <3>1. CASE Completion[t] = NoTask BY <1>9, <3>1, Zenon DEF Retire
    <3>2. CASE Completion[t] # NoTask
      <4>1. Notify(p, CompletionEdge(t), "released") BY <1>9, <3>2, Zenon DEF Retire
      <4>2. CompletionEdge(t) \in Edges /\ CompletionEdge(t)[1] = t
        BY <3>2, CompletionEdgeFacts, Zenon
      <4>3. where[t] = "retiring" BY <1>9, Zenon DEF Retire
      <4>4. CompletionEdge(t) \notin delivered
        BY <3>2, <4>3, Zenon DEF IInv, CompletionDelivered, Gone
      <4>5. where[CompletionEdge(t)[1]] = "retiring" BY <4>2, <4>3, Zenon
      <4>6. QED BY <4>1, <4>2, <4>4, <4>5, NotifyHolds
    <3>3. QED BY <3>1, <3>2, Zenon
  <2>2. QED BY <1>9, <2>1, RetireMoves, Zenon DEF FenceStep, FenceStarted, Gone
<1>10. ASSUME NEW t \in Tasks, BarrierNotify(t) PROVE FenceStep
  <2>1. \A b \in Tasks : where'[b] = "retiring" => holder'[b] = holder[b]
    <3>1. PICK i \in DOMAIN Dependents[t] :
            /\ BarrierEdge(t, i) \notin delivered
            /\ Notify(Coordinator, BarrierEdge(t, i), "active")
      BY <1>10, Zenon DEF BarrierNotify
    <3>2. BarrierEdge(t, i) \in Edges /\ BarrierEdge(t, i)[1] = t BY BarrierEdgeFacts, Zenon
    <3>3. where[BarrierEdge(t, i)[1]] = "active" /\ Type[BarrierEdge(t, i)[1]] = "BARRIER"
      BY <1>10, <3>2, Zenon DEF BarrierNotify
    <3>4. Coordinator \in Procs BY Zenon DEF Procs
    <3>5. QED BY <3>1, <3>2, <3>3, <3>4, NotifyHolds
  <2>2. QED BY <1>10, <2>1, BarrierNotifyMoves, Zenon DEF FenceStep, FenceStarted, Gone
<1>11. ASSUME NEW p \in Procs, NEW t \in Tasks, Cleanup(p, t) PROVE FenceStep
  BY <1>0, <1>11, Zenon DEF TypeOK, Place, Cleanup, FenceStep, FenceStarted, Gone
<1>12. ASSUME NEW p \in Procs, MergeSubmission(p) PROVE FenceStep
  BY <1>0, <1>12, Zenon DEF TypeOK, MergeSubmission, FenceStep, FenceStarted, Gone
<1>13. CASE PostBatchSubmit
  BY <1>0, <1>13, Zenon DEF TypeOK, PostBatchSubmit, FenceStep, FenceStarted, Gone
<1>14. ASSUME UNCHANGED <<where, holder>> PROVE FenceStep
  BY <1>14, Zenon DEF FenceStep, FenceStarted
<1>15. ASSUME NEW t \in Tasks, SignalWaitHandle(t) PROVE FenceStep
  BY <1>14, <1>15, Zenon DEF SignalWaitHandle
<1>16. CASE CoordinatorStep
  BY <1>1, <1>2, <1>3, <1>4, <1>5, <1>10, <1>13, <1>16, Zenon DEF CoordinatorStep
<1>17. ASSUME NEW w \in Workers, WorkerStep(w) PROVE FenceStep
  BY <1>6, <1>7, <1>8, <1>17, Zenon DEF WorkerStep
<1>18. CASE UNCHANGED vars \/ Finished BY <1>14, <1>18, Zenon DEF vars, Finished
<1>19. QED BY <1>9, <1>11, <1>12, <1>15, <1>16, <1>17, <1>18, Zenon DEF Next

\* Whatever notifies a released task, or a task about to start, is released, as
\* long as no barrier is still notifying its dependents.
LEMMA NotifiersReleased ==
    ASSUME IInv, NEW e \in Edges,
           where[e[3]] \in Gone \cup {"local", "incoming"},
           Type[e[3]] = "FENCE" \/ where[e[3]] \in Gone,
           \A b \in Tasks : Type[b] = "BARRIER" => where[b] \notin {"active", "retiring"}
    PROVE  where[e[1]] \in Gone
<1> DEFINE u == e[1]
<1> DEFINE t == e[3]
<1>1. u \in Tasks /\ t \in Tasks BY EdgeKinds, Zenon
<1>2. pending[t] = 0 /\ where[t] \notin {"absent", "active"}
  BY <1>1, Zenon DEF IInv, QueuedMeansReady, Gone
<1>3. CASE Completion[u] = t
  <2>1. u \in Waited(t) BY <1>1, <1>3, Zenon DEF Waited
  <2>2. Waited(t) \ Spawns[t] \subseteq Done BY <1>1, <1>2, PrereqsDone, Zenon
  <2>3. CASE u \notin Spawns[t] BY <2>1, <2>2, <2>3, Zenon DEF Done, Gone
  <2>4. CASE u \in Spawns[t]
    <3>1. where[t] \in Gone
      <4>1. Type[t] \in {"CALL", "DISPATCH"} BY <1>1, <2>4, SpawnAssumption
      <4>2. QED BY <4>1, Zenon
    <3>2. where[u] # "absent" BY <1>1, <2>4, <3>1, Zenon DEF IInv, ParentWillSpawn, Queued, Gone
    <3>3. Outstanding(t) = {} BY <1>1, <1>2, PendingZero, Zenon DEF IInv
    <3>4. Completion[u] # NoTask BY <1>1, <1>3, GraphAssumption, Zenon
    <3>5. CompletionEdge(u) \in delivered
      BY <1>1, <1>3, <3>2, <3>3, <3>4, CompletionEdgeFacts, Zenon DEF Outstanding, EdgesInto
    <3>6. QED BY <1>1, <3>4, <3>5, Zenon DEF IInv, CompletionDelivered
  <2>5. QED BY <2>3, <2>4, Zenon
<1>4. CASE \E i \in DOMAIN Dependents[u] : e = BarrierEdge(u, i)
  <2>1. PICK i \in DOMAIN Dependents[u] : e = BarrierEdge(u, i) BY <1>4, Zenon
  <2>2. Type[u] = "BARRIER" BY <1>1, BarrierEdgeFacts, Zenon
  <2>3. where[u] # "absent"
    <3>1. SUFFICES ASSUME where[u] = "absent" PROVE FALSE OBVIOUS
    <3>2. u \in Spawned BY <1>1, <3>1, Zenon DEF IInv, StageTypes
    <3>3. PICK v \in Tasks : u \in Spawns[v] BY <3>2, Zenon DEF Spawned
    <3>4. Type[v] \in {"CALL", "DISPATCH"} BY <3>3, SpawnAssumption
    <3>5. Type[u] # "BARRIER" BY <3>3, <3>4, SpawnAssumption, Zenon
    <3>6. QED BY <2>2, <3>5, Zenon
  <2>4. Outstanding(t) = {} BY <1>1, <1>2, PendingZero, Zenon DEF IInv
  <2>5. e \in delivered BY <2>3, <2>4, Zenon DEF Outstanding, EdgesInto
  <2>6. where[u] \in Gone \cup {"active", "retiring"}
    BY <1>1, <2>1, <2>5, Zenon DEF IInv, BarrierDelivered
  <2>7. QED BY <1>1, <2>2, <2>6, Zenon
<1>5. QED BY <1>3, <1>4, EdgeKinds, Zenon

\* A fence starts only after all that leads to it: the coordinator that starts
\* it is not in the middle of a barrier.
LEMMA FencesFollowKept ==
    ASSUME IInv, BarrierHeld, FencesFollow, [Next]_vars
    PROVE  BarrierHeld' /\ FencesFollow'
<1>1. FenceStep BY StepIsFenceStep
<1>2. BarrierHeld' BY <1>1, Zenon DEF FenceStep, BarrierHeld
<1>3. ASSUME NEW t \in Tasks, FenceStarted(t)', NEW u \in LeadsTo(t) \ {t}
      PROVE  where'[u] \in Gone
  <2>0. u \in Tasks BY Zenon DEF LeadsTo
  <2>1. SUFFICES where[u] \in Gone BY <1>1, <2>0, Zenon DEF FenceStep
  <2>2. CASE FenceStarted(t) BY <2>2, Zenon DEF FencesFollow
  <2>3. CASE ~FenceStarted(t)
    <3>1. ~Busy(Coordinator) /\ where[t] \in {"local", "incoming"}
      BY <1>1, <1>3, <2>3, Zenon DEF FenceStep
    <3>2. \A b \in Tasks : Type[b] = "BARRIER" => where[b] \notin {"active", "retiring"}
      BY <3>1, Zenon DEF Busy, BarrierHeld, IInv, StageTypes
    <3>3. Type[t] = "FENCE" BY <1>3, Zenon DEF FenceStarted
    <3> DEFINE S == {v \in Tasks : where[v] \in Gone} \cup {t}
    <3>4. ClosedUpstream(S)
      <4>1. SUFFICES ASSUME NEW e \in Edges, e[3] \in S PROVE e[1] \in S
        BY Zenon DEF ClosedUpstream
      <4>2. /\ where[e[3]] \in Gone \cup {"local", "incoming"}
            /\ Type[e[3]] = "FENCE" \/ where[e[3]] \in Gone
        BY <3>1, <3>3, <4>1, Zenon
      <4>3. where[e[1]] \in Gone BY <3>2, <4>2, NotifiersReleased
      <4>4. QED BY <4>3, EdgeKinds, Zenon
    <3>5. S \in SUBSET Tasks /\ t \in S OBVIOUS
    <3>6. u \in S BY <3>4, <3>5, Zenon DEF LeadsTo
    <3>7. QED BY <3>6, Zenon
  <2>4. QED BY <2>2, <2>3, Zenon
<1>4. FencesFollow' BY <1>3, Zenon DEF FencesFollow, LeadsTo
<1>5. QED BY <1>2, <1>4

\* At first no barrier retires and no fence has started.
LEMMA FencesFollowInit == Init => BarrierHeld /\ FencesFollow
BY Zenon DEF Init, BarrierHeld, FencesFollow, FenceStarted, Gone

\* Every task that leads to a fence is released once the fence has started.
THEOREM FencesFollowHolds == Spec => []FencesFollow
<1>1. IInv /\ BarrierHeld /\ FencesFollow /\ [Next]_vars => BarrierHeld' /\ FencesFollow'
  BY FencesFollowKept
<1>2. QED BY <1>1, FencesFollowInit, Invariance, PTL DEF Spec

\* An idle scope: whatever leads to one of its fences is released.
LEMMA IdleScopeStarted ==
    ASSUME IInv, scope = 0, NEW t \in Tasks, Type[t] = "FENCE"
    PROVE  FenceStarted(t)
<1> DEFINE F == {u \in Tasks : Type[u] = "FENCE" /\ where[u] \notin Gone \cup {"retiring"}}
<1>1. IsFiniteSet(F) BY GraphAssumption, FS_Subset, Zenon
<1>2. Cardinality(F) = 0 BY Zenon DEF IInv, ScopeExact
<1>3. F = {} BY <1>1, <1>2, FS_EmptySet, Zenon
<1>4. QED BY <1>3, Zenon DEF FenceStarted

\* When a scope is idle the tasks that lead to its fences are released, for
\* every graph in which every task but the fences leads to a fence.
THEOREM ScopeIdleMeansReleasedHolds ==
    ASSUME \A u \in Tasks : Type[u] # "FENCE" =>
              \E t \in Tasks : Type[t] = "FENCE" /\ u \in LeadsTo(t)
    PROVE  Spec => []ScopeIdleMeansReleased
<1>1. ASSUME IInv, FencesFollow PROVE ScopeIdleMeansReleased
  <2>1. SUFFICES ASSUME scope = 0, NEW u \in Tasks, Type[u] # "FENCE" PROVE where[u] \in Gone
    BY Zenon DEF ScopeIdleMeansReleased, Gone
  <2>2. PICK t \in Tasks : Type[t] = "FENCE" /\ u \in LeadsTo(t) BY <2>1, Zenon
  <2>3. FenceStarted(t) BY <1>1, <2>1, <2>2, IdleScopeStarted
  <2>4. QED BY <1>1, <2>1, <2>2, <2>3, Zenon DEF FencesFollow
<1>2. QED BY <1>1, Invariance, FencesFollowHolds, PTL
=============================================================================
