------------------------------ MODULE Dispatch ------------------------------
(***************************************************************************)
(* A dispatch task is issued sharded or sliced, as its flag says (the      *)
(* DISPATCH case of iree_task_executor_schedule_ready_tasks in             *)
(* iree/task/executor.c).  Either way its closure has to run once for      *)
(* every workgroup of the grid before the dispatch retires.                *)
(***************************************************************************)
EXTENDS DispatchShards

CONSTANTS Grids, TilesPerSlice, StartWorkers, TilesMayFail \* see DispatchSlices

ASSUME SliceAssumption ==
    /\ TilesPerSlice \in [1 .. 3 -> Nat \ {0}]
    /\ StartWorkers \subseteq 0 .. WorkerCount - 1

VARIABLES
    sliced, \* IREE_TASK_FLAG_DISPATCH_SLICED
    workgroup_count, slice, worker_index, worker_slice_count, posted,
    pending, failed, slice_runs, state \* see DispatchSlices

Slices == INSTANCE DispatchSlices WITH runs <- slice_runs

sliceVars == <<workgroup_count, slice, worker_index, worker_slice_count, posted,
               pending, failed, slice_runs, state>>
allVars == <<vars, sliced, sliceVars>>

DispatchInit == sliced \in BOOLEAN /\ Init /\ Slices!Init

IssueSharded == ~sliced /\ Next /\ UNCHANGED <<sliced, sliceVars>>
IssueSliced == sliced /\ Slices!Next /\ UNCHANGED <<sliced, vars>>

DispatchNext == IssueSharded \/ IssueSliced

DispatchSpec == DispatchInit /\ [][DispatchNext]_allVars

-----------------------------------------------------------------------------
AllShardsRetired == \A s \in Shards : pc[s] = "retired"

\* In each dimension the size of the grid is a multiple of that of a slice, or
\* smaller than one slice.
NoRemainder ==
    \A d \in 1 .. 3 : \/ workgroup_count[d] % TilesPerSlice[d] = 0
                     \/ workgroup_count[d] < TilesPerSlice[d]

\* How often a sharded dispatch called its closure for workgroup id xyz.
ShardCalls(xyz) == Cardinality({i \in Tiles : WorkgroupXYZ(i) = xyz /\ runs[i] > 0})

\* When a dispatch retires its closure has been called once with every workgroup
\* id of the grid and with no other: shards decode their tile indices into
\* distinct ids, and slices of a grid without remainder are disjoint and cover it.
WholeGridOnce ==
    /\ (~sliced /\ AllShardsRetired) =>
          \A xyz \in Slices!Box(WorkgroupCount) :
             ShardCalls(xyz) = IF xyz \in Slices!Grid(WorkgroupCount) THEN 1 ELSE 0
    /\ (sliced /\ state = "retired" /\ NoRemainder) =>
          \A xyz \in Slices!Box(workgroup_count) :
             slice_runs[xyz] = IF xyz \in Slices!Grid(workgroup_count) THEN 1 ELSE 0

\* The slices divide up all tiles, also of a grid with a remainder.
SlicesCoverGrid ==
    (sliced /\ state = "retired") =>
        \A xyz \in Slices!Grid(workgroup_count) : slice_runs[xyz] = 1
=============================================================================
