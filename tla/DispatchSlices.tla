--------------------------- MODULE DispatchSlices ---------------------------
(***************************************************************************)
(* A sliced dispatch (iree_task_dispatch_issue_sliced and                  *)
(* iree_task_dispatch_slice_execute in iree/task/task.c): the coordinator  *)
(* cuts the grid into slices of fixed size before any of them is executed, *)
(* deals them out to the workers, and the last slice retires the dispatch. *)
(***************************************************************************)
EXTENDS Integers, FiniteSets

CONSTANTS
    Grids,          \* workgroup counts <<x, y, z>> to start from
    TilesPerSlice,  \* IREE_TASK_DISPATCH_TILES_PER_SLICE_X, _Y, _Z
    WorkerCount,
    StartWorkers,   \* workers iree_task_post_batch_select_worker may return
    TilesMayFail    \* whether the closure may return an error

Dims == 1 .. 3

VARIABLES
    workgroup_count, \* of the dispatch
    slice,           \* loop variables: <<slice_x, slice_y, slice_z>>
    worker_index,
    worker_slice_count,
    posted,          \* number of slices dealt to each worker
    pending,         \* slices of the dispatch that have not retired
    failed,          \* slices of the dispatch that returned an error
    runs,            \* how often the closure was called for each workgroup
    state            \* of the dispatch: "issuing", "posted" or "retired"

vars == <<workgroup_count, slice, worker_index, worker_slice_count, posted,
          pending, failed, runs, state>>

Grid(n) == (0 .. n[1] - 1) \X (0 .. n[2] - 1) \X (0 .. n[3] - 1)

\* The grid and the workgroups one past it.
Box(n) == (0 .. n[1]) \X (0 .. n[2]) \X (0 .. n[3])

AtLeastOne(k) == IF k < 1 THEN 1 ELSE k
Least(a, b) == IF a < b THEN a ELSE b

\* slice_count_x, slice_count_y and slice_count_z.
SliceCount(n) == [d \in Dims |-> AtLeastOne(n[d] \div TilesPerSlice[d])]

TotalSlices(n) == SliceCount(n)[1] * SliceCount(n)[2] * SliceCount(n)[3]

SlicesPerWorker(n) == AtLeastOne(TotalSlices(n) \div WorkerCount)

WorkgroupBase(s) == [d \in Dims |-> s[d] * TilesPerSlice[d]]

\* Mutant: the inclusive range is not reduced by one.
WorkgroupRangeExclusive(n, s) ==
    [d \in Dims |-> Least(n[d], WorkgroupBase(s)[d] + TilesPerSlice[d])]

\* Last workgroup of slice s in each dimension.
WorkgroupRange(n, s) ==
    [d \in Dims |-> Least(n[d], WorkgroupBase(s)[d] + TilesPerSlice[d]) - 1]

\* The workgroups that the three loops of slice_execute visit.
SliceTiles(n, s) ==
    {t \in Box(n) : \A d \in Dims :
        WorkgroupBase(s)[d] <= t[d] /\ t[d] <= WorkgroupRange(n, s)[d]}

\* The loops visit t no later than u: x is the innermost one.
NoLater(t, u) ==
    \/ t[3] < u[3]
    \/ t[3] = u[3] /\ t[2] < u[2]
    \/ t[3] = u[3] /\ t[2] = u[2] /\ t[1] <= u[1]

Init ==
    /\ workgroup_count \in Grids
    /\ slice = <<0, 0, 0>>
    /\ worker_index \in StartWorkers
    /\ worker_slice_count = 0
    /\ posted = [w \in 0 .. WorkerCount - 1 |-> 0]
    /\ pending = {}
    /\ failed = {}
    /\ runs = [t \in Box(workgroup_count) |-> 0]
    /\ state = "issuing"

Empty == workgroup_count[1] * workgroup_count[2] * workgroup_count[3] = 0

\* An empty grid: the dispatch retires at once.
IssueNothing ==
    /\ state = "issuing"
    /\ Empty
    /\ state' = "retired"
    /\ UNCHANGED <<workgroup_count, slice, worker_index, worker_slice_count,
                   posted, pending, failed, runs>>

\* worker_index and worker_slice_count after dealing one slice.
Deal ==
    IF worker_slice_count + 1 >= SlicesPerWorker(workgroup_count)
    THEN /\ worker_index' = worker_index + 1
         /\ worker_slice_count' = 0
    ELSE /\ worker_slice_count' = worker_slice_count + 1
         /\ UNCHANGED worker_index

\* The loop variables after one iteration.
NextSlice(s) ==
    IF s[1] + 1 < SliceCount(workgroup_count)[1] THEN <<s[1] + 1, s[2], s[3]>>
    ELSE IF s[2] + 1 < SliceCount(workgroup_count)[2] THEN <<0, s[2] + 1, s[3]>>
    ELSE <<0, 0, s[3] + 1>>

\* One iteration of the three loops of issue_sliced.
IssueSlice ==
    /\ state = "issuing"
    /\ ~Empty
    /\ slice[3] < SliceCount(workgroup_count)[3]
    /\ pending' = pending \cup {slice}
    /\ posted' = [posted EXCEPT ![worker_index % WorkerCount] = @ + 1]
    /\ Deal
    /\ slice' = NextSlice(slice)
    /\ UNCHANGED <<workgroup_count, failed, runs, state>>

\* The loops are done; the batch is posted and the workers may start.
IssueDone ==
    /\ state = "issuing"
    /\ ~Empty
    /\ slice[3] = SliceCount(workgroup_count)[3]
    /\ state' = "posted"
    /\ UNCHANGED <<workgroup_count, slice, worker_index, worker_slice_count,
                   posted, pending, failed, runs>>

\* Some worker executes slice s to its end and retires it; the last one
\* retires the dispatch.
SliceExecute(s) ==
    /\ state = "posted"
    /\ s \in pending \ failed
    /\ runs' = [t \in Box(workgroup_count) |->
                   runs[t] + IF t \in SliceTiles(workgroup_count, s) THEN 1 ELSE 0]
    /\ pending' = pending \ {s}
    /\ state' = IF pending = {s} THEN "retired" ELSE "posted"
    /\ UNCHANGED <<workgroup_count, slice, worker_index, worker_slice_count,
                   posted, failed>>

\* The closure returns an error for workgroup u: the slice stops there and
\* does not retire.
SliceFail(s, u) ==
    /\ TilesMayFail
    /\ state = "posted"
    /\ s \in pending \ failed
    /\ u \in SliceTiles(workgroup_count, s)
    /\ runs' = [t \in Box(workgroup_count) |->
                   runs[t] + IF t \in SliceTiles(workgroup_count, s) /\ NoLater(t, u)
                             THEN 1 ELSE 0]
    /\ failed' = failed \cup {s}
    /\ UNCHANGED <<workgroup_count, slice, worker_index, worker_slice_count,
                   posted, pending, state>>

Ended == state = "retired" \/ (state = "posted" /\ pending = failed)

Next ==
    \/ IssueNothing \/ IssueSlice \/ IssueDone
    \/ \E s \in pending : SliceExecute(s)
    \/ \E s \in pending : \E u \in Box(workgroup_count) : SliceFail(s, u)
    \/ Ended /\ UNCHANGED vars

Spec == Init /\ [][Next]_vars

-----------------------------------------------------------------------------
\* Types of the state.
TypeOK ==
    /\ workgroup_count \in Grids
    /\ slice \in Nat \X Nat \X Nat
    /\ worker_index \in Nat /\ worker_slice_count \in Nat
    /\ posted \in [0 .. WorkerCount - 1 -> Nat]
    /\ pending \subseteq Nat \X Nat \X Nat
    /\ failed \subseteq pending
    /\ runs \in [Box(workgroup_count) -> Nat]
    /\ state \in {"issuing", "posted", "retired"}
=============================================================================
