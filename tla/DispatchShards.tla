--------------------------- MODULE DispatchShards ---------------------------
(***************************************************************************)
(* A sharded dispatch (iree_task_dispatch_issue_sharded and                *)
(* iree_task_dispatch_shard_execute in iree/task/task.c): the shards of    *)
(* one dispatch, on as many workers, claim ranges of tiles from a shared   *)
(* counter with fetch-and-add, one range ahead of the one they execute.    *)
(***************************************************************************)
EXTENDS Integers, FiniteSets

CONSTANTS
    WorkgroupCount, \* dispatch_task->workgroup_count: <<x, y, z>>
    WorkerCount,    \* workers of the executor
    MaxReservation, \* IREE_TASK_DISPATCH_MAX_TILES_PER_SHARD_RESERVATION
    WordMod,        \* 2^32: tile indices are 32-bit unsigned integers
    FailingTiles    \* tiles whose closure may return an error

GridSize == WorkgroupCount[1] * WorkgroupCount[2] * WorkgroupCount[3]

\* shared_state->tile_count, a product of three 32-bit integers.
TileCount == GridSize % WordMod

ShardCount == IF TileCount < WorkerCount THEN TileCount ELSE WorkerCount
Shards == 1 .. ShardCount

TilesPerReservation ==
    IF TileCount < WorkerCount * MaxReservation THEN 1 ELSE MaxReservation

Tiles == 0 .. TileCount - 1

\* workgroup_xyz of a tile index.
WorkgroupXYZ(i) == <<i % WorkgroupCount[1],
                     (i \div WorkgroupCount[1]) % WorkgroupCount[2],
                     (i \div WorkgroupCount[1]) \div WorkgroupCount[2]>>

ASSUME GridAssumption ==
    /\ WorkgroupCount[1] \in Nat /\ WorkgroupCount[2] \in Nat /\ WorkgroupCount[3] \in Nat
    /\ WorkerCount \in Nat \ {0}
    /\ MaxReservation \in Nat \ {0}
    /\ WordMod \in Nat \ {0}

\* The counter does not reach 2^32 even with every shard claiming past the end.
ASSUME NoWrapAssumption ==
    TileCount + TilesPerReservation * (ShardCount + 1) <= WordMod

VARIABLES
    tile_index, \* shared_state->tile_index
    pc,         \* where each shard stands
    tile_base,  \* first tile of the range a shard works on
    next_base,  \* next_tile_base, claimed before the range is executed
    cursor,     \* tile_index of the inner loop
    runs        \* how often the closure was called for each tile

vars == <<tile_index, pc, tile_base, next_base, cursor, runs>>

Init ==
    /\ tile_index = 0
    /\ pc = [s \in Shards |-> "start"]
    /\ tile_base = [s \in Shards |-> 0]
    /\ next_base = [s \in Shards |-> 0]
    /\ cursor = [s \in Shards |-> 0]
    /\ runs = [i \in Tiles |-> 0]

\* Mutant: a claim reserves one tile only.
FetchAddByOne == tile_index' = (tile_index + 1) % WordMod

\* iree_atomic_fetch_add_int32(&shared_state->tile_index, tiles_per_reservation)
FetchAdd == tile_index' = (tile_index + TilesPerReservation) % WordMod

\* Mutant: the last range is cut one tile short.
RangeEndShort(b) == IF b + TilesPerReservation < TileCount THEN b + TilesPerReservation
                                                           ELSE TileCount - 1

\* tile_range of the range that starts at b.
RangeEnd(b) == IF b + TilesPerReservation < TileCount THEN b + TilesPerReservation
                                                      ELSE TileCount

\* The first claim of a shard.
ShardStart(s) ==
    /\ pc[s] = "start"
    /\ FetchAdd
    /\ tile_base' = [tile_base EXCEPT ![s] = tile_index]
    /\ pc' = [pc EXCEPT ![s] = "test"]
    /\ UNCHANGED <<next_base, cursor, runs>>

\* The range is inside the grid: claim the next one and start on this one.
ShardPrefetch(s) ==
    /\ pc[s] = "test"
    /\ tile_base[s] < TileCount
    /\ FetchAdd
    /\ next_base' = [next_base EXCEPT ![s] = tile_index]
    /\ cursor' = [cursor EXCEPT ![s] = tile_base[s]]
    /\ pc' = [pc EXCEPT ![s] = "tiles"]
    /\ UNCHANGED <<tile_base, runs>>

\* One call of the dispatch closure; an error ends the shard without retiring.
ShardTile(s) ==
    /\ pc[s] = "tiles"
    /\ cursor[s] < RangeEnd(tile_base[s])
    /\ runs' = [runs EXCEPT ![cursor[s]] = @ + 1]
    /\ cursor' = [cursor EXCEPT ![s] = @ + 1]
    /\ \/ pc' = pc
       \/ cursor[s] \in FailingTiles /\ pc' = [pc EXCEPT ![s] = "failed"]
    /\ UNCHANGED <<tile_index, tile_base, next_base>>

\* The range is finished: go on with the one claimed ahead.
ShardNextRange(s) ==
    /\ pc[s] = "tiles"
    /\ cursor[s] = RangeEnd(tile_base[s])
    /\ tile_base' = [tile_base EXCEPT ![s] = next_base[s]]
    /\ pc' = [pc EXCEPT ![s] = "test"]
    /\ UNCHANGED <<tile_index, next_base, cursor, runs>>

\* The range starts past the grid: the shard retires.
ShardRetire(s) ==
    /\ pc[s] = "test"
    /\ tile_base[s] >= TileCount
    /\ pc' = [pc EXCEPT ![s] = "retired"]
    /\ UNCHANGED <<tile_index, tile_base, next_base, cursor, runs>>

ShardStep(s) ==
    \/ ShardStart(s) \/ ShardPrefetch(s) \/ ShardTile(s)
    \/ ShardNextRange(s) \/ ShardRetire(s)

Ended == \A s \in Shards : pc[s] \in {"retired", "failed"}

Next == (\E s \in Shards : ShardStep(s)) \/ (Ended /\ UNCHANGED vars)

Spec == Init /\ [][Next]_vars


-----------------------------------------------------------------------------
\* Types of the state.
TypeOK ==
    /\ tile_index \in 0 .. WordMod - 1
    /\ pc \in [Shards -> {"start", "test", "tiles", "failed", "retired"}]
    /\ tile_base \in [Shards -> 0 .. WordMod - 1]
    /\ next_base \in [Shards -> 0 .. WordMod - 1]
    /\ cursor \in [Shards -> 0 .. TileCount]
    /\ runs \in [Tiles -> Nat]

\* No two shards call the closure for the same tile, however their claims of
\* the shared counter interleave.
TileAtMostOnce == \A i \in Tiles : runs[i] <= 1

\* When every shard has retired, which is what lets the dispatch retire, the
\* closure has run for every tile.
AllTilesWhenRetired ==
    (\A s \in Shards : pc[s] = "retired") => \A i \in Tiles : runs[i] = 1
=============================================================================
