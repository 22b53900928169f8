------------------------ MODULE DispatchShardsProofs ------------------------
(***************************************************************************)
(* Proofs about DispatchShards: for every grid, worker count and size of   *)
(* reservation no tile runs twice, and none is missed once every shard has *)
(* retired.                                                                *)
(***************************************************************************)
EXTENDS DispatchShards, FiniteSetTheorems, TLAPS

R == TilesPerReservation

\* Shard s has claimed tile i (i may lie past the grid) and not run it yet.
Owned(s, i) ==
    \/ pc[s] = "test" /\ tile_base[s] <= i /\ i < tile_base[s] + R
    \/ /\ pc[s] \in {"tiles", "failed"}
       /\ \/ cursor[s] <= i /\ i < tile_base[s] + R
          \/ next_base[s] <= i /\ i < next_base[s] + R

\* Shards that have made a claim past the grid; each makes at most one.
Overrun == {s \in Shards : \/ pc[s] = "retired"
                           \/ pc[s] = "test" /\ tile_base[s] >= TileCount
                           \/ pc[s] \in {"tiles", "failed"} /\ next_base[s] >= TileCount}

ShardOK(s) ==
    /\ pc[s] \in {"tiles", "failed"} =>
          /\ tile_base[s] <= cursor[s]
          /\ tile_base[s] < TileCount
          /\ cursor[s] <= RangeEnd(tile_base[s])
          /\ tile_base[s] + R <= next_base[s]
          /\ next_base[s] + R <= tile_index
    /\ pc[s] = "test" => tile_base[s] + R <= tile_index
    /\ pc[s] = "retired" => TileCount <= tile_index

Disjoint == \A s, r \in Shards : \A i \in Nat : s # r => ~(Owned(s, i) /\ Owned(r, i))

RunsExact ==
    \A i \in Tiles :
        /\ (i < tile_index /\ \A s \in Shards : ~Owned(s, i)) => runs[i] = 1
        /\ (i >= tile_index \/ \E s \in Shards : Owned(s, i)) => runs[i] = 0

Bounded == tile_index < TileCount + R * (Cardinality(Overrun) + 1)

IInv ==
    /\ TypeOK
    /\ \A s \in Shards : ShardOK(s)
    /\ Disjoint
    /\ RunsExact
    /\ Bounded

-----------------------------------------------------------------------------
\* The derived constants of a dispatch have the expected types.
LEMMA Constants ==
    /\ TileCount \in Nat /\ R \in Nat \ {0} /\ ShardCount \in Nat
    /\ WordMod \in Nat \ {0}
    /\ TileCount + R * (ShardCount + 1) <= WordMod
    /\ TileCount < WordMod
    /\ IsFiniteSet(Shards) /\ Cardinality(Shards) = ShardCount
    /\ ShardCount = 0 => TileCount = 0
<1>1. GridSize \in Nat
  <2>1. \A a, b \in Nat : a * b \in Nat OBVIOUS
  <2>2. QED BY <2>1, GridAssumption DEF GridSize
<1>2. \A n \in Nat, d \in Nat \ {0} : n % d \in Nat /\ n % d < d OBVIOUS
<1>3. TileCount \in Nat /\ TileCount < WordMod BY <1>1, <1>2, GridAssumption DEF TileCount
<1>4. R \in Nat \ {0} BY GridAssumption DEF R, TilesPerReservation
<1>5. ShardCount \in Nat /\ (ShardCount = 0 => TileCount = 0)
  BY <1>3, GridAssumption DEF ShardCount
<1>6. IsFiniteSet(Shards) /\ Cardinality(Shards) = ShardCount
  BY <1>5, FS_Interval DEF Shards
<1>7. QED BY <1>3, <1>4, <1>5, <1>6, GridAssumption, NoWrapAssumption DEF R

\* The initial states satisfy the invariant.
LEMMA InitInv == Init => IInv
<1> SUFFICES ASSUME Init PROVE IInv OBVIOUS
<1> USE Constants DEF Init
<1>1. TypeOK BY DEF TypeOK, Tiles
<1>2. \A s \in Shards : ShardOK(s) BY DEF ShardOK
<1>3. Disjoint BY DEF Disjoint, Owned
<1>4. RunsExact BY DEF RunsExact, Owned, Tiles
<1>5. Bounded
  <2>1. Overrun = {} BY DEF Overrun
  <2>2. Cardinality(Overrun) = 0 BY <2>1, FS_EmptySet
  <2>3. QED BY <2>2 DEF Bounded
<1>6. QED BY <1>1, <1>2, <1>3, <1>4, <1>5 DEF IInv

\* A claim by a shard that has not run past the grid keeps the counter below
\* its bound, so the fetch-and-add does not wrap.
LEMMA ClaimBounded ==
    ASSUME IInv, NEW s \in Shards, s \notin Overrun, FetchAdd,
           Overrun' = IF tile_index >= TileCount THEN Overrun \cup {s} ELSE Overrun
    PROVE  tile_index' = tile_index + R /\ tile_index' \in 0 .. WordMod - 1 /\ Bounded'
<1> USE Constants
<1> DEFINE k == Cardinality(Overrun)
           k1 == Cardinality(Overrun')
<1>1. IsFiniteSet(Overrun) /\ k \in Nat
  BY FS_Subset, FS_CardinalityType DEF Overrun
<1>2. Overrun' \subseteq Shards BY DEF Overrun
<1>3. k1 \in Nat /\ k1 <= ShardCount
  BY <1>2, FS_Subset, FS_CardinalityType
<1>4. k1 = IF tile_index >= TileCount THEN k + 1 ELSE k
  BY <1>1, FS_AddElement
<1>5. tile_index \in Nat /\ tile_index < TileCount + R * (k + 1)
  BY DEF IInv, TypeOK, Bounded
<1> HIDE DEF k, k1
<1>6. tile_index + R < TileCount + R * (k1 + 1)
  <2>1. CASE tile_index >= TileCount
    <3>1. R * (k1 + 1) = R * (k + 1) + R BY <1>1, <1>4, <2>1
    <3>2. R * (k + 1) \in Nat BY <1>1
    <3>3. QED BY <1>5, <3>1, <3>2
  <2>2. CASE tile_index < TileCount
    <3>1. R * (k1 + 1) = R * k1 + R /\ R * k1 \in Nat BY <1>3
    <3>2. QED BY <1>5, <2>2, <3>1
  <2>3. QED BY <1>5, <2>1, <2>2
<1>7. R * (k1 + 1) <= R * (ShardCount + 1)
  <2>1. PICK d \in Nat : ShardCount = k1 + d BY <1>3
  <2>2. R * (ShardCount + 1) = R * (k1 + 1) + R * d BY <2>1, <1>3
  <2>3. R * d \in Nat /\ R * (k1 + 1) \in Nat BY <1>3
  <2>4. QED BY <2>2, <2>3
<1>8. tile_index + R < WordMod
  <2>1. R * (k1 + 1) \in Nat /\ R * (ShardCount + 1) \in Nat BY <1>3
  <2>2. QED BY <1>5, <1>6, <1>7, <2>1
<1>9. tile_index' = tile_index + R
  <2>1. \A n \in Nat, d \in Nat \ {0} : n < d => n % d = n OBVIOUS
  <2>2. tile_index + R \in Nat BY <1>5
  <2>3. QED BY <1>8, <2>1, <2>2 DEF FetchAdd, R
<1>10. tile_index' \in 0 .. WordMod - 1 BY <1>5, <1>8, <1>9
<1>11. QED BY <1>6, <1>9, <1>10 DEF Bounded, k1

\* A claim takes the next R indices of the counter, which no shard owns.
LEMMA ClaimOwned ==
    ASSUME IInv, NEW s \in Shards, tile_index' = tile_index + R, UNCHANGED runs,
           \A r \in Shards, i \in Nat :
               Owned(r, i)' <=> \/ Owned(r, i)
                                \/ r = s /\ tile_index <= i /\ i < tile_index + R
    PROVE  Disjoint' /\ RunsExact'
<1> USE Constants
<1>1. tile_index \in Nat BY DEF IInv, TypeOK
<1>2. \A r \in Shards, i \in Nat : Owned(r, i) => i < tile_index
  <2> SUFFICES ASSUME NEW r \in Shards, NEW i \in Nat, Owned(r, i) PROVE i < tile_index
    OBVIOUS
  <2>1. ShardOK(r) BY DEF IInv
  <2>2. /\ tile_base[r] \in Nat /\ next_base[r] \in Nat /\ cursor[r] \in Nat
    BY DEF IInv, TypeOK
  <2>3. QED BY <1>1, <2>1, <2>2 DEF ShardOK, Owned
<1>3. Disjoint'
  <2> SUFFICES ASSUME NEW q \in Shards, NEW r \in Shards, NEW i \in Nat, q # r,
                      Owned(q, i)', Owned(r, i)'
               PROVE  FALSE
    BY DEF Disjoint
  <2>1. ~(Owned(q, i) /\ Owned(r, i)) BY DEF IInv, Disjoint
  <2>2. QED BY <1>1, <1>2, <2>1
<1>4. RunsExact'
  <2> SUFFICES ASSUME NEW i \in Tiles
               PROVE  /\ (i < tile_index' /\ \A r \in Shards : ~Owned(r, i)') => runs[i] = 1
                      /\ (i >= tile_index' \/ \E r \in Shards : Owned(r, i)') => runs[i] = 0
    BY DEF RunsExact
  <2>1. i \in Nat BY DEF Tiles
  <2>2. /\ (i < tile_index /\ \A r \in Shards : ~Owned(r, i)) => runs[i] = 1
        /\ (i >= tile_index \/ \E r \in Shards : Owned(r, i)) => runs[i] = 0
    BY DEF IInv, RunsExact
  <2>3. QED BY <1>1, <1>2, <2>1, <2>2
<1>5. QED BY <1>3, <1>4

\* The first claim of a shard preserves the invariant.
LEMMA StartInv == ASSUME IInv, NEW s \in Shards, ShardStart(s) PROVE IInv'
<1> USE Constants DEF ShardStart
<1>0. TypeOK BY DEF IInv
<1>1. s \notin Overrun BY DEF Overrun
<1>2. Overrun' = IF tile_index >= TileCount THEN Overrun \cup {s} ELSE Overrun
  BY <1>0 DEF Overrun, TypeOK
<1>3. tile_index' = tile_index + R /\ tile_index' \in 0 .. WordMod - 1 /\ Bounded'
  BY <1>1, <1>2, ClaimBounded
<1>4. TypeOK' BY <1>0, <1>3 DEF TypeOK
<1>5. ASSUME NEW r \in Shards PROVE ShardOK(r)'
  <2>1. ShardOK(r) BY DEF IInv
  <2>2. QED BY <1>0, <1>3, <2>1 DEF ShardOK, TypeOK, RangeEnd
<1>6. ASSUME NEW r \in Shards, NEW i \in Nat
      PROVE  Owned(r, i)' <=> \/ Owned(r, i)
                              \/ r = s /\ tile_index <= i /\ i < tile_index + R
  <2>1. CASE r = s
    <3>1. pc[s] = "start" /\ pc'[s] = "test" /\ tile_base'[s] = tile_index
      BY <1>0 DEF TypeOK
    <3>2. QED BY <2>1, <3>1 DEF Owned
  <2>2. CASE r # s BY <1>0, <2>2 DEF Owned, TypeOK
  <2>3. QED BY <2>1, <2>2
<1>7. Disjoint' /\ RunsExact' BY <1>3, <1>6, ClaimOwned
<1>8. QED BY <1>3, <1>4, <1>5, <1>7 DEF IInv

\* Claiming the next range before executing this one preserves the invariant.
LEMMA PrefetchInv == ASSUME IInv, NEW s \in Shards, ShardPrefetch(s) PROVE IInv'
<1> USE Constants DEF ShardPrefetch
<1>0. TypeOK BY DEF IInv
<1>1. s \notin Overrun BY <1>0 DEF Overrun, TypeOK
<1>2. Overrun' = IF tile_index >= TileCount THEN Overrun \cup {s} ELSE Overrun
  BY <1>0 DEF Overrun, TypeOK
<1>3. tile_index' = tile_index + R /\ tile_index' \in 0 .. WordMod - 1 /\ Bounded'
  BY <1>1, <1>2, ClaimBounded
<1>4. TypeOK' BY <1>0, <1>3 DEF TypeOK
<1>5. ASSUME NEW r \in Shards PROVE ShardOK(r)'
  <2>1. ShardOK(r) BY DEF IInv
  <2>2. QED BY <1>0, <1>3, <2>1 DEF ShardOK, TypeOK, RangeEnd, R
<1>6. ASSUME NEW r \in Shards, NEW i \in Nat
      PROVE  Owned(r, i)' <=> \/ Owned(r, i)
                              \/ r = s /\ tile_index <= i /\ i < tile_index + R
  <2>1. CASE r = s
    <3>1. /\ pc[s] = "test" /\ pc'[s] = "tiles"
          /\ cursor'[s] = tile_base[s] /\ tile_base'[s] = tile_base[s]
          /\ next_base'[s] = tile_index
      BY <1>0 DEF TypeOK
    <3>2. QED BY <2>1, <3>1 DEF Owned
  <2>2. CASE r # s BY <1>0, <2>2 DEF Owned, TypeOK
  <2>3. QED BY <2>1, <2>2
<1>7. Disjoint' /\ RunsExact' BY <1>3, <1>6, ClaimOwned
<1>8. QED BY <1>3, <1>4, <1>5, <1>7 DEF IInv

\* Calling the closure for one tile preserves the invariant: the shard owned
\* the tile and gives it up.
LEMMA TileInv == ASSUME IInv, NEW s \in Shards, ShardTile(s) PROVE IInv'
<1> USE Constants DEF ShardTile
<1>0. TypeOK /\ ShardOK(s) BY DEF IInv
<1> DEFINE c == cursor[s]
<1>1. /\ c \in Tiles /\ c \in Nat /\ c < TileCount /\ c < tile_base[s] + R
      /\ tile_base[s] \in Nat /\ next_base[s] \in Nat /\ tile_index \in Nat
      /\ c < next_base[s] /\ c < tile_index
  <2>1. /\ tile_base[s] \in Nat /\ next_base[s] \in Nat /\ tile_index \in Nat
        /\ c \in Nat
    BY <1>0 DEF TypeOK
  <2>2. c < TileCount /\ c < tile_base[s] + R BY <2>1 DEF RangeEnd, R
  <2>3. tile_base[s] + R <= next_base[s] /\ next_base[s] + R <= tile_index
    BY <1>0 DEF ShardOK
  <2>4. c \in Tiles BY <2>1, <2>2 DEF Tiles
  <2>5. QED BY <2>1, <2>2, <2>3, <2>4
<1>a. /\ pc[s] = "tiles" /\ pc'[s] \in {"tiles", "failed"} /\ cursor'[s] = c + 1
      /\ tile_base'[s] = tile_base[s] /\ next_base'[s] = next_base[s]
  BY <1>0 DEF TypeOK
<1>2. TypeOK' BY <1>0, <1>1 DEF TypeOK
<1>3. ASSUME NEW r \in Shards PROVE ShardOK(r)'
  <2>1. ShardOK(r) BY DEF IInv
  <2>2. CASE r = s
    <3>1. c + 1 <= RangeEnd(tile_base[s])
      BY <1>1 DEF RangeEnd, R
    <3>2. QED BY <1>0, <1>1, <1>a, <2>2, <3>1 DEF ShardOK, RangeEnd
  <2>3. CASE r # s BY <1>0, <2>1, <2>3 DEF ShardOK, TypeOK, RangeEnd
  <2>4. QED BY <2>2, <2>3
<1>4. ASSUME NEW r \in Shards, NEW i \in Nat
      PROVE  Owned(r, i)' <=> Owned(r, i) /\ ~(r = s /\ i = c)
  <2>1. CASE r = s BY <1>1, <1>a, <2>1 DEF Owned
  <2>2. CASE r # s BY <1>0, <2>2 DEF Owned, TypeOK
  <2>3. QED BY <2>1, <2>2
<1>5. Owned(s, c) BY <1>1 DEF Owned
<1>6. Disjoint' BY <1>4 DEF IInv, Disjoint
<1>7. RunsExact'
  <2> SUFFICES ASSUME NEW i \in Tiles
               PROVE  /\ (i < tile_index /\ \A r \in Shards : ~Owned(r, i)') => runs'[i] = 1
                      /\ (i >= tile_index \/ \E r \in Shards : Owned(r, i)') => runs'[i] = 0
    BY DEF RunsExact
  <2>1. i \in Nat BY DEF Tiles
  <2>2. /\ (i < tile_index /\ \A r \in Shards : ~Owned(r, i)) => runs[i] = 1
        /\ (i >= tile_index \/ \E r \in Shards : Owned(r, i)) => runs[i] = 0
    BY DEF IInv, RunsExact
  <2>3. CASE i = c
    <3>1. runs[i] = 0 BY <1>5, <2>2, <2>3
    <3>2. runs'[i] = 1 BY <1>0, <3>1, <2>3 DEF TypeOK
    <3>3. \A r \in Shards : ~Owned(r, i)'
      BY <1>4, <1>5, <2>1, <2>3 DEF IInv, Disjoint
    <3>4. QED BY <1>1, <2>3, <3>2, <3>3
  <2>4. CASE i # c
    <3>1. runs'[i] = runs[i] BY <1>0, <2>4 DEF TypeOK
    <3>2. \A r \in Shards : Owned(r, i)' <=> Owned(r, i) BY <1>4, <2>1, <2>4
    <3>3. QED BY <2>2, <3>1, <3>2
  <2>5. QED BY <2>3, <2>4
<1>8. Bounded'
  <2>1. Overrun' = Overrun BY <1>0 DEF Overrun, TypeOK
  <2>2. QED BY <2>1 DEF IInv, Bounded
<1>9. QED BY <1>2, <1>3, <1>6, <1>7, <1>8 DEF IInv

\* A step that changes neither the counter, the runs, what is owned inside the
\* grid, nor the shards past the grid preserves the shared part.
LEMMA SharedKept ==
    ASSUME IInv, UNCHANGED <<tile_index, runs>>, Overrun' = Overrun,
           \A r \in Shards, i \in Nat : Owned(r, i)' => Owned(r, i),
           \A r \in Shards, i \in Tiles : Owned(r, i)' <=> Owned(r, i)
    PROVE  Disjoint' /\ RunsExact' /\ Bounded'
<1>1. Disjoint' BY DEF IInv, Disjoint
<1>2. RunsExact' BY DEF IInv, RunsExact
<1>3. Bounded' BY DEF IInv, Bounded
<1>4. QED BY <1>1, <1>2, <1>3

\* Going on with the range claimed ahead preserves the invariant.
LEMMA NextRangeInv == ASSUME IInv, NEW s \in Shards, ShardNextRange(s) PROVE IInv'
<1> USE Constants DEF ShardNextRange
<1>0. TypeOK /\ ShardOK(s) BY DEF IInv
<1>1. TypeOK' BY <1>0 DEF TypeOK
<1>2. ASSUME NEW r \in Shards PROVE ShardOK(r)'
  <2>1. ShardOK(r) BY DEF IInv
  <2>2. QED BY <1>0, <2>1 DEF ShardOK, TypeOK
<1>3. Overrun' = Overrun BY <1>0 DEF Overrun, TypeOK
<1>4. ASSUME NEW r \in Shards, NEW i \in Nat
      PROVE  /\ Owned(r, i)' => Owned(r, i)
             /\ i \in Tiles => (Owned(r, i)' <=> Owned(r, i))
  <2>1. CASE r = s BY <1>0, <2>1 DEF Owned, TypeOK, ShardOK, RangeEnd, Tiles, R
  <2>2. CASE r # s BY <1>0, <2>2 DEF Owned, TypeOK
  <2>3. QED BY <2>1, <2>2
<1>5. Tiles \subseteq Nat BY DEF Tiles
<1>6. Disjoint' /\ RunsExact' /\ Bounded' BY <1>3, <1>4, <1>5, SharedKept
<1>7. QED BY <1>1, <1>2, <1>6 DEF IInv

\* Retiring a shard whose range lies past the grid preserves the invariant.
LEMMA RetireInv == ASSUME IInv, NEW s \in Shards, ShardRetire(s) PROVE IInv'
<1> USE Constants DEF ShardRetire
<1>0. TypeOK /\ ShardOK(s) BY DEF IInv
<1>1. TypeOK' BY <1>0 DEF TypeOK
<1>2. ASSUME NEW r \in Shards PROVE ShardOK(r)'
  <2>1. ShardOK(r) BY DEF IInv
  <2>2. QED BY <1>0, <2>1 DEF ShardOK, TypeOK
<1>3. Overrun' = Overrun BY <1>0 DEF Overrun, TypeOK
<1>4. ASSUME NEW r \in Shards, NEW i \in Nat
      PROVE  /\ Owned(r, i)' => Owned(r, i)
             /\ i \in Tiles => (Owned(r, i)' <=> Owned(r, i))
  <2>1. CASE r = s BY <1>0, <2>1 DEF Owned, TypeOK, Tiles
  <2>2. CASE r # s BY <1>0, <2>2 DEF Owned, TypeOK
  <2>3. QED BY <2>1, <2>2
<1>5. Tiles \subseteq Nat BY DEF Tiles
<1>6. Disjoint' /\ RunsExact' /\ Bounded' BY <1>3, <1>4, <1>5, SharedKept
<1>7. QED BY <1>1, <1>2, <1>6 DEF IInv

\* The claims of the shards stay disjoint and accounted for in every behaviour.
THEOREM Invariance == Spec => []IInv
<1>1. ASSUME IInv, [Next]_vars PROVE IInv'
  <2>1. ASSUME NEW s \in Shards, ShardStep(s) PROVE IInv'
    BY <1>1, <2>1, StartInv, PrefetchInv, TileInv, NextRangeInv, RetireInv DEF ShardStep
  <2>2. CASE UNCHANGED vars
    <3>1. TypeOK' /\ (\A s \in Shards : ShardOK(s))'
      BY <1>1, <2>2 DEF vars, IInv, TypeOK, ShardOK, RangeEnd
    <3>2. Overrun' = Overrun BY <2>2 DEF vars, Overrun
    <3>3. \A r \in Shards, i \in Nat : Owned(r, i)' <=> Owned(r, i)
      BY <2>2 DEF vars, Owned
    <3>4. Tiles \subseteq Nat BY Constants DEF Tiles
    <3>5. Disjoint' /\ RunsExact' /\ Bounded'
      BY <1>1, <2>2, <3>2, <3>3, <3>4, SharedKept DEF vars
    <3>6. QED BY <3>1, <3>5 DEF IInv
  <2>3. QED BY <1>1, <2>1, <2>2 DEF Next
<1>2. QED BY <1>1, InitInv, PTL DEF Spec

\* The counter stays within its word and cursors within the grid.
THEOREM TypeCorrect == Spec => []TypeOK
BY Invariance, PTL DEF IInv

\* For every grid and any number of workers no tile is executed twice.
THEOREM TileAtMostOnceHolds == Spec => []TileAtMostOnce
<1>1. IInv => TileAtMostOnce
  <2> SUFFICES ASSUME IInv, NEW i \in Tiles PROVE runs[i] <= 1 BY DEF TileAtMostOnce
  <2>1. i \in Nat /\ tile_index \in Nat BY Constants DEF Tiles, IInv, TypeOK
  <2>2. runs[i] = 0 \/ runs[i] = 1 BY <2>1 DEF IInv, RunsExact
  <2>3. QED BY <2>2
<1>2. QED BY <1>1, Invariance, PTL

\* For every grid and any number of workers a dispatch whose shards have all
\* retired has executed every tile.
THEOREM AllTilesWhenRetiredHolds == Spec => []AllTilesWhenRetired
<1>1. IInv => AllTilesWhenRetired
  <2> SUFFICES ASSUME IInv, \A s \in Shards : pc[s] = "retired", NEW i \in Tiles
               PROVE  runs[i] = 1
    BY DEF AllTilesWhenRetired
  <2>1. 1 \in Shards BY Constants DEF Tiles, Shards
  <2>2. TileCount <= tile_index BY <2>1 DEF IInv, ShardOK
  <2>3. i < tile_index BY <2>2, Constants DEF Tiles, IInv, TypeOK
  <2>4. \A s \in Shards : ~Owned(s, i) BY DEF Owned
  <2>5. QED BY <2>3, <2>4 DEF IInv, RunsExact
<1>2. QED BY <1>1, Invariance, PTL
=============================================================================
