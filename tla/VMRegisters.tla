---------------------------- MODULE VMRegisters ----------------------------
(***************************************************************************)
(* What the compiler decides about registers when it turns a VM function   *)
(* into bytecode: value liveness, register allocation, the ordering of the *)
(* register moves a branch makes, and the move bit of an encoded operand   *)
(* (compiler/Dialect/VM/Analysis and Target/Bytecode/BytecodeEncoder.cpp). *)
(*                                                                         *)
(* A function is [refs, results, blocks]: the set of its ref-typed values  *)
(* (the others are 4-byte integers), the number of its results and its     *)
(* blocks, the first one the entry.  A block is [args, ops] and ends in    *)
(* its terminator.  An op is                                               *)
(* [op, in, out, succ, callee]; succ is the sequence of its successors     *)
(* [to, in] with the operands passed to the target block's arguments.      *)
(***************************************************************************)
EXTENDS Integers, Sequences, FiniteSets, SequencesExt, FiniteSetsExt

---------------------------------------------------------------------------
\* Functions, blocks and uses.

Blocks(f) == DOMAIN f.blocks

\* Operation::getOpOperands: a branch's successor operands come last.
Operands(o) == o.in \o FlattenSeq([s \in DOMAIN o.succ |-> o.succ[s].in])

Uses(o) == ToSet(o.in) \cup UNION {ToSet(o.succ[s].in) : s \in DOMAIN o.succ}

UsedIn(f, b) == UNION {Uses(f.blocks[b].ops[i]) : i \in DOMAIN f.blocks[b].ops}

ResultsIn(f, b) ==
  UNION {ToSet(f.blocks[b].ops[i].out) : i \in DOMAIN f.blocks[b].ops}

DefinedIn(f, b) == ToSet(f.blocks[b].args) \cup ResultsIn(f, b)

IsUsed(f, v) == \E b \in Blocks(f) : v \in UsedIn(f, b)

Successors(f, b) ==
  LET last == Last(f.blocks[b].ops) IN {last.succ[s].to : s \in DOMAIN last.succ}

Predecessors(f, b) == {p \in Blocks(f) : b \in Successors(f, p)}

---------------------------------------------------------------------------
\* ValueLiveness.

\* The escaping results of a block, before propagation.
InitialLiveOut(f, b) ==
  {v \in ResultsIn(f, b) : \E c \in Blocks(f) \ {b} : v \in UsedIn(f, c)}

InitialLiveIn(f, b) ==
  (UsedIn(f, b) \cup InitialLiveOut(f, b)) \ DefinedIn(f, b)

\* worklist.insert of a SmallSetVector: nothing is queued twice.
InsertAll(work, S) == work \o SetToSeq(S \ ToSet(work))

RECURSIVE Propagate(_, _, _)
Propagate(f, sets, work) ==
  IF work = <<>> THEN sets
  ELSE LET b == Last(work)
           out == sets.out[b] \cup UNION {sets.in[s] : s \in Successors(f, b)}
           in == (out \cup UsedIn(f, b)) \ DefinedIn(f, b)
           changed == Cardinality(in) # Cardinality(sets.in[b])
       IN Propagate(f, [in |-> [sets.in EXCEPT ![b] = in],
                        out |-> [sets.out EXCEPT ![b] = out]],
                    InsertAll(Front(work),
                              IF changed THEN Predecessors(f, b) ELSE {}))

LivenessSets(f) ==
  LET in == [b \in Blocks(f) |-> InitialLiveIn(f, b)]
      seeds == UNION {Predecessors(f, b) : b \in {c \in Blocks(f) : in[c] # {}}}
  IN Propagate(f, [in |-> in, out |-> [b \in Blocks(f) |-> InitialLiveOut(f, b)]],
               InsertAll(<<1>>, seeds))

\* The live range of a value that does not leave the block ends at its last
\* use in the block, so the bit after op i says whether a later op uses it.
IsLastValueUse(f, live, v, b, i) ==
  /\ v \notin live.out[b]
  /\ \A j \in i + 1 .. Len(f.blocks[b].ops) : v \notin Uses(f.blocks[b].ops[j])

---------------------------------------------------------------------------
\* RegisterAllocation::recalculate.  A register is <<bank, ordinal>>.

Bank(f, v) == IF v \in f.refs THEN "ref" ELSE "i32"

\* find_first_unset in the bank's bitmap of used ordinals.
FirstUnset(used, bank) ==
  Min({n \in 0 .. Cardinality(used) : <<bank, n>> \notin used})

\* The allocation state: map_, the registers in use, the largest ordinals.
Allocate(f, a, v) ==
  LET bank == Bank(f, v)
      n == FirstUnset(a.used, bank)
  IN [a EXCEPT !.map[v] = <<bank, n>>,
               !.used = @ \cup {<<bank, n>>},
               !.max[bank] = IF n > @ THEN n ELSE @]

\* Releases the registers of the values in S.
ReleaseAll(a, S) == [a EXCEPT !.used = @ \ {a.map[v] : v \in S}]

AllocateResult(f, a, v) ==
  LET b == Allocate(f, a, v)
  IN IF IsUsed(f, v) THEN b ELSE ReleaseAll(b, {v})

AllocateOp(f, live, b, a, i) ==
  LET o == f.blocks[b].ops[i]
      dying == {v \in Uses(o) : IsLastValueUse(f, live, v, b, i)}
  IN FoldLeft(LAMBDA x, v : AllocateResult(f, x, v), ReleaseAll(a, dying), o.out)

\* Live-ins are marked, arguments allocated left to right, unused arguments
\* released, then every op in order.
AllocateBlock(f, live, a, b) ==
  LET args == f.blocks[b].args
      marked == [a EXCEPT !.used = {a.map[v] : v \in live.in[b]}]
      entered == FoldLeft(LAMBDA x, v : Allocate(f, x, v), marked, args)
      begun == ReleaseAll(entered, {v \in ToSet(args) : ~IsUsed(f, v)})
  IN FoldLeft(LAMBDA x, i : AllocateOp(f, live, b, x, i), begun,
              [i \in DOMAIN f.blocks[b].ops |-> i])

RECURSIVE Reached(_, _, _)
Reached(f, seen, avoid) ==
  LET next == seen \cup (UNION {Successors(f, b) : b \in seen} \ {avoid})
  IN IF next = seen THEN seen ELSE Reached(f, next, avoid)

Dominators(f, b) ==
  {d \in Blocks(f) : d \in {1, b} \/ b \notin Reached(f, {1}, d)}

\* Dominators first, so every live-in of a block already has its register.
SortBlocksInDominanceOrder(f) ==
  LET depth == [b \in Blocks(f) |-> Cardinality(Dominators(f, b))]
  IN SetToSortSeq(Blocks(f), LAMBDA x, y :
       depth[x] < depth[y] \/ (depth[x] = depth[y] /\ x < y))

Values(f) == UNION {DefinedIn(f, b) : b \in Blocks(f)}

Recalculate(f, live) ==
  FoldLeft(LAMBDA a, b : AllocateBlock(f, live, a, b),
           [map |-> [v \in Values(f) |-> <<Bank(f, v), -1>>],
            used |-> {}, max |-> [ref |-> -1, i32 |-> -1]],
           SortBlocksInDominanceOrder(f))

---------------------------------------------------------------------------
\* FeedbackArcSet::compute.  An edge is <<source, sink>>; nodes are visited
\* in the iteration order of a hash map, the sequence order.

NodesOf(edges) == UNION {ToSet(edges[e]) : e \in DOMAIN edges}

Degree(edges, n, end) == Cardinality({e \in DOMAIN edges : edges[e][end] = n})

\* The graph being taken apart: in/out degrees, the buckets by degree
\* difference with sources and sinks in the last one (top).
NodeToBucketIndex(g, n) ==
  LET d == g.deg[n] IN
  IF d.in = 0 \/ d.out = 0 THEN g.top
  ELSE IF d.out > d.in THEN d.out - d.in ELSE d.in - d.out

AssignBucket(g, n) ==
  [g EXCEPT !.buckets[NodeToBucketIndex(g, n)] = Append(@, n)]

RemoveBucket(g, n) ==
  [g EXCEPT !.buckets[NodeToBucketIndex(g, n)] = RemoveFirst(@, n)]

\* One edge of a removed node goes: its other end changes bucket.
DropEnd(g, n, side) ==
  LET dropped == [RemoveBucket(g, n) EXCEPT !.deg[n][side] = @ - 1]
  IN AssignBucket(dropped, n)

\* removeNode; collect says whether the caller keeps the edges it returns.
RemoveNode(g, n, collect) ==
  LET ins == SelectSeq(g.edges, LAMBDA e : e[2] = n)
      outs == SelectSeq(g.edges, LAMBDA e : e[1] = n)
      cut == IF g.deg[n].in <= g.deg[n].out THEN ins ELSE outs
      h1 == FoldLeft(LAMBDA h, e : DropEnd(h, e[1], "out"), g, ins)
      h2 == FoldLeft(LAMBDA h, e : DropEnd(h, e[2], "in"), h1, outs)
  IN [h2 EXCEPT !.left = @ \ {n},
                !.edges = SelectSeq(@, LAMBDA e : n \notin ToSet(e)),
                !.feedback = IF collect THEN @ \o cut ELSE @]

RECURSIVE RemoveByDegree(_)
RemoveByDegree(g) ==
  IF g.left = {} THEN g
  ELSE LET i == Max({k \in DOMAIN g.buckets : g.buckets[k] # <<>>})
           n == Head(g.buckets[i])
       IN RemoveByDegree(RemoveNode([g EXCEPT !.buckets[i] = Tail(@)], n, TRUE))

\* The graph of the edges before any node is in a bucket.
EdgeGraph(edges, deg, top) ==
  [edges |-> edges, deg |-> deg, top |-> top,
   buckets |-> [k \in 0 .. top |-> <<>>],
   left |-> DOMAIN deg, feedback |-> <<>>]

MaxDegree(deg) == Max(UNION {{deg[n].in, deg[n].out} : n \in DOMAIN deg})

Degrees(edges) == [n \in NodesOf(edges) |->
                     [in |-> Degree(edges, n, 2), out |-> Degree(edges, n, 1)]]

\* First the sources and sinks of the whole graph (a copy of the last
\* bucket), whose edges are on no cycle, then the rest by degree.
TakeApart(g) ==
  RemoveByDegree(FoldLeft(LAMBDA h, n : RemoveNode(h, n, FALSE), g, g.buckets[g.top]))

GraphWith(edges, deg, order) ==
  FoldLeft(AssignBucket, EdgeGraph(edges, deg, MaxDegree(deg) + 1),
           SelectSeq(order, LAMBDA n : n \in DOMAIN deg))

FeedbackEdges(edges, order) ==
  TakeApart(GraphWith(edges, Degrees(edges), order)).feedback

\* Post-order from node over the acyclic edges.
RECURSIVE Visit(_, _, _)
Visit(edges, marked, n) ==
  IF Contains(marked, n) THEN marked
  ELSE Append(FoldLeft(LAMBDA m, e : Visit(edges, m, e[2]), marked,
                       SelectSeq(edges, LAMBDA e : e[1] = n)), n)

\* A SmallSetVector: first insertions, in order.
Distinct(s) == FoldLeft(LAMBDA t, x : IF Contains(t, x) THEN t ELSE Append(t, x), <<>>, s)

LeavingEach(marked, edges) ==
  FlattenSeq([k \in DOMAIN marked |-> SelectSeq(edges, LAMBDA e : e[1] = marked[k])])

TopologicalOrder(edges) ==
  LeavingEach(FoldLeft(LAMBDA m, n : Visit(edges, m, n), <<>>,
                       Reverse(Distinct(FlattenSeq(edges)))), edges)

Separate(edges, feedback) ==
  [acyclic |-> TopologicalOrder(SelectSeq(edges, LAMBDA e : ~Contains(feedback, e))),
   feedback |-> feedback]

FeedbackArcSet(edges, order) ==
  IF Len(edges) <= 1 THEN [acyclic |-> edges, feedback |-> <<>>]
  ELSE Separate(edges, FeedbackEdges(edges, order))

---------------------------------------------------------------------------
\* RegisterAllocation::remapSuccessorRegisters.

\* The moves that put the successor operands into the block arguments.
RegisterEdges(f, map, s) ==
  SelectSeq([k \in DOMAIN s.in |-> <<map[s.in[k]], map[f.blocks[s.to].args[k]]>>],
            LAMBDA e : e[1] # e[2])

\* Every feedback edge goes through a scratch register past the bank's
\* largest ordinal: saved before all other moves, restored after them.
ThroughScratch(fas, max) ==
  LET bank(j) == fas.feedback[j][1][1]
      nth(j) == Cardinality({k \in 1 .. j : bank(k) = bank(j)})
      scratch(j) == <<bank(j), max[bank(j)] + nth(j)>>
      cut == DOMAIN fas.feedback
  IN [moves |-> Reverse([j \in cut |-> <<fas.feedback[j][1], scratch(j)>>])
                \o fas.acyclic
                \o [j \in cut |-> <<scratch(j), fas.feedback[j][2]>>],
      scratch |-> [k \in {"ref", "i32"} |->
                     Cardinality({j \in cut : bank(j) = k})]]

\* Mutant: the moves are made in argument order, cycles or not.
UnsortedRemap(f, alloc, s, order) ==
  [moves |-> RegisterEdges(f, alloc.map, s), scratch |-> [ref |-> 0, i32 |-> 0]]

RemapSuccessorRegisters(f, alloc, s, order) ==
  ThroughScratch(FeedbackArcSet(RegisterEdges(f, alloc.map, s), order), alloc.max)

---------------------------------------------------------------------------
\* BytecodeEncoder: what a function looks like to the interpreter.

\* The operand index the encoder asks liveness about: an encoded variadic
\* list counts from zero again.
OperandIndex(o, k) == IF o.op = "switch.ref" /\ k > 2 THEN k - 3 ELSE k - 1

\* Mutant: every occurrence of a value in its last user may move it.
EveryOccurrence(f, live, b, i, k) ==
  LET o == f.blocks[b].ops[i] IN
  o.in[k] \in f.refs /\ IsLastValueUse(f, live, o.in[k], b, i)

\* mapUseToRegister: the move bit of operand k of op i of block b.
IsMove(f, live, b, i, k) ==
  LET o == f.blocks[b].ops[i]
      last == Max({j \in DOMAIN Operands(o) : Operands(o)[j] = o.in[k]})
  IN /\ o.in[k] \in f.refs
     /\ IsLastValueUse(f, live, o.in[k], b, i)
     /\ OperandIndex(o, k) >= last - 1

\* remapSuccessorRegisters overwrites the scratch count of a bank whenever a
\* branch needs one: the last such branch decides.
ScratchCount(remaps, bank) ==
  LET counts == SelectSeq([r \in DOMAIN remaps |-> remaps[r].scratch[bank]],
                          LAMBDA n : n > 0)
  IN IF counts = <<>> THEN 0 ELSE Last(counts)

\* encodeBranch of every successor of every block.
EncodeBranches(f, alloc, order) ==
  [b \in Blocks(f) |->
    LET succ == Last(f.blocks[b].ops).succ
    IN [s \in DOMAIN succ |-> RemapSuccessorRegisters(f, alloc, succ[s], order)]]

MoveBits(f, live) ==
  [b \in Blocks(f) |-> [i \in DOMAIN f.blocks[b].ops |->
    {k \in DOMAIN f.blocks[b].ops[i].in : IsMove(f, live, b, i, k)}]]

Encoded(f, live, alloc, remap) ==
  [func |-> f, reg |-> alloc.map, move |-> MoveBits(f, live),
   remap |-> [b \in Blocks(f) |-> [s \in DOMAIN remap[b] |-> remap[b][s].moves]],
   count |-> [k \in {"ref", "i32"} |->
                alloc.max[k] + 1 + ScratchCount(FlattenSeq(remap), k)]]

Allocated(f, live, alloc, order) ==
  Encoded(f, live, alloc, EncodeBranches(f, alloc, order))

Analyzed(f, live, order) == Allocated(f, live, Recalculate(f, live), order)

\* encodeFunction.
EncodeFunction(f, order) == Analyzed(f, LivenessSets(f), order)
============================================================================
