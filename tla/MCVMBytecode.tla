--------------------------- MODULE MCVMBytecode ----------------------------
(***************************************************************************)
(* Families of small modules for VMBytecode.  a b c d are ref parameters,  *)
(* n an integer one; values of other blocks and functions have own names.  *)
(***************************************************************************)
EXTENDS VMBytecode

o(op, in, out) == [op |-> op, in |-> in, out |-> out, succ |-> <<>>, callee |-> 0]
Br(to, in) == [o("br", <<>>, <<>>) EXCEPT !.succ = <<[to |-> to, in |-> in]>>]
CondBr(c, to1, in1, to2, in2) ==
  [o("cond_br", <<c>>, <<>>) EXCEPT !.succ = <<[to |-> to1, in |-> in1], [to |-> to2, in |-> in2]>>]
Ret(in) == o("return", in, <<>>)
FailOp == o("fail", <<"n">>, <<>>)
CallTo(n, in, out) == [o("call", in, out) EXCEPT !.callee = n]
Block(args, ops) == [args |-> args, ops |-> ops]
Function(refs, results, blocks) == [refs |-> refs, results |-> results, blocks |-> blocks]

\* The ops with operands in R; a result, if any, is x.
OpsOn(R, x) ==
  {o("const.ref.zero", <<>>, <<x>>), o("list.alloc", <<>>, <<x>>),
   o("global.load.ref", <<>>, <<x>>)}
  \cup {o(k[1], k[2], k[3]) : k \in UNION {
          {<<"list.get.ref", <<v, "n">>, <<x>>>>, <<"list.resize", <<v, "n">>, <<>>>>,
           <<"global.store.ref", <<v>>, <<>>>>, <<"cmp.ref", <<v>>, <<"i">>>>,
           <<"call.import", <<v>>, <<x>>>>} : v \in R}}
  \cup {o("list.set.ref", <<v, "n", w>>, <<>>) : v, w \in R}
  \cup {o("cmp.ref", <<v, w>>, <<"i">>) : v, w \in R}
  \cup {o("select.ref", <<"n", v, w>>, <<x>>) : v, w \in R}
  \cup {o("switch.ref", <<"n", v, w>>, <<x>>) : v, w \in R}

\* The refs in scope after op k over the refs R.
After(k, R) == R \cup (ToSet(k.out) \ {"i"})

Pairs(S) == {p \in S \X S : p[1] # p[2]}

---------------------------------------------------------------------------
\* Two ops in one block and a return of two of the refs in scope.
InScope(k1, k2, p) ==
  LET R1 == After(k1, {"a", "b"}) IN
  ToSet(k2.in) \subseteq R1 \cup {"n"} /\ ToSet(p) \subseteq After(k2, R1)

StraightLine ==
  {<<Function({"a", "b", "x", "y"}, 2, <<Block(<<"a", "b", "n">>, <<t[1], t[2], Ret(t[3])>>)>>)>> :
    t \in {u \in OpsOn({"a", "b"}, "x") \X OpsOn({"a", "b", "x"}, "y")
                   \X Pairs({"a", "b", "x", "y"}) : InScope(u[1], u[2], u[3])}}

\* A loop that passes its N arguments to itself through every map in Maps.
Names == <<"p", "q", "r", "s">>
Params == <<"a", "b", "c", "d">>
Shuffle(N, Maps) ==
  {<<Function(ToSet(Names) \cup ToSet(Params), N,
      <<Block(SubSeq(Params, 1, N) \o <<"n">>, <<Br(2, SubSeq(Params, 1, N))>>),
        Block(SubSeq(Names, 1, N), <<CondBr("n", 2, [k \in 1 .. N |-> Names[m[k]]], 3, <<>>)>>),
        Block(<<>>, <<Ret(SubSeq(Names, 1, N))>>)>>)>> : m \in Maps}

\* A loop that swaps two pairs of its arguments, or none, and leaves through a
\* permutation of them: branches that need different numbers of scratch registers.
\* Values `kept` are live throughout.
Outs == <<"w", "x", "y", "z">>
SwapsThen(kept, loop, exit) ==
  LET pass(from, m) == [k \in 1 .. 4 |-> from[m[k]]] IN
  <<Function(ToSet(Names) \cup ToSet(Params) \cup ToSet(Outs) \cup ToSet(kept), 4,
      <<Block(Params \o <<"n">>,
              [k \in DOMAIN kept |-> o("const.ref.zero", <<>>, <<kept[k]>>)] \o <<Br(2, Params)>>),
        Block(Names, <<CondBr("n", 2, pass(Names, loop), 3, pass(Names, exit))>>),
        Block(Outs, [k \in DOMAIN kept |-> o("global.store.ref", <<kept[k]>>, <<>>)] \o <<Ret(Outs)>>)>>)>>
UnevenScratch ==
  {SwapsThen(<<>>, loop, exit) : loop \in {<<1, 2, 3, 4>>, <<2, 1, 4, 3>>},
                                 exit \in {m \in [1 .. 4 -> 1 .. 4] : ToSet(m) = 1 .. 4}}

\* Refs and integers in the same loop; the integers are used after it.
MixedShuffle ==
  {<<Function({"a", "b", "p", "q"}, 2,
      <<Block(<<"a", "b", "n", "m">>, <<Br(2, <<"b", "a", "m", "n">>)>>),
        Block(<<"p", "q", "x", "y">>,
              <<CondBr("x", 2, <<u[1], u[2], v[1], v[2]>>, 3, <<"y">>)>>),
        Block(<<"z">>, <<o("i32", <<"x", "z">>, <<"w">>), o("i32", <<"w", "y">>, <<"t">>),
                         o("i32", <<"t">>, <<"k">>), Ret(<<"p", "q">>)>>)>>)>> :
    u \in {"p", "q"} \X {"p", "q"}, v \in {"x", "y"} \X {"x", "y"}}

\* Values defined before a loop, used in it and after it.
CrossBlock ==
  {<<Function({"a", "b", "x", "p", "y", "z"}, 2,
      <<Block(<<"a", "b", "n">>, <<o(k0, <<>>, <<"x">>), Br(2, <<"a">>)>>),
        Block(<<"p">>, <<k[1], CondBr("n", 2, <<k[2]>>, 3, <<k[3]>>)>>),
        Block(<<"z">>, <<end>>)>>)>> :
    k0 \in {"list.alloc", "global.load.ref"},
    end \in {FailOp} \cup {Ret(<<"z", w>>) : w \in {"a", "b", "x", "p"}},
    k \in UNION {{k1} \X After(k1, {"p", "x"}) \X After(k1, {"b"}) :
                 k1 \in OpsOn({"p", "x"}, "y")}}

\* A call with any operands, an op in the callee, any results.
Calls ==
  {<<Function({"a", "b", "x", "y"}, Len(h),
      <<Block(<<"a", "b", "n">>, <<CallTo(2, <<g[1], "n", g[2]>>, <<"x", "y">>), Ret(h)>>)>>),
     Function({"p", "q", "r"}, 2, <<Block(<<"p", "n", "q">>, <<k[1], Ret(<<k[2], k[3]>>)>>)>>)>> :
    g \in {"a", "b"} \X {"a", "b"}, h \in {<<"x", "y">>, <<"y", "a">>, <<"b">>},
    k \in UNION {{k1} \X After(k1, {"p", "q"}) \X After(k1, {"p", "q"}) :
                 k1 \in {l \in OpsOn({"p", "q"}, "r") : l.op \in
                   {"list.alloc", "list.set.ref", "global.store.ref", "global.load.ref"}}}}

---------------------------------------------------------------------------
\* The result register of an op that reads its operands after writing its
\* result, or counts it as another reference, must not be one of theirs.
Overlaps(c) ==
  \E b \in Blocks(c.func) : \E i \in DOMAIN c.func.blocks[b].ops :
    LET k == c.func.blocks[b].ops[i] IN
    /\ k.op \in {"select.ref", "switch.ref", "list.get.ref"}
    /\ \E j \in DOMAIN k.in : c.reg[k.in[j]] = c.reg[k.out[1]]

\* A function that calls itself until the stack is exhausted or n says stop.
Recursion ==
  {<<Function({"a", "b", "x", "y"}, 2,
      <<Block(<<"a", "b", "n">>, <<CondBr("n", 2, <<>>, 3, <<>>)>>),
        Block(<<>>, <<CallTo(1, <<g[1], g[2], "n">>, <<"x", "y">>), Ret(h)>>),
        Block(<<>>, <<end>>)>>)>> :
    end \in {Ret(<<"b", "a">>), FailOp},
    g \in {"a", "b"} \X {"a", "b"}, h \in Pairs({"a", "b", "x", "y"})}

OneOrder == {<<<<"ref", 2>>, <<"i32", 1>>, <<"ref", 0>>, <<"i32", 3>>, <<"ref", 1>>,
               <<"i32", 0>>, <<"ref", 3>>, <<"i32", 2>>>>}
AllOrders == SetToSeqs({"ref"} \X (0 .. 3))

Maps(N) == [1 .. N -> 1 .. N]

\* The modules of Shuffle(4) whose loop permutes its arguments.
Permutes(mod) ==
  LET f == mod[1] IN
  /\ Len(f.blocks) = 3 /\ Len(f.blocks[2].args) = 4
  /\ Cardinality(Uses(f.blocks[2].ops[1])) = 5 /\ "s" \in f.refs
MCModules == StraightLine \cup CrossBlock \cup Calls \cup Recursion \cup MixedShuffle
             \cup Shuffle(3, Maps(3)) \cup Shuffle(4, Maps(4)) \cup UnevenScratch
MCOrders(mod) == IF Permutes(mod) THEN AllOrders ELSE OneOrder
MCInputs == {<<"o1", "o2", "o1", "o2">>, <<"o1", "o1", "o1", "o1">>}
MCObjects == {"o1", "o2", "o3"}

MCInit == Init /\ \A n \in DOMAIN code : ~Overlaps(code[n])
MCSpec == MCInit /\ [][Next]_vars

---------------------------------------------------------------------------
\* Modules outside MCSpec.
Single(refs, args, ops) == {<<Function(refs, Len(Last(ops).in), <<Block(args, ops)>>)>>}

SelectLastUse == Single({"a", "b", "x"}, <<"a", "b", "n">>,
  <<o("select.ref", <<"n", "a", "b">>, <<"x">>), Ret(<<"x">>)>>)
SwitchLastUse == Single({"a", "b", "x"}, <<"a", "b", "n">>,
  <<o("switch.ref", <<"n", "b", "a">>, <<"x">>), Ret(<<"x">>)>>)
ListGetLastUse == Single({"a", "b", "x", "y", "b2"}, <<"a", "b", "n">>,
  <<o("list.alloc", <<>>, <<"x">>), o("list.resize", <<"x", "n">>, <<>>),
    o("list.alloc", <<>>, <<"b2">>), o("list.set.ref", <<"x", "n", "b2">>, <<>>),
    o("list.get.ref", <<"x", "n">>, <<"y">>), Ret(<<"y">>)>>)
ReturnTwice == Single({"a"}, <<"a">>, <<Ret(<<"a", "a">>)>>)
\* Seven refs in use, two scratch registers in the loop and one at its end.
ScratchPastBank == {SwapsThen(<<"e", "f", "g">>, <<2, 1, 4, 3>>, <<2, 1, 3, 4>>)}
NoResults == Single({"a"}, <<"a">>, <<Ret(<<>>)>>)
============================================================================
