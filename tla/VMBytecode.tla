---------------------------- MODULE VMBytecode -----------------------------
(***************************************************************************)
(* The bytecode interpreter: iree_vm_invoke entering a compiled function,  *)
(* the dispatch loop executing its ops on the frame's register banks,      *)
(* calls and returns between frames, and the reference counts of the       *)
(* objects that registers, lists, globals and ABI buffers hold             *)
(* (vm/bytecode_dispatch.c, ref.c, list.c, invocation.c, stack.c).         *)
(*                                                                         *)
(* The code it runs is what VMRegisters makes of a source function.  Each  *)
(* frame also carries env, the values the function's SSA values have in    *)
(* the source program: the reference the registers are compared with.      *)
(* The truth of a condition and the index of a switch are free choices.    *)
(***************************************************************************)
EXTENDS VMRegisters

CONSTANTS Modules,     \* modules to run: sequences of functions, the first exported
          Orders(_),   \* iteration orders of the register hash map for a module
          Objects,     \* ref-counted objects (all lists) the heap has room for
          Inputs,      \* input lists of the host: sequences of objects
          MaxDepth,    \* frames on the stack
          MaxRegisters, \* registers of a bank, a power of two
          MaxInvokes,  \* invocations by the host
          NoObject, NoValue

ASSUME VMAssumption ==
  /\ MaxDepth \in Nat \ {0} /\ MaxInvokes \in Nat
  /\ NoObject \notin Objects
  /\ \A in \in Inputs : in \in Seq(Objects)

VARIABLES code,     \* the encoded functions of the module
          stack,    \* frames, the current one last
          mem,      \* refs and integers in registers and other slots, counts,
                    \* lists with an element, memory freed and not reused
          status,   \* "idle", "run"
          invokes,  \* invocations begun
          returned  \* what the source program returns: [ok, values]

vars == <<code, stack, mem, status, invokes, returned>>

---------------------------------------------------------------------------
\* Slots that hold refs, and the counted references themselves (ref.c).

Ordinals == 0 .. MaxRegisters - 1
Depths == 1 .. MaxDepth
Positions == 1 .. 4

Slots == ({"reg"} \X Depths \X Ordinals)
         \cup ({"elem"} \X Objects)
         \cup ({"input", "arg", "result", "output"} \X Positions)
         \cup {<<"global">>}

\* iree_vm_ref_release; destroying a list releases its element.
RECURSIVE Release(_, _)
Release(m, s) ==
  LET o == m.ref[s] IN
  IF o = NoObject THEN m
  ELSE LET dropped == [m EXCEPT !.count[o] = @ - 1]
           destroyed == IF m.count[o] = 1
                        THEN [Release(dropped, <<"elem", o>>) EXCEPT
                                !.sized = @ \ {o}, !.freed = @ \cup {o}]
                        ELSE dropped
       IN [destroyed EXCEPT !.ref[s] = NoObject]

\* Mutant: the value the target held is overwritten, not released.
OverwriteTarget(m, move, s, d) ==
  LET o == m.ref[s]
      held == [m EXCEPT !.ref[d] = o]
  IN IF o # NoObject /\ ~move THEN [held EXCEPT !.count[o] = @ + 1]
     ELSE IF s # d THEN [held EXCEPT !.ref[s] = NoObject] ELSE held

\* iree_vm_ref_retain_or_move from slot s to slot d.
RetainOrMove(m, move, s, d) ==
  LET o == m.ref[s]
      held == [(IF s # d THEN Release(m, d) ELSE m) EXCEPT !.ref[d] = o]
  IN IF o # NoObject /\ ~move THEN [held EXCEPT !.count[o] = @ + 1]
     ELSE IF s # d THEN [held EXCEPT !.ref[s] = NoObject] ELSE held

\* iree_vm_ref_move.
Move(m, s, d) ==
  IF s = d THEN m
  ELSE [Release(m, d) EXCEPT !.ref[d] = m.ref[s], !.ref[s] = NoObject]

\* iree_vm_list_get_ref_retain: assign without counting, then count.
GetRefRetain(m, s, d) ==
  LET o == m.ref[s]
      held == [Release(m, d) EXCEPT !.ref[d] = o]
  IN IF o = NoObject THEN held ELSE [held EXCEPT !.count[o] = @ + 1]

ReleaseSlots(m, slots) == FoldLeft(Release, m, slots)

---------------------------------------------------------------------------
\* Frames and their registers.

Depth == Len(stack)
Frame == stack[Depth]
Code == code[Frame.fn]
Op == Code.func.blocks[Frame.block].ops[Frame.pc]

RECURSIVE RoundUpToPow2(_, _)
RoundUpToPow2(n, p) == IF p >= n THEN p ELSE RoundUpToPow2(n, 2 * p)

\* The register the mask of the bank selects.
Masked(c, reg) == reg[2] % RoundUpToPow2(c.count[reg[1]], 1)

RegSlot(c, d, reg) == <<"reg", d, Masked(c, reg)>>

\* Slot of SSA value v in the current frame.
At(v) == RegSlot(Code, Depth, Code.reg[v])

ReadReg(m, c, d, reg) ==
  IF reg[1] = "ref" THEN m.ref[RegSlot(c, d, reg)] ELSE m.i32[d][Masked(c, reg)]

WriteI32(m, c, d, reg, x) == [m EXCEPT !.i32[d][Masked(c, reg)] = x]

IsMoved(k) == k \in Code.move[Frame.block][Frame.pc]

\* iree_vm_bytecode_function_enter: a frame of zeroed registers at depth d.
NewFrame(n, ret) ==
  [fn |-> n, block |-> 1, pc |-> 1, ret |-> ret,
   env |-> [v \in Values(code[n].func) |-> NoValue]]

ZeroRegisters(m, d) ==
  [m EXCEPT !.i32[d] = [r \in Ordinals |-> NoValue],
            !.ref = [s \in Slots |-> IF s[1] = "reg" /\ s[2] = d THEN NoObject ELSE @[s]]]

\* iree_vm_stack_function_leave: the cleanup releases every ref register.
LeaveFrame(m, d) ==
  LET n == RoundUpToPow2(code[stack[d].fn].count.ref, 1)
  IN ReleaseSlots(m, [r \in 1 .. n |-> <<"reg", d, r - 1>>])

\* The ABI register of argument k: each bank counts from 0.
AbiRegister(f, k) ==
  LET args == f.blocks[1].args
      bank == Bank(f, args[k])
  IN <<bank, Cardinality({j \in 1 .. k - 1 : Bank(f, args[j]) = bank})>>

---------------------------------------------------------------------------
Init ==
  /\ \E mod \in Modules : \E order \in Orders(mod) :
       code = [n \in DOMAIN mod |-> EncodeFunction(mod[n], order)]
  /\ stack = <<>>
  /\ \E in \in Inputs :
       mem = [ref |-> [s \in Slots |-> IF s[1] = "input" /\ s[2] \in DOMAIN in
                                       THEN in[s[2]] ELSE NoObject],
              count |-> [o \in Objects |-> Cardinality({k \in DOMAIN in : in[k] = o})],
              sized |-> ToSet(in), freed |-> {},
              i32 |-> [d \in Depths |-> [r \in Ordinals |-> NoValue]]]
  /\ status = "idle" /\ invokes = 0
  /\ returned = [ok |-> TRUE, values |-> <<>>]

\* iree_vm_invoke: inputs are retained into the argument buffer and
\* iree_vm_bytecode_external_enter moves them into the ABI registers.  Ref
\* argument k is input k; an integer argument is its own name.
Invoke ==
  /\ status = "idle" /\ invokes < MaxInvokes
  /\ LET f == code[1].func
         args == f.blocks[1].args
         enter(m, k) ==
           IF args[k] \notin f.refs
           THEN WriteI32(m, code[1], 1, AbiRegister(f, k), args[k])
           ELSE Move(GetRefRetain(m, <<"input", k>>, <<"arg", k>>), <<"arg", k>>,
                     RegSlot(code[1], 1, AbiRegister(f, k)))
         bound(v) == CHOOSE k \in DOMAIN args : args[k] = v
     IN /\ mem' = FoldLeft(enter, ZeroRegisters(mem, 1), [k \in DOMAIN args |-> k])
        /\ stack' = <<[NewFrame(1, <<>>) EXCEPT !.env =
                        [v \in DOMAIN @ |->
                           IF v \notin ToSet(args) THEN NoValue
                           ELSE IF v \in f.refs THEN mem.ref[<<"input", bound(v)>>]
                           ELSE v]]>>
  /\ status' = "run" /\ invokes' = invokes + 1
  /\ UNCHANGED <<code, returned>>

\* iree_vm_function_call_release of a call whose frame could not be entered:
\* it looks at neither buffer when one of them is empty.
ReleaseCall(m, f) ==
  IF f.blocks[1].args = <<>> \/ f.results = 0 THEN m
  ELSE ReleaseSlots(m, [k \in Positions |-> <<"arg", k>>])

\* The frame does not fit on the stack: the marshaled arguments are dropped.
InvokeFails ==
  /\ status = "idle" /\ invokes < MaxInvokes
  /\ LET f == code[1].func
         refs == SelectSeq([k \in DOMAIN f.blocks[1].args |-> k],
                           LAMBDA k : f.blocks[1].args[k] \in f.refs)
         fill(m, k) == GetRefRetain(m, <<"input", k>>, <<"arg", k>>)
     IN mem' = ReleaseCall(FoldLeft(fill, mem, refs), f)
  /\ invokes' = invokes + 1
  /\ returned' = [ok |-> FALSE, values |-> <<>>]
  /\ UNCHANGED <<code, stack, status>>

---------------------------------------------------------------------------
\* Straight-line ops.

Running(op) == status = "run" /\ Op.op = op

\* The op is done: memory is m and its result, if it has one, is x.
Advance(m, x) ==
  /\ mem' = m
  /\ stack' = [stack EXCEPT ![Depth].pc = @ + 1,
                 ![Depth].env = [v \in DOMAIN @ |-> IF Op.out = <<v>> THEN x ELSE @[v]]]
  /\ UNCHANGED <<code, status, invokes, returned>>

\* A failed status leaves the dispatch loop, with every argument moved into
\* registers by then; iree_vm_stack_deinitialize pops every frame.
Unwind ==
  /\ mem' = FoldLeft(LeaveFrame, mem, Reverse([d \in 1 .. Depth |-> d]))
  /\ stack' = <<>> /\ status' = "idle"
  /\ returned' = [ok |-> FALSE, values |-> <<>>]
  /\ UNCHANGED <<code, invokes>>

Operand(k) == Frame.env[Op.in[k]]
Result == At(Op.out[1])

\* An integer op; its result is its own name.
SetI32(m) == WriteI32(m, Code, Depth, Code.reg[Op.out[1]], Op.out[1])

\* The constants, arithmetic, conversion, comparison and select ops on i32.
I32Op == Running("i32") /\ Advance(SetI32(mem), Op.out[1])

ConstRefZero == Running("const.ref.zero") /\ Advance(Release(mem, Result), NoObject)

\* iree_vm_list_create and wrap_assign; the heap may be exhausted.
ListAlloc ==
  /\ Running("list.alloc")
  /\ \/ \E o \in Objects :
          /\ mem.count[o] = 0
          /\ Advance([Release([mem EXCEPT !.freed = @ \ {o}], Result) EXCEPT
                       !.ref[Result] = o, !.count[o] = 1], o)
     \/ (\A o \in Objects : mem.count[o] # 0) /\ Unwind

ListObject == mem.ref[At(Op.in[1])]

\* To one element.
ListResize ==
  /\ Running("list.resize")
  /\ IF ListObject = NoObject THEN Unwind
     ELSE Advance([mem EXCEPT !.sized = @ \cup {ListObject}], NoValue)

ListGetRef ==
  /\ Running("list.get.ref")
  /\ IF ListObject \notin mem.sized THEN Unwind
     ELSE LET elem == <<"elem", ListObject>>
          IN Advance(GetRefRetain(mem, elem, Result), mem.ref[elem])

ListSetRef ==
  /\ Running("list.set.ref")
  /\ IF ListObject \notin mem.sized THEN Unwind
     ELSE Advance(RetainOrMove(mem, IsMoved(3), At(Op.in[3]), <<"elem", ListObject>>), NoValue)

GlobalLoadRef ==
  /\ Running("global.load.ref")
  /\ Advance(RetainOrMove(mem, FALSE, <<"global">>, Result), mem.ref[<<"global">>])

GlobalStoreRef ==
  /\ Running("global.store.ref")
  /\ Advance(RetainOrMove(mem, IsMoved(1), At(Op.in[1]), <<"global">>), NoValue)

\* The operand not chosen is released if this was its last use.
SelectRef ==
  /\ Running("select.ref")
  /\ \E chosen \in {2, 3} :
       LET other == 5 - chosen
           m == RetainOrMove(mem, IsMoved(chosen), At(Op.in[chosen]), Result)
       IN Advance(IF IsMoved(other) THEN Release(m, At(Op.in[other])) ELSE m,
                  Operand(chosen))

\* Operands: index, default value, values.
SwitchRef ==
  /\ Running("switch.ref")
  /\ \E k \in 2 .. Len(Op.in) :
       Advance(RetainOrMove(mem, IsMoved(k), At(Op.in[k]), Result), Operand(k))

\* CmpEQRef, CmpNERef and CmpNZRef.
CmpRef ==
  /\ Running("cmp.ref")
  /\ LET dying == SelectSeq([k \in DOMAIN Op.in |-> k], IsMoved)
     IN Advance(ReleaseSlots(SetI32(mem), [j \in DOMAIN dying |-> At(Op.in[dying[j]])]),
                Op.out[1])

\* A terminator; the lowering of cond_fail branches to it with a status other
\* than 0 (the interpreter would go on with the next block's code).
Fail == Running("fail") /\ Unwind

\* A native callee borrows the argument refs (they are assigned, not counted)
\* and returns a counted reference to one of them, or null.
CallImport ==
  /\ Running("call.import")
  /\ \/ Unwind
     \/ \E o \in {Operand(k) : k \in DOMAIN Op.in} \cup {NoObject} :
          LET retained == [mem EXCEPT !.ref[<<"result", 1>>] = o,
                             !.count = [p \in Objects |-> @[p] + IF p = o THEN 1 ELSE 0]]
          IN Advance(Move(retained, <<"result", 1>>, Result), o)

---------------------------------------------------------------------------
\* Control flow.

\* iree_vm_bytecode_dispatch_remap_branch_registers: one move after another.
RemapBranchRegisters(m, moves) ==
  LET step(n, e) ==
        IF e[1][1] = "ref"
        THEN RetainOrMove(n, FALSE, RegSlot(Code, Depth, e[1]), RegSlot(Code, Depth, e[2]))
        ELSE WriteI32(n, Code, Depth, e[2], ReadReg(n, Code, Depth, e[1]))
  IN FoldLeft(step, m, moves)

\* Branch and CondBranch.
Branch ==
  /\ status = "run" /\ Op.op \in {"br", "cond_br"}
  /\ \E s \in DOMAIN Op.succ :
       LET to == Op.succ[s].to
           args == Code.func.blocks[to].args
           passed(v) == Frame.env[Op.succ[s].in[CHOOSE k \in DOMAIN args : args[k] = v]]
       IN /\ mem' = RemapBranchRegisters(mem, Code.remap[Frame.block][s])
          /\ stack' = [stack EXCEPT ![Depth] =
               [@ EXCEPT !.block = to, !.pc = 1,
                  !.env = [v \in DOMAIN @ |-> IF v \in ToSet(args) THEN passed(v) ELSE @[v]]]]
  /\ UNCHANGED <<code, status, invokes, returned>>

\* iree_vm_bytecode_internal_enter: operands go to the ABI registers of a
\* new frame; the result registers are stashed in the caller's frame.
InternalEnter ==
  /\ Running("call") /\ Depth < MaxDepth
  /\ LET c == code[Op.callee]
         args == c.func.blocks[1].args
         pass(m, k) ==
           IF Bank(c.func, args[k]) = "ref"
           THEN RetainOrMove(m, IsMoved(k), At(Op.in[k]),
                             RegSlot(c, Depth + 1, AbiRegister(c.func, k)))
           ELSE WriteI32(m, c, Depth + 1, AbiRegister(c.func, k),
                         ReadReg(m, Code, Depth, Code.reg[Op.in[k]]))
         bound(v) == CHOOSE k \in DOMAIN args : args[k] = v
     IN /\ mem' = FoldLeft(pass, ZeroRegisters(mem, Depth + 1), [k \in DOMAIN args |-> k])
        /\ stack' = Append([stack EXCEPT ![Depth].pc = @ + 1, ![Depth].ret = Op.out],
             [NewFrame(Op.callee, <<>>) EXCEPT !.env =
               [v \in DOMAIN @ |-> IF v \in ToSet(args) THEN Operand(bound(v)) ELSE NoValue]])
  /\ UNCHANGED <<code, status, invokes, returned>>

\* iree_vm_stack_grow refuses: nothing has been passed yet.
StackExhausted == Running("call") /\ Depth = MaxDepth /\ Unwind

\* iree_vm_bytecode_internal_leave: results go to the stashed registers.
InternalLeave ==
  /\ Running("return") /\ Depth > 1
  /\ LET caller == stack[Depth - 1]
         c == code[caller.fn]
         put(m, k) ==
           LET to == c.reg[caller.ret[k]] IN
           IF to[1] = "ref"
           THEN RetainOrMove(m, IsMoved(k), At(Op.in[k]), RegSlot(c, Depth - 1, to))
           ELSE WriteI32(m, c, Depth - 1, to, ReadReg(m, Code, Depth, Code.reg[Op.in[k]]))
         bound(v) == CHOOSE k \in DOMAIN caller.ret : caller.ret[k] = v
     IN /\ mem' = LeaveFrame(FoldLeft(put, mem, [k \in DOMAIN Op.in |-> k]), Depth)
        /\ stack' = [Front(stack) EXCEPT ![Depth - 1].env =
             [v \in DOMAIN @ |-> IF v \in ToSet(caller.ret) THEN Operand(bound(v)) ELSE @[v]]]
  /\ UNCHANGED <<code, status, invokes, returned>>

\* iree_vm_bytecode_external_leave moves the results to the ABI buffer and
\* iree_vm_invoke_marshal_outputs moves them on into the emptied output list.
ExternalLeave ==
  /\ Running("return") /\ Depth = 1
  /\ LET ks == SelectSeq([k \in DOMAIN Op.in |-> k], LAMBDA k : Op.in[k] \in Code.func.refs)
         put(m, k) == Move(m, At(Op.in[k]), <<"result", k>>)
         out(m, k) == RetainOrMove(m, TRUE, <<"result", k>>, <<"output", k>>)
         left == LeaveFrame(FoldLeft(put, mem, ks), 1)
         emptied == ReleaseSlots(left, [k \in Positions |-> <<"output", k>>])
     IN /\ mem' = FoldLeft(out, emptied, ks)
        /\ returned' = [ok |-> TRUE,
                        values |-> [k \in DOMAIN Op.in |->
                          IF Op.in[k] \in Code.func.refs THEN Operand(k) ELSE NoObject]]
  /\ stack' = <<>> /\ status' = "idle"
  /\ UNCHANGED <<code, invokes>>

\* The host makes no further invocation.
Quiet ==
  /\ status = "idle" /\ invokes = MaxInvokes
  /\ UNCHANGED vars

Next ==
  \/ Invoke \/ InvokeFails
  \/ I32Op \/ ConstRefZero \/ ListAlloc \/ ListResize \/ ListGetRef \/ ListSetRef
  \/ GlobalLoadRef \/ GlobalStoreRef \/ SelectRef \/ SwitchRef \/ CmpRef
  \/ Fail \/ CallImport
  \/ Branch \/ InternalEnter \/ StackExhausted \/ InternalLeave \/ ExternalLeave
  \/ Quiet

Spec == Init /\ [][Next]_vars

---------------------------------------------------------------------------
\* The shapes of the state: slots hold objects, counts are not negative, and a
\* frame is at an op of its function.
TypeOK ==
  /\ mem.ref \in [Slots -> Objects \cup {NoObject}] /\ mem.count \in [Objects -> Nat]
  /\ mem.sized \subseteq Objects /\ mem.freed \subseteq Objects
  /\ Depth <= MaxDepth /\ invokes \in 0 .. MaxInvokes
  /\ status \in {"idle", "run"} /\ (status = "idle" <=> stack = <<>>)
  /\ \A d \in 1 .. Depth :
       LET fr == stack[d] IN
         /\ fr.fn \in DOMAIN code /\ fr.block \in DOMAIN code[fr.fn].func.blocks
         /\ fr.pc \in DOMAIN code[fr.fn].func.blocks[fr.block].ops

\* Whenever an op is about to run, the register of each of its operands holds
\* the value that operand has in the source program: allocation never gave a
\* live value's register away, the ordered moves of every branch taken so far
\* amounted to one parallel assignment, and no last-use move was premature.
OperandsHoldValues ==
  status = "run" =>
    \A v \in Uses(Op) : ReadReg(mem, Code, Depth, Code.reg[v]) = Frame.env[v]

\* Slots that exist: registers of frames on the stack, elements of living
\* lists, the ABI buffers during a call.
LiveSlot(s) ==
  CASE s[1] = "reg" -> s[2] <= Depth
    [] s[1] = "elem" -> mem.count[s[2]] > 0
    [] s[1] \in {"arg", "result"} -> status = "run"
    [] OTHER -> TRUE

\* An object's count is the number of live slots that hold it, so it is
\* destroyed when the last of them lets go, neither before nor never; in
\* particular popped frames and failed invocations leave nothing behind.
RefCountsExact ==
  \A o \in Objects :
    /\ mem.count[o] = Cardinality({s \in Slots : LiveSlot(s) /\ mem.ref[s] = o})
    /\ o \in mem.freed => mem.count[o] = 0

\* A successful invocation hands the host the objects the source program
\* returns, position by position, whatever was moved on the way.
ResultsReturned ==
  status = "idle" /\ returned.ok =>
    \A k \in DOMAIN returned.values : mem.ref[<<"output", k>>] = returned.values[k]
============================================================================
