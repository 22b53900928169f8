----------------------------- MODULE MCTaskGraph -----------------------------
(***************************************************************************)
(* Instances of TaskGraph for TLC: small graphs of the shapes that the     *)
(* task queue, the command buffer and the tests build.                     *)
(***************************************************************************)
EXTENDS TaskGraph, TLC

CONSTANTS a, b, c, d, e1, f, i, r, s1, s2, w

Nobody(S) == [t \in S |-> NoTask]
NoDependents(S) == [t \in S |-> <<>>]
NoSpawns(S) == [t \in S |-> {}]

\* A submission: after wait w, call i spawns the call c and the dispatch d of
\* two shards into itself; barrier b forks into nop a and the empty dispatch
\* e1, which join in fence f with the independent call r.
SubmissionTasks == {w, i, c, d, s1, s2, b, a, e1, r, f}
SubmissionType ==
    w :> "WAIT" @@ i :> "CALL" @@ c :> "CALL" @@ d :> "DISPATCH" @@ s1 :> "SHARD"
    @@ s2 :> "SHARD" @@ b :> "BARRIER" @@ a :> "NOP" @@ e1 :> "DISPATCH" @@ r :> "CALL"
    @@ f :> "FENCE"
SubmissionCompletion ==
    w :> i @@ c :> i @@ d :> i @@ s1 :> d @@ s2 :> d @@ i :> b @@ a :> f @@ e1 :> f
    @@ r :> f @@ Nobody(SubmissionTasks)
SubmissionDependents == b :> <<a, e1>> @@ NoDependents(SubmissionTasks)
SubmissionSpawns == i :> {c, d} @@ d :> {s1, s2} @@ NoSpawns(SubmissionTasks)

\* Two calls that complete into one fence.
ForkTasks == {a, c, f}
ForkType == a :> "CALL" @@ c :> "CALL" @@ f :> "FENCE"
ForkCompletion == a :> f @@ c :> f @@ Nobody(ForkTasks)
ForkDependents == NoDependents(ForkTasks)
ForkSpawns == NoSpawns(ForkTasks)

\* A dispatch of two shards before a fence.
DispatchTasks == {d, s1, s2, f}
DispatchType == d :> "DISPATCH" @@ s1 :> "SHARD" @@ s2 :> "SHARD" @@ f :> "FENCE"
DispatchCompletion == d :> f @@ s1 :> d @@ s2 :> d @@ Nobody(DispatchTasks)
DispatchDependents == NoDependents(DispatchTasks)
DispatchSpawns == d :> {s1, s2} @@ NoSpawns(DispatchTasks)
=============================================================================
