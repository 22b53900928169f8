--------------------------- MODULE ExecutorProofs ---------------------------
(***************************************************************************)
(* Theorems about Executor: no task is lost or duplicated on its way       *)
(* through the lists of the executor, whoever coordinates, pumps, steals   *)
(* or waits; and workers park only when nothing but waits is left.         *)
(***************************************************************************)
EXTENDS Executor, FiniteSetTheorems, WellFoundedInduction, TLAPS

\* A thread at one of these labels holds the coordinator mutex.
Coordinating == {"flush", "poll", "schedule", "merge_waits", "post", "wake", "finish"}

\* Who is where, and what each list holds at which label.
Control ==
    /\ \A p \in Threads : pc[p] \in Coordinating <=> coordinator = p
    /\ \A u \in Users : pc[u] \in {"submit", "lock", "returned"} \cup Coordinating
    /\ \A w \in Workers : pc[w] \notin {"submit", "returned"}

\* A worker holds a task it popped for as long as it executes it.
RunsInExecute == \A w \in Workers : pc[w] = "execute" <=> running[w] # NoTask

\* A worker steals, and parks, with an empty queue of its own.
StealsWithEmptyQueue == \A w \in Workers : pc[w] \in {"steal", "park"} => local[w] = {}

\* No worker has tasks in the post batch.
NoBatch == \A w \in Workers : batch[w] = {}

\* The submission and the post batch of the coordinator are empty between two
\* rounds, and each of them from the step on that hands it over.
CoordinatorLists ==
    /\ coordinator = NoThread => ready = {} /\ waiting = {} /\ NoBatch
    /\ \A p \in Threads :
        /\ pc[p] \in {"flush", "merge_waits", "post", "wake"} => ready = {}
        /\ pc[p] \in {"flush", "post", "wake", "finish"} => waiting = {}
        /\ pc[p] \in {"flush", "poll", "wake", "finish"} => NoBatch

-----------------------------------------------------------------------------
(* The places a task can be in.  The lists of the executor count as worker *)
(* 0's.                                                                    *)

\* The lists of the executor and those each worker has.
Kinds == {"incoming", "ready", "waiting", "waiting_list",
          "mailbox", "local", "produced", "batch", "running"}

\* Task t is in the list k of worker w.
In(t, k, w) ==
    \/ k = "incoming" /\ w = 0 /\ t \in incoming
    \/ k = "ready" /\ w = 0 /\ t \in ready
    \/ k = "waiting" /\ w = 0 /\ t \in waiting
    \/ k = "waiting_list" /\ w = 0 /\ t \in waiting_list
    \/ k = "mailbox" /\ t \in mailbox[w]
    \/ k = "local" /\ t \in local[w]
    \/ k = "produced" /\ t \in produced[w]
    \/ k = "batch" /\ t \in batch[w]
    \/ k = "running" /\ t = running[w]

\* Task t is there and nowhere else; it is nowhere.
Sole(t, k, w) == \A j \in Kinds, v \in Workers : In(t, j, v) <=> j = k /\ v = w
Nowhere(t) == \A j \in Kinds, v \in Workers : ~In(t, j, v)

\* A task that has begun and is not done is in one place, any other in none.
Placed(t) ==
    IF t \in Begun \ done THEN \E k \in Kinds, w \in Workers : Sole(t, k, w)
                          ELSE Nowhere(t)
OnePlace == \A t \in Tasks : Placed(t)

\* Only tasks that had begun are done.
DoneBegun == done \subseteq Begun

-----------------------------------------------------------------------------
(* Who will look at a list that is not empty.                              *)

\* Workers to be woken are remembered only between the post and the wake.
WakesPending ==
    /\ coordinator = NoThread => wake_mask = {}
    /\ \A p \in Threads : pc[p] \in Coordinating \ {"wake"} => wake_mask = {}

\* Whoever submits tasks goes on to coordinate.
IncomingSeen == incoming # {} => \E p \in Threads : pc[p] \in {"lock", "flush"}

\* What a worker made ready is submitted before it leaves the pump.
ProducedSeen == \A w \in Workers : produced[w] # {} => pc[w] \in {"pump", "steal", "execute"}

\* The wait set holds the handles of the waits in the waiting list.
WaitsOf(h) == {t \in waiting_list : Handle[t] = h}
WaitSetExact == \A h \in Handles : wait_set[h] = Cardinality(WaitsOf(h))

\* The inductive invariant: the coordinator's part, the workers' part, and where
\* every task is.
Coordination == Control /\ CoordinatorLists /\ WakesPending /\ IncomingSeen
WorkerLists == RunsInExecute /\ StealsWithEmptyQueue /\ MailboxSeen /\ ProducedSeen

IInv == TypeOK /\ Coordination /\ WorkerLists /\ OnePlace /\ DoneBegun /\ WaitSetExact

-----------------------------------------------------------------------------
(* Facts about threads and the beginning of tasks.                         *)

\* A step of a thread moves that thread only.
LEMMA GotoIs ==
    ASSUME TypeOK, NEW p \in Threads, NEW l \in Labels, Goto(p, l)
    PROVE  /\ pc'[p] = l /\ \A q \in Threads : q # p => pc'[q] = pc[q]
           /\ pc' \in [Threads -> Labels]
BY Zenon DEF TypeOK, Goto

\* Worker 0 exists; workers and users are different threads; NoTask is no task.
LEMMA Basics ==
    /\ 0 \in Workers /\ NoThread \notin Threads
    /\ \A w \in Workers : w \in Threads /\ w \notin Users
    /\ \A u \in Users : u \in Threads
    /\ \A p \in Threads : p \in Workers <=> p \notin Users
    /\ \A t \in Tasks : t # NoTask
BY ExecutorAssumption, Zenon DEF Threads

\* Only the first step of a user thread and the end of a task begin tasks.
LEMMA BegunKept ==
    ASSUME done' = done, \A u \in Users : pc'[u] = "submit" <=> pc[u] = "submit"
    PROVE  Begun' = Begun
BY Zenon DEF Begun

\* Submission begins the tasks of the user thread, none of which had begun.
LEMMA SubmitBegins ==
    ASSUME NEW u \in Users, pc[u] = "submit", done' = done, done \subseteq Tasks,
           pc' = [pc EXCEPT ![u] = "lock"], pc \in [Threads -> Labels]
    PROVE  Begun' = Begun \cup Submits[u] /\ Begun \cap Submits[u] = {}
<1>1. \A v \in Users : pc'[v] # "submit" <=> pc[v] # "submit" \/ v = u BY Zenon DEF Threads
<1>2. Begun' = Begun \cup Submits[u] BY <1>1, ExecutorAssumption, Zenon DEF Begun
<1>3. ASSUME NEW t \in Begun, t \in Submits[u] PROVE FALSE
  <2>1. CASE \E v \in Users : pc[v] # "submit" /\ t \in Submits[v]
    BY <2>1, <1>3, OriginAssumption, Zenon
  <2>2. CASE \E s \in done : t \in Follow[s] BY <2>2, <1>3, OriginAssumption, Zenon
  <2>3. QED BY <1>3, <2>1, <2>2, Zenon DEF Begun
<1>4. QED BY <1>2, <1>3, Zenon

\* The end of a task begins the tasks that follow it, none of which had begun.
LEMMA EndBegins ==
    ASSUME NEW t \in Tasks, t \notin done, done' = done \cup {t}, done \subseteq Tasks,
           \A u \in Users : pc'[u] = "submit" <=> pc[u] = "submit"
    PROVE  Begun' = Begun \cup Follow[t] /\ Begun \cap Follow[t] = {}
<1>1. Begun' = Begun \cup Follow[t] BY ExecutorAssumption, Zenon DEF Begun
<1>2. ASSUME NEW s \in Begun, s \in Follow[t] PROVE FALSE
  <2>1. CASE \E v \in Users : pc[v] # "submit" /\ s \in Submits[v]
    BY <2>1, <1>2, OriginAssumption, Zenon
  <2>2. CASE \E r \in done : s \in Follow[r] BY <2>2, <1>2, OriginAssumption, Zenon
  <2>3. QED BY <1>2, <2>1, <2>2, Zenon DEF Begun
<1>3. QED BY <1>1, <1>2, Zenon

-----------------------------------------------------------------------------
(* What a step can do with a task.                                         *)

\* A task stays where it is, goes from one place to another, enters a list,
\* leaves one.
Stays(t) == \A j \in Kinds, v \in Workers : In(t, j, v)' <=> In(t, j, v)

Hops(t, k, w, l, x) ==
    /\ In(t, k, w) /\ In(t, l, x)'
    /\ \A j \in Kinds, v \in Workers :
        In(t, j, v)' => (j = l /\ v = x) \/ (In(t, j, v) /\ ~(j = k /\ v = w))

Enters(t, l, x) ==
    /\ In(t, l, x)'
    /\ \A j \in Kinds, v \in Workers : In(t, j, v)' => (j = l /\ v = x) \/ In(t, j, v)

Leaves(t, k, w) ==
    \A j \in Kinds, v \in Workers : In(t, j, v)' => In(t, j, v) /\ ~(j = k /\ v = w)

\* A task that a step does not touch is where it was.
LEMMA PlaceKept ==
    ASSUME NEW t, Placed(t), Stays(t), t \in Begun' \ done' <=> t \in Begun \ done
    PROVE  Placed(t)'
BY Zenon DEF Stays, Placed, Sole, Nowhere

\* A step that takes tasks from one place to another leaves every task in one.
LEMMA PlacesMove ==
    ASSUME OnePlace, DoneBegun, done' = done,
           \A u \in Users : pc'[u] = "submit" <=> pc[u] = "submit",
           \A t \in Tasks : Stays(t) \/ \E k, l \in Kinds, w, x \in Workers : Hops(t, k, w, l, x)
    PROVE  OnePlace' /\ DoneBegun'
<1>1. Begun' = Begun BY BegunKept, Zenon
<1>2. SUFFICES ASSUME NEW t \in Tasks PROVE Placed(t)' BY <1>1, Zenon DEF OnePlace, DoneBegun
<1>3. Placed(t) BY Zenon DEF OnePlace
<1>4. CASE Stays(t) BY <1>1, <1>3, <1>4, PlaceKept, Zenon
<1>5. ASSUME NEW k \in Kinds, NEW l \in Kinds, NEW w \in Workers, NEW x \in Workers,
             Hops(t, k, w, l, x)
      PROVE  Placed(t)'
  <2>1. t \in Begun \ done /\ Sole(t, k, w) BY <1>3, <1>5, Zenon DEF Hops, Placed, Sole, Nowhere
  <2>2. Sole(t, l, x)' BY <1>5, <2>1, Zenon DEF Hops, Sole
  <2>3. QED BY <1>1, <2>1, <2>2, Zenon DEF Placed
<1>6. QED BY <1>4, <1>5, Zenon

\* A step that retires a task and makes ready those that follow it.
LEMMA PlacesEnd ==
    ASSUME OnePlace, DoneBegun, done \subseteq Tasks,
           NEW t \in Tasks, NEW k \in Kinds, NEW w \in Workers,
           In(t, k, w), t \notin Follow[t] => Leaves(t, k, w), done' = done \cup {t},
           \A u \in Users : pc'[u] = "submit" <=> pc[u] = "submit",
           \A s \in Follow[t] : \E l \in Kinds, x \in Workers : Enters(s, l, x),
           \A s \in Tasks \ Follow[t] : s # t => Stays(s)
    PROVE  OnePlace' /\ DoneBegun'
<1>1. t \in Begun \ done BY Zenon DEF OnePlace, Placed, Nowhere
<1>2. Begun' = Begun \cup Follow[t] /\ Begun \cap Follow[t] = {} BY <1>1, EndBegins, Zenon
<1>3. SUFFICES ASSUME NEW s \in Tasks PROVE Placed(s)'
  BY <1>1, <1>2, Zenon DEF OnePlace, DoneBegun
<1>4. Placed(s) BY Zenon DEF OnePlace
<1>5. CASE s = t BY <1>1, <1>2, <1>4, <1>5, Zenon DEF Leaves, Placed, Sole, Nowhere
<1>6. CASE s \in Follow[t]
  <2>1. Nowhere(s) BY <1>2, <1>4, <1>6, Zenon DEF Placed
  <2>2. s \in Begun' \ done' BY <1>1, <1>2, <1>6, Zenon DEF DoneBegun
  <2>3. PICK l \in Kinds, x \in Workers : Enters(s, l, x) BY <1>6, Zenon
  <2>4. Sole(s, l, x)' BY <2>1, <2>3, Zenon DEF Enters, Sole, Nowhere
  <2>5. QED BY <2>2, <2>4, Zenon DEF Placed
<1>7. CASE s # t /\ s \notin Follow[t] BY <1>2, <1>4, <1>7, PlaceKept, Zenon
<1>8. QED BY <1>5, <1>6, <1>7, Zenon

\* A step that leaves the lists alone.
LEMMA ListsKept ==
    ASSUME OnePlace, DoneBegun, WaitSetExact,
           UNCHANGED <<queues, ready, waiting, batch, waiting_list, wait_set, done>>,
           \A u \in Users : pc'[u] = "submit" <=> pc[u] = "submit"
    PROVE  OnePlace' /\ DoneBegun' /\ WaitSetExact'
<1>1. \A t \in Tasks : Stays(t) BY DEF Stays, In, queues
<1>2. QED BY <1>1, PlacesMove, Zenon DEF WaitSetExact, WaitsOf

-----------------------------------------------------------------------------
(* Users and workers.                                                      *)

\* A user thread submits.
LEMMA SubmitKeeps ==
    ASSUME IInv, NEW u \in Users, Submit(u)
    PROVE  IInv'
<1>0. /\ pc[u] = "submit" /\ pc'[u] = "lock"
      /\ \A q \in Threads : q # u => pc'[q] = pc[q]
      /\ pc' \in [Threads -> Labels]
  BY GotoIs, Basics, Zenon DEF IInv, Submit, Labels
<1>1. TypeOK'
  BY <1>0, ExecutorAssumption, Zenon DEF IInv, Submit, TypeOK, Tasks, worker, coord, waits
<1>2. Coordination'
  BY <1>0, Basics, Zenon DEF IInv, Submit, queues, worker, coord, waits, Coordination, Control,
     CoordinatorLists, WakesPending, IncomingSeen, NoBatch, Coordinating
<1>3. WorkerLists'
  BY <1>0, Basics, Zenon DEF IInv, Submit, queues, worker, coord, waits, WorkerLists,
     RunsInExecute, StealsWithEmptyQueue, MailboxSeen, ProducedSeen
<1>4. OnePlace' /\ DoneBegun' /\ WaitSetExact'
  <2>1. Begun' = Begun \cup Submits[u] /\ Begun \cap Submits[u] = {}
    BY SubmitBegins, Zenon DEF IInv, Submit, Goto, TypeOK
  <2>2. SUFFICES ASSUME NEW s \in Tasks PROVE Placed(s)'
    BY <2>1, Zenon DEF IInv, Submit, OnePlace, DoneBegun, WaitSetExact, WaitsOf, waits
  <2>3. Placed(s) BY Zenon DEF IInv, OnePlace
  <2>4. CASE s \in Submits[u]
    <3>1. Nowhere(s) /\ s \in Begun' \ done'
      BY <2>1, <2>3, <2>4, Zenon DEF IInv, Submit, Placed, DoneBegun
    <3>2. Sole(s, "incoming", 0)'
      BY <2>4, <3>1, Basics, Zenon DEF Submit, Nowhere, Sole, In, Kinds, coord, waits
    <3>3. QED BY <3>1, <3>2, Basics, Zenon DEF Placed, Kinds
  <2>5. CASE s \notin Submits[u]
    <3>1. Stays(s) BY <2>5 DEF Stays, In, Submit, coord, waits
    <3>2. QED BY <2>1, <2>3, <2>5, <3>1, PlaceKept, Zenon DEF Submit
  <2>6. QED BY <2>4, <2>5, Zenon
<1>5. QED BY <1>1, <1>2, <1>3, <1>4, Zenon DEF IInv

\* A handle is signaled from outside.
LEMMA SignalExternalKeeps ==
    ASSUME IInv, NEW h \in Handles, SignalExternal(h)
    PROVE  IInv'
<1>0. pc' = pc BY Zenon DEF SignalExternal
<1>1. TypeOK'
  BY <1>0, Basics, Zenon DEF IInv, SignalExternal, TypeOK, Tasks, queues, worker, coord, waits
<1>2. Coordination'
  BY <1>0, Basics, Zenon DEF IInv, SignalExternal, queues, worker, coord, waits, Coordination,
     Control, CoordinatorLists, WakesPending, IncomingSeen, NoBatch, Coordinating
<1>3. WorkerLists'
  BY <1>0, Basics, Zenon DEF IInv, SignalExternal, queues, worker, coord, waits, WorkerLists,
     RunsInExecute, StealsWithEmptyQueue, MailboxSeen, ProducedSeen
<1>4. OnePlace' /\ DoneBegun' /\ WaitSetExact'
  BY <1>0, Basics, ListsKept, Zenon DEF IInv, SignalExternal, queues, worker, coord, waits
<1>5. QED BY <1>1, <1>2, <1>3, <1>4, Zenon DEF IInv

\* A worker is asked to exit.
LEMMA RequestExitKeeps ==
    ASSUME IInv, NEW w \in Workers, RequestExit(w)
    PROVE  IInv'
<1>0. pc' = pc BY Zenon DEF RequestExit
<1>1. TypeOK'
  BY <1>0, Basics, Zenon DEF IInv, RequestExit, TypeOK, Tasks, queues, worker, coord, waits
<1>2. Coordination'
  BY <1>0, Basics, Zenon DEF IInv, RequestExit, queues, worker, coord, waits, TypeOK,
     Coordination, Control, CoordinatorLists, WakesPending, IncomingSeen, NoBatch, Coordinating
<1>3. WorkerLists'
  BY <1>0, Basics, Zenon DEF IInv, RequestExit, queues, worker, coord, waits, TypeOK, WorkerLists,
     RunsInExecute, StealsWithEmptyQueue, MailboxSeen, ProducedSeen
<1>4. OnePlace' /\ DoneBegun' /\ WaitSetExact'
  BY <1>0, Basics, ListsKept, Zenon DEF IInv, RequestExit, queues, worker, coord, waits
<1>5. QED BY <1>1, <1>2, <1>3, <1>4, Zenon DEF IInv

\* A worker is at the top of its loop.
LEMMA PrepareKeeps ==
    ASSUME IInv, NEW w \in Workers, Prepare(w)
    PROVE  IInv'
<1>0. /\ pc[w] = "prepare" /\ pc'[w] = (IF w \in exiting THEN "zombie" ELSE "pump")
      /\ \A q \in Threads : q # w => pc'[q] = pc[q]
      /\ pc' \in [Threads -> Labels]
  BY GotoIs, Basics, Zenon DEF IInv, Prepare, Labels
<1>1. TypeOK'
  BY <1>0, Basics, Zenon DEF IInv, Prepare, TypeOK, Tasks, queues, worker, coord, waits
<1>2. Coordination'
  BY <1>0, Basics, Zenon DEF IInv, Prepare, queues, worker, coord, waits, TypeOK, Coordination,
     Control, CoordinatorLists, WakesPending, IncomingSeen, NoBatch, Coordinating
<1>3. WorkerLists'
  BY <1>0, Basics, Zenon DEF IInv, Prepare, queues, worker, coord, waits, TypeOK, WorkerLists,
     RunsInExecute, StealsWithEmptyQueue, MailboxSeen, ProducedSeen
<1>4. OnePlace' /\ DoneBegun' /\ WaitSetExact'
  BY <1>0, Basics, ListsKept, Zenon DEF IInv, Prepare, queues, worker, coord, waits
<1>5. QED BY <1>1, <1>2, <1>3, <1>4, Zenon DEF IInv

\* A worker takes a task of its queue.
LEMMA PopLocalKeeps ==
    ASSUME IInv, NEW w \in Workers, NEW t \in Calls, PopLocal(w, t)
    PROVE  IInv'
<1>0. /\ pc[w] = "pump" /\ pc'[w] = "execute"
      /\ \A q \in Threads : q # w => pc'[q] = pc[q]
      /\ pc' \in [Threads -> Labels]
  BY GotoIs, Basics, Zenon DEF IInv, PopLocal, Run, Labels
<1>1. TypeOK'
  BY <1>0, Basics, Zenon DEF IInv, PopLocal, Run, TypeOK, Tasks, queues, worker, coord, waits
<1>2. Coordination'
  BY <1>0, Basics, Zenon DEF IInv, PopLocal, Run, queues, worker, coord, waits, Tasks, TypeOK,
     Coordination, Control, CoordinatorLists, WakesPending, IncomingSeen, NoBatch, Coordinating
<1>3. WorkerLists'
  BY <1>0, Basics, Zenon DEF IInv, PopLocal, Run, queues, worker, coord, waits, Tasks, TypeOK,
     WorkerLists, RunsInExecute, StealsWithEmptyQueue, MailboxSeen, ProducedSeen
<1>4. OnePlace' /\ DoneBegun' /\ WaitSetExact'
  <2>1. /\ running[w] = NoTask /\ NoTask \notin Tasks /\ running'[w] = t
        /\ \A y \in Workers : y # w => running'[y] = running[y]
        /\ t \in local[w] /\ local'[w] = local[w] \ {t}
        /\ \A y \in Workers : y # w => local'[y] = local[y]
        /\ UNCHANGED <<incoming, mailbox, produced, ready, waiting, batch, waiting_list,
                       wait_set, done>>
    BY <1>0, ExecutorAssumption, Zenon DEF IInv, WorkerLists, TypeOK, RunsInExecute,
       StealsWithEmptyQueue, Run, PopLocal, coord, waits
  <2>2. ASSUME NEW s \in Tasks, s = t PROVE Hops(s, "local", w, "running", w)
    BY <2>1, <2>2 DEF Hops, In
  <2>3. ASSUME NEW s \in Tasks, s # t PROVE Stays(s) BY <2>1, <2>3 DEF Stays, In
  <2>4. WaitSetExact' BY <2>1, Zenon DEF IInv, WaitSetExact, WaitsOf
  <2>5. QED BY <1>0, <2>1, <2>2, <2>3, <2>4, PlacesMove, Basics, Zenon DEF IInv, Kinds
<1>5. QED BY <1>1, <1>2, <1>3, <1>4, Zenon DEF IInv

\* A worker takes its mailbox.
LEMMA FlushMailboxKeeps ==
    ASSUME IInv, NEW w \in Workers, NEW t \in Calls, FlushMailbox(w, t)
    PROVE  IInv'
<1>0. /\ pc[w] = "pump" /\ pc'[w] = "execute"
      /\ \A q \in Threads : q # w => pc'[q] = pc[q]
      /\ pc' \in [Threads -> Labels]
  BY GotoIs, Basics, Zenon DEF IInv, FlushMailbox, Run, Labels
<1>1. TypeOK'
  BY <1>0, Basics, Zenon DEF IInv, FlushMailbox, Run, TypeOK, Tasks, queues, worker, coord, waits
<1>2. Coordination'
  BY <1>0, Basics, Zenon DEF IInv, FlushMailbox, Run, queues, worker, coord, waits, Tasks, TypeOK,
     Coordination, Control, CoordinatorLists, WakesPending, IncomingSeen, NoBatch, Coordinating
<1>3. WorkerLists'
  BY <1>0, Basics, Zenon DEF IInv, FlushMailbox, Run, queues, worker, coord, waits, Tasks, TypeOK,
     WorkerLists, RunsInExecute, StealsWithEmptyQueue, MailboxSeen, ProducedSeen
<1>4. OnePlace' /\ DoneBegun' /\ WaitSetExact'
  <2>1. /\ running[w] = NoTask /\ NoTask \notin Tasks /\ running'[w] = t
        /\ \A y \in Workers : y # w => running'[y] = running[y]
        /\ t \in mailbox[w] /\ local[w] = {} /\ local'[w] = mailbox[w] \ {t} /\ mailbox'[w] = {}
        /\ \A y \in Workers : y # w => local'[y] = local[y] /\ mailbox'[y] = mailbox[y]
        /\ UNCHANGED <<incoming, produced, ready, waiting, batch, waiting_list, wait_set, done>>
    BY <1>0, ExecutorAssumption, Zenon DEF IInv, WorkerLists, TypeOK, RunsInExecute,
       StealsWithEmptyQueue, Run, FlushMailbox, coord, waits
  <2>2. ASSUME NEW s \in Tasks, s = t PROVE Hops(s, "mailbox", w, "running", w)
    BY <2>1, <2>2 DEF Hops, In
  <2>3. ASSUME NEW s \in Tasks, s \in mailbox[w], s # t PROVE Hops(s, "mailbox", w, "local", w)
    BY <2>1, <2>3 DEF Hops, In
  <2>4. ASSUME NEW s \in Tasks, s \notin mailbox[w] PROVE Stays(s) BY <2>1, <2>4 DEF Stays, In
  <2>5. WaitSetExact' BY <2>1, Zenon DEF IInv, WaitSetExact, WaitsOf
  <2>6. QED BY <1>0, <2>1, <2>2, <2>3, <2>4, <2>5, PlacesMove, Basics, Zenon DEF IInv, Kinds
<1>5. QED BY <1>1, <1>2, <1>3, <1>4, Zenon DEF IInv

\* A worker has nothing of its own to do.
LEMMA PumpEmptyKeeps ==
    ASSUME IInv, NEW w \in Workers, PumpEmpty(w)
    PROVE  IInv'
<1>0. /\ pc[w] = "pump" /\ pc'[w] = "steal"
      /\ \A q \in Threads : q # w => pc'[q] = pc[q]
      /\ pc' \in [Threads -> Labels]
  BY GotoIs, Basics, Zenon DEF IInv, PumpEmpty, Labels
<1>1. TypeOK'
  BY <1>0, Basics, Zenon DEF IInv, PumpEmpty, TypeOK, Tasks, queues, worker, coord, waits
<1>2. Coordination'
  BY <1>0, Basics, Zenon DEF IInv, PumpEmpty, queues, worker, coord, waits, Coordination, Control,
     CoordinatorLists, WakesPending, IncomingSeen, NoBatch, Coordinating
<1>3. WorkerLists'
  BY <1>0, Basics, Zenon DEF IInv, PumpEmpty, queues, worker, coord, waits, WorkerLists,
     RunsInExecute, StealsWithEmptyQueue, MailboxSeen, ProducedSeen
<1>4. OnePlace' /\ DoneBegun' /\ WaitSetExact'
  BY <1>0, Basics, ListsKept, Zenon DEF IInv, PumpEmpty, queues, worker, coord, waits
<1>5. QED BY <1>1, <1>2, <1>3, <1>4, Zenon DEF IInv

\* A worker steals half a queue.
LEMMA StealQueueKeeps ==
    ASSUME IInv, NEW w \in Workers, NEW v \in Workers, NEW S \in SUBSET local[v], NEW t \in Calls,
           StealQueue(w, v, S, t)
    PROVE  IInv'
<1>0. /\ pc[w] = "steal" /\ pc'[w] = "execute"
      /\ \A q \in Threads : q # w => pc'[q] = pc[q]
      /\ pc' \in [Threads -> Labels]
  BY GotoIs, Basics, Zenon DEF IInv, StealQueue, Run, Labels
<1>1. TypeOK'
  BY <1>0, Basics, Zenon DEF IInv, StealQueue, Run, TypeOK, Tasks, queues, worker, coord, waits
<1>2. Coordination'
  BY <1>0, Basics, Zenon DEF IInv, StealQueue, Run, queues, worker, coord, waits, Tasks, TypeOK,
     Coordination, Control, CoordinatorLists, WakesPending, IncomingSeen, NoBatch, Coordinating
<1>3. WorkerLists'
  BY <1>0, Basics, Zenon DEF IInv, StealQueue, Run, queues, worker, coord, waits, Tasks, TypeOK,
     WorkerLists, RunsInExecute, StealsWithEmptyQueue, MailboxSeen, ProducedSeen
<1>4. OnePlace' /\ DoneBegun' /\ WaitSetExact'
  <2>1. /\ running[w] = NoTask /\ NoTask \notin Tasks /\ running'[w] = t
        /\ \A y \in Workers : y # w => running'[y] = running[y]
        /\ v # w /\ t \in S /\ local[w] = {} /\ local'[w] = S \ {t} /\ local'[v] = local[v] \ S
        /\ \A y \in Workers \ {v} : y # w => local'[y] = local[y]
        /\ UNCHANGED <<incoming, mailbox, produced, ready, waiting, batch, waiting_list,
                       wait_set, done>>
    BY <1>0, ExecutorAssumption DEF IInv, WorkerLists, TypeOK, RunsInExecute,
       StealsWithEmptyQueue, Run, StealQueue, coord, waits
  <2>2. ASSUME NEW s \in Tasks, s = t PROVE Hops(s, "local", v, "running", w)
    BY <2>1, <2>2 DEF Hops, In
  <2>3. ASSUME NEW s \in Tasks, s \in S, s # t PROVE Hops(s, "local", v, "local", w)
    BY <2>1, <2>3 DEF Hops, In
  <2>4. ASSUME NEW s \in Tasks, s \notin S PROVE Stays(s) BY <2>1, <2>4 DEF Stays, In
  <2>5. WaitSetExact' BY <2>1, Zenon DEF IInv, WaitSetExact, WaitsOf
  <2>6. QED BY <1>0, <2>1, <2>2, <2>3, <2>4, <2>5, PlacesMove, Basics, Zenon DEF IInv, Kinds
<1>5. QED BY <1>1, <1>2, <1>3, <1>4, Zenon DEF IInv

\* A worker steals from a mailbox.
LEMMA StealMailboxKeeps ==
    ASSUME IInv, NEW w \in Workers, NEW v \in Workers, NEW t \in Calls, StealMailbox(w, v, t)
    PROVE  IInv'
<1>0. /\ pc[w] = "steal" /\ pc'[w] = "execute"
      /\ \A q \in Threads : q # w => pc'[q] = pc[q]
      /\ pc' \in [Threads -> Labels]
  BY GotoIs, Basics, Zenon DEF IInv, StealMailbox, Run, Labels
<1>1. TypeOK'
  BY <1>0, Basics, Zenon DEF IInv, StealMailbox, Run, TypeOK, Tasks, queues, worker, coord, waits
<1>2. Coordination'
  BY <1>0, Basics, Zenon DEF IInv, StealMailbox, Run, queues, worker, coord, waits, Tasks, TypeOK,
     Coordination, Control, CoordinatorLists, WakesPending, IncomingSeen, NoBatch, Coordinating
<1>3. WorkerLists'
  BY <1>0, Basics, Zenon DEF IInv, StealMailbox, Run, queues, worker, coord, waits, Tasks, TypeOK,
     WorkerLists, RunsInExecute, StealsWithEmptyQueue, MailboxSeen, ProducedSeen
<1>4. OnePlace' /\ DoneBegun' /\ WaitSetExact'
  <2>1. /\ running[w] = NoTask /\ NoTask \notin Tasks /\ running'[w] = t
        /\ \A y \in Workers : y # w => running'[y] = running[y]
        /\ t \in mailbox[v] /\ mailbox'[v] = mailbox[v] \ {t}
        /\ \A y \in Workers : y # v => mailbox'[y] = mailbox[y]
        /\ UNCHANGED <<incoming, local, produced, ready, waiting, batch, waiting_list,
                       wait_set, done>>
    BY <1>0, ExecutorAssumption, Zenon DEF IInv, WorkerLists, TypeOK, RunsInExecute,
       StealsWithEmptyQueue, Run, StealMailbox, coord, waits
  <2>2. ASSUME NEW s \in Tasks, s = t PROVE Hops(s, "mailbox", v, "running", w)
    BY <2>1, <2>2 DEF Hops, In
  <2>3. ASSUME NEW s \in Tasks, s # t PROVE Stays(s) BY <2>1, <2>3 DEF Stays, In
  <2>4. WaitSetExact' BY <2>1, Zenon DEF IInv, WaitSetExact, WaitsOf
  <2>5. QED BY <1>0, <2>1, <2>2, <2>3, <2>4, PlacesMove, Basics, Zenon DEF IInv, Kinds
<1>5. QED BY <1>1, <1>2, <1>3, <1>4, Zenon DEF IInv

\* A worker submits what it has produced.
LEMMA PumpEndKeeps ==
    ASSUME IInv, NEW w \in Workers, PumpEnd(w)
    PROVE  IInv'
<1>0. /\ pc[w] = "steal" /\ pc'[w] = "lock"
      /\ \A q \in Threads : q # w => pc'[q] = pc[q]
      /\ pc' \in [Threads -> Labels]
  BY GotoIs, Basics, Zenon DEF IInv, PumpEnd, Labels
<1>1. TypeOK'
  BY <1>0, Basics, Zenon DEF IInv, PumpEnd, TypeOK, Tasks, queues, worker, coord, waits
<1>2. Coordination'
  BY <1>0, Basics, Zenon DEF IInv, PumpEnd, queues, worker, coord, waits, TypeOK, Coordination,
     Control, CoordinatorLists, WakesPending, IncomingSeen, NoBatch, Coordinating
<1>3. WorkerLists'
  BY <1>0, Basics, Zenon DEF IInv, PumpEnd, queues, worker, coord, waits, TypeOK, WorkerLists,
     RunsInExecute, StealsWithEmptyQueue, MailboxSeen, ProducedSeen
<1>4. OnePlace' /\ DoneBegun' /\ WaitSetExact'
  <2>1. /\ incoming' = incoming \cup produced[w] /\ produced'[w] = {}
        /\ \A y \in Workers : y # w => produced'[y] = produced[y]
        /\ UNCHANGED <<mailbox, local, running, ready, waiting, batch, waiting_list,
                       wait_set, done>>
    BY Zenon DEF IInv, TypeOK, PumpEnd, coord, waits
  <2>2. ASSUME NEW s \in Tasks, s \in produced[w] PROVE Hops(s, "produced", w, "incoming", 0)
    BY <2>1, <2>2 DEF Hops, In
  <2>3. ASSUME NEW s \in Tasks, s \notin produced[w] PROVE Stays(s) BY <2>1, <2>3 DEF Stays, In
  <2>4. WaitSetExact' BY <2>1, Zenon DEF IInv, WaitSetExact, WaitsOf
  <2>5. QED BY <1>0, <2>1, <2>2, <2>3, <2>4, PlacesMove, Basics, Zenon DEF IInv, Kinds
<1>5. QED BY <1>1, <1>2, <1>3, <1>4, Zenon DEF IInv

\* A worker executes a call.
LEMMA ExecuteKeeps ==
    ASSUME IInv, NEW w \in Workers, Execute(w)
    PROVE  IInv'
<1>0. /\ pc[w] = "execute" /\ pc'[w] = "pump"
      /\ \A q \in Threads : q # w => pc'[q] = pc[q]
      /\ pc' \in [Threads -> Labels]
  BY GotoIs, Basics, Zenon DEF IInv, Execute, Labels
<1>1. TypeOK'
  <2>1. running[w] \in Calls BY <1>0, Zenon DEF IInv, WorkerLists, RunsInExecute, TypeOK
  <2>2. Signals[running[w]] \subseteq Handles /\ Follow[running[w]] \subseteq Tasks
    BY <2>1, ExecutorAssumption, Zenon DEF Tasks
  <2>3. QED BY <1>0, <2>1, <2>2, Zenon DEF IInv, Execute, TypeOK, Tasks, worker, coord, waits
<1>2. Coordination'
  BY <1>0, Basics, Zenon DEF IInv, Execute, queues, worker, coord, waits, TypeOK, Coordination,
     Control, CoordinatorLists, WakesPending, IncomingSeen, NoBatch, Coordinating
<1>3. WorkerLists'
  BY <1>0, Basics, Zenon DEF IInv, Execute, queues, worker, coord, waits, TypeOK, WorkerLists,
     RunsInExecute, StealsWithEmptyQueue, MailboxSeen, ProducedSeen
<1>4. OnePlace' /\ DoneBegun' /\ WaitSetExact'
  <2>1. PICK t \in Tasks : t = running[w]
    BY <1>0, Zenon DEF IInv, WorkerLists, RunsInExecute, TypeOK, Tasks
  <2>2. /\ NoTask \notin Tasks /\ done' = done \cup {t}
        /\ produced'[w] = produced[w] \cup Follow[t] /\ running'[w] = NoTask
        /\ \A y \in Workers : y # w => produced'[y] = produced[y] /\ running'[y] = running[y]
        /\ UNCHANGED <<incoming, mailbox, local, ready, waiting, batch, waiting_list, wait_set>>
    BY <2>1, Basics, Zenon DEF IInv, TypeOK, Execute, coord, waits
  <2>3. In(t, "running", w) /\ (t \notin Follow[t] => Leaves(t, "running", w))
    BY <2>1, <2>2 DEF Leaves, In
  <2>4. ASSUME NEW s \in Follow[t], s \in Tasks PROVE Enters(s, "produced", w)
    BY <2>2, <2>4 DEF Enters, In
  <2>5. ASSUME NEW s \in Tasks \ Follow[t], s # t PROVE Stays(s) BY <2>1, <2>2, <2>5 DEF Stays, In
  <2>6. WaitSetExact' BY <2>2, Zenon DEF IInv, WaitSetExact, WaitsOf
  <2>7. Follow[t] \subseteq Tasks BY ExecutorAssumption, Zenon
  <2>8. QED BY <1>0, <2>2, <2>3, <2>4, <2>5, <2>6, <2>7, PlacesEnd, Basics DEF IInv, TypeOK, Kinds
<1>5. QED BY <1>1, <1>2, <1>3, <1>4, Zenon DEF IInv

\* A worker goes on or parks.
LEMMA DecideKeeps ==
    ASSUME IInv, NEW w \in Workers, Decide(w)
    PROVE  IInv'
<1>0. /\ pc[w] = "decide" /\ pc'[w] = (IF dirty[w] \/ local[w] # {} THEN "prepare" ELSE "park")
      /\ \A q \in Threads : q # w => pc'[q] = pc[q]
      /\ pc' \in [Threads -> Labels]
  BY GotoIs, Basics, Zenon DEF IInv, Decide, Labels
<1>1. TypeOK'
  BY <1>0, Basics, Zenon DEF IInv, Decide, TypeOK, Tasks, queues, worker, coord, waits
<1>2. Coordination'
  BY <1>0, Basics, Zenon DEF IInv, Decide, queues, worker, coord, waits, Coordination, Control,
     CoordinatorLists, WakesPending, IncomingSeen, NoBatch, Coordinating
<1>3. WorkerLists'
  BY <1>0, Basics, Zenon DEF IInv, Decide, queues, worker, coord, waits, WorkerLists,
     RunsInExecute, StealsWithEmptyQueue, MailboxSeen, ProducedSeen
<1>4. OnePlace' /\ DoneBegun' /\ WaitSetExact'
  BY <1>0, Basics, ListsKept, Zenon DEF IInv, Decide, queues, worker, coord, waits
<1>5. QED BY <1>1, <1>2, <1>3, <1>4, Zenon DEF IInv

\* A worker is woken.
LEMMA UnparkKeeps ==
    ASSUME IInv, NEW w \in Workers, Unpark(w)
    PROVE  IInv'
<1>0. /\ pc[w] = "park" /\ pc'[w] = "prepare"
      /\ \A q \in Threads : q # w => pc'[q] = pc[q]
      /\ pc' \in [Threads -> Labels]
  BY GotoIs, Basics, Zenon DEF IInv, Unpark, Labels
<1>1. TypeOK'
  BY <1>0, Basics, Zenon DEF IInv, Unpark, TypeOK, Tasks, queues, worker, coord, waits
<1>2. Coordination'
  BY <1>0, Basics, Zenon DEF IInv, Unpark, queues, worker, coord, waits, Coordination, Control,
     CoordinatorLists, WakesPending, IncomingSeen, NoBatch, Coordinating
<1>3. WorkerLists'
  BY <1>0, Basics, Zenon DEF IInv, Unpark, queues, worker, coord, waits, WorkerLists,
     RunsInExecute, StealsWithEmptyQueue, MailboxSeen, ProducedSeen
<1>4. OnePlace' /\ DoneBegun' /\ WaitSetExact'
  BY <1>0, Basics, ListsKept, Zenon DEF IInv, Unpark, queues, worker, coord, waits
<1>5. QED BY <1>1, <1>2, <1>3, <1>4, Zenon DEF IInv

-----------------------------------------------------------------------------
(* Coordination.                                                           *)

\* A thread becomes the coordinator.
LEMMA CoordinatorLockKeeps ==
    ASSUME IInv, NEW p \in Threads, CoordinatorLock(p)
    PROVE  IInv'
<1>0. /\ pc[p] = "lock" /\ pc'[p] = "flush"
      /\ \A q \in Threads : q # p => pc'[q] = pc[q]
      /\ pc' \in [Threads -> Labels]
  BY GotoIs, Basics, Zenon DEF IInv, CoordinatorLock, Labels
<1>1. TypeOK'
  BY <1>0, Basics, Zenon DEF IInv, CoordinatorLock, TypeOK, Tasks, queues, worker, coord, waits
<1>2. Coordination'
  BY <1>0, Basics, Zenon DEF IInv, CoordinatorLock, queues, worker, coord, waits, Coordination,
     Control, CoordinatorLists, WakesPending, IncomingSeen, NoBatch, Coordinating
<1>3. WorkerLists'
  BY <1>0, Basics, Zenon DEF IInv, CoordinatorLock, queues, worker, coord, waits, WorkerLists,
     RunsInExecute, StealsWithEmptyQueue, MailboxSeen, ProducedSeen
<1>4. OnePlace' /\ DoneBegun' /\ WaitSetExact'
  BY <1>0, Basics, ListsKept, Zenon DEF IInv, CoordinatorLock, queues, worker, coord, waits
<1>5. QED BY <1>1, <1>2, <1>3, <1>4, Zenon DEF IInv

\* The incoming lists become the coordinator's.
LEMMA CoordinatorFlushKeeps ==
    ASSUME IInv, NEW p \in Threads, CoordinatorFlush(p)
    PROVE  IInv'
<1>0. /\ pc[p] = "flush" /\ pc'[p] = "poll"
      /\ \A q \in Threads : q # p => pc'[q] = pc[q]
      /\ pc' \in [Threads -> Labels]
  BY GotoIs, Basics, Zenon DEF IInv, CoordinatorFlush, Labels
<1>1. TypeOK'
  BY <1>0, Zenon DEF IInv, CoordinatorFlush, TypeOK, Tasks, IsWaiting, queues, worker, waits
<1>2. Coordination'
  BY <1>0, Basics DEF IInv, CoordinatorFlush, queues, worker, coord, waits, Coordination, Control,
     CoordinatorLists, WakesPending, IncomingSeen, NoBatch, Coordinating
<1>3. WorkerLists'
  BY <1>0, Basics, Zenon DEF IInv, CoordinatorFlush, queues, worker, coord, waits, WorkerLists,
     RunsInExecute, StealsWithEmptyQueue, MailboxSeen, ProducedSeen
<1>4. OnePlace' /\ DoneBegun' /\ WaitSetExact'
  <2>1. /\ ready = {} /\ waiting = {} /\ incoming' = {}
        /\ ready' = {t \in incoming : ~IsWaiting(t)} /\ waiting' = {t \in incoming : IsWaiting(t)}
        /\ UNCHANGED <<mailbox, local, produced, running, batch, waiting_list, wait_set, done>>
    BY <1>0, Zenon DEF IInv, Coordination, CoordinatorLists, CoordinatorFlush, waits
  <2>2. ASSUME NEW s \in Tasks, s \in incoming, ~IsWaiting(s)
        PROVE  Hops(s, "incoming", 0, "ready", 0)
    BY <2>1, <2>2 DEF Hops, In
  <2>3. ASSUME NEW s \in Tasks, s \in incoming, IsWaiting(s)
        PROVE  Hops(s, "incoming", 0, "waiting", 0)
    BY <2>1, <2>3 DEF Hops, In
  <2>4. ASSUME NEW s \in Tasks, s \notin incoming PROVE Stays(s) BY <2>1, <2>4 DEF Stays, In
  <2>5. WaitSetExact' BY <2>1, Zenon DEF IInv, WaitSetExact, WaitsOf
  <2>6. QED BY <1>0, <2>1, <2>2, <2>3, <2>4, <2>5, PlacesMove, Basics, Zenon DEF IInv, Kinds
<1>5. QED BY <1>1, <1>2, <1>3, <1>4, Zenon DEF IInv

\* The coordinator retires a wait.
LEMMA ScheduleWaitKeeps ==
    ASSUME IInv, NEW p \in Threads, NEW t \in Tasks, ScheduleWait(p, t)
    PROVE  IInv'
<1>0. pc[p] = "schedule" /\ pc' = pc BY Zenon DEF ScheduleWait
<1>1. TypeOK'
  BY ExecutorAssumption, Zenon DEF IInv, ScheduleWait, TypeOK, IsWaiting, queues, worker, waits
<1>2. Coordination'
  BY <1>0, Basics, Zenon DEF IInv, ScheduleWait, queues, worker, coord, waits, Coordination,
     Control, CoordinatorLists, WakesPending, IncomingSeen, NoBatch, Coordinating
<1>3. WorkerLists'
  BY <1>0, Basics, Zenon DEF IInv, ScheduleWait, queues, worker, coord, waits, WorkerLists,
     RunsInExecute, StealsWithEmptyQueue, MailboxSeen, ProducedSeen
<1>4. OnePlace' /\ DoneBegun' /\ WaitSetExact'
  <2>1. /\ t \in ready /\ done' = done \cup {t}
        /\ ready' = (ready \ {t}) \cup {s \in Follow[t] : ~IsWaiting(s)}
        /\ waiting' = waiting \cup {s \in Follow[t] : IsWaiting(s)}
        /\ UNCHANGED <<incoming, mailbox, local, produced, running, batch, waiting_list,
                       wait_set>>
    BY Zenon DEF ScheduleWait, queues, waits
  <2>2. In(t, "ready", 0) /\ (t \notin Follow[t] => Leaves(t, "ready", 0)) BY <2>1 DEF Leaves, In
  <2>3. ASSUME NEW s \in Follow[t] PROVE Enters(s, "waiting", 0) \/ Enters(s, "ready", 0)
    <3>1. CASE IsWaiting(s) BY <2>1, <3>1, Zenon DEF Enters, In
    <3>2. CASE ~IsWaiting(s) BY <2>1, <3>2, Zenon DEF Enters, In
    <3>3. QED BY <3>1, <3>2, Zenon
  <2>4. ASSUME NEW s \in Tasks \ Follow[t], s # t PROVE Stays(s) BY <2>1, <2>4 DEF Stays, In
  <2>5. WaitSetExact' BY <2>1, Zenon DEF IInv, WaitSetExact, WaitsOf
  <2>6. QED BY <1>0, <2>1, <2>2, <2>3, <2>4, <2>5, PlacesEnd, Basics, Zenon DEF IInv, TypeOK,
      Kinds
<1>5. QED BY <1>1, <1>2, <1>3, <1>4, Zenon DEF IInv

\* The coordinator has scheduled everything.
LEMMA ScheduleEndKeeps ==
    ASSUME IInv, NEW p \in Threads, ScheduleEnd(p)
    PROVE  IInv'
<1>0. /\ pc[p] = "schedule" /\ pc'[p] = "merge_waits"
      /\ \A q \in Threads : q # p => pc'[q] = pc[q]
      /\ pc' \in [Threads -> Labels]
  BY GotoIs, Basics, Zenon DEF IInv, ScheduleEnd, Labels
<1>1. TypeOK'
  BY <1>0, Basics, Zenon DEF IInv, ScheduleEnd, TypeOK, Tasks, queues, worker, coord, waits
<1>2. Coordination'
  BY <1>0, Basics, Zenon DEF IInv, ScheduleEnd, queues, worker, coord, waits, Coordination,
     Control, CoordinatorLists, WakesPending, IncomingSeen, NoBatch, Coordinating
<1>3. WorkerLists'
  BY <1>0, Basics, Zenon DEF IInv, ScheduleEnd, queues, worker, coord, waits, WorkerLists,
     RunsInExecute, StealsWithEmptyQueue, MailboxSeen, ProducedSeen
<1>4. OnePlace' /\ DoneBegun' /\ WaitSetExact'
  BY <1>0, Basics, ListsKept, Zenon DEF IInv, ScheduleEnd, queues, worker, coord, waits
<1>5. QED BY <1>1, <1>2, <1>3, <1>4, Zenon DEF IInv

\* The coordinator posts the batch.
LEMMA PostBatchSubmitKeeps ==
    ASSUME IInv, NEW p \in Threads, PostBatchSubmit(p)
    PROVE  IInv'
<1>0. /\ pc[p] = "post"
      /\ pc'[p] = IF wake_mask' # {} THEN "wake"
                  ELSE IF p \in Workers /\ waiting_list # {} /\ NoBatch THEN "wait_lock"
                  ELSE "finish"
      /\ \A q \in Threads : q # p => pc'[q] = pc[q]
      /\ pc' \in [Threads -> Labels]
  BY GotoIs, Zenon DEF IInv, PostBatchSubmit, Labels, NoBatch
<1>1. TypeOK'
  BY <1>0, Basics, Zenon DEF IInv, PostBatchSubmit, TypeOK, Tasks, queues, worker, coord, waits
<1>2. Coordination'
  BY <1>0, Basics DEF IInv, PostBatchSubmit, queues, worker, coord, waits, TypeOK, Coordination,
     Control, CoordinatorLists, WakesPending, IncomingSeen, NoBatch, Coordinating
<1>3. WorkerLists'
  <2>1. wake_mask = {} BY <1>0, Zenon DEF IInv, Coordination, WakesPending, Coordinating
  <2>2. MailboxSeen'
    BY <1>0, <2>1, Basics DEF IInv, PostBatchSubmit, worker, WorkerLists, MailboxSeen
  <2>3. RunsInExecute' /\ StealsWithEmptyQueue' /\ ProducedSeen'
    BY <1>0, Basics, Zenon DEF IInv, PostBatchSubmit, worker, WorkerLists, RunsInExecute,
       StealsWithEmptyQueue, ProducedSeen
  <2>4. QED BY <2>2, <2>3 DEF WorkerLists
<1>4. OnePlace' /\ DoneBegun' /\ WaitSetExact'
  <2>1. /\ \A y \in Workers, s \in Tasks :
              /\ s \in mailbox'[y] <=> s \in mailbox[y] \/ (y # p /\ s \in batch[y])
              /\ s \in local'[y] <=> s \in local[y] \/ (y = p /\ s \in batch[y])
              /\ s \notin batch'[y]
        /\ UNCHANGED <<incoming, produced, running, ready, waiting, waiting_list, wait_set, done>>
    BY Zenon DEF PostBatchSubmit, waits
  <2>2. ASSUME NEW s \in Tasks, NEW v \in Workers, s \in batch[v]
        PROVE  Hops(s, "batch", v, "local", v) \/ Hops(s, "batch", v, "mailbox", v)
    <3>1. \A y \in Workers : s \in batch[y] => y = v
      BY <2>2 DEF IInv, OnePlace, Placed, Sole, Nowhere, In, Kinds
    <3>2. CASE v = p BY <2>1, <2>2, <3>1, <3>2 DEF Hops, In
    <3>3. CASE v # p BY <2>1, <2>2, <3>1, <3>3 DEF Hops, In
    <3>4. QED BY <3>2, <3>3, Zenon
  <2>3. ASSUME NEW s \in Tasks, \A v \in Workers : s \notin batch[v] PROVE Stays(s)
    BY <2>1, <2>3 DEF Stays, In
  <2>4. WaitSetExact' BY <2>1, Zenon DEF IInv, WaitSetExact, WaitsOf
  <2>5. QED BY <1>0, <2>1, <2>2, <2>3, <2>4, PlacesMove, Basics DEF IInv, Kinds
<1>5. QED BY <1>1, <1>2, <1>3, <1>4, Zenon DEF IInv

\* The coordinator wakes a worker.
LEMMA WakeWorkersKeeps ==
    ASSUME IInv, NEW p \in Threads, NEW w \in Workers, WakeWorkers(p, w)
    PROVE  IInv'
<1>0. /\ pc[p] = "wake" /\ pc'[p] = (IF wake_mask' = {} THEN "finish" ELSE "wake")
      /\ \A q \in Threads : q # p => pc'[q] = pc[q]
      /\ pc' \in [Threads -> Labels]
  BY GotoIs, Basics, Zenon DEF IInv, WakeWorkers, Labels
<1>1. TypeOK'
  BY <1>0, Basics, Zenon DEF IInv, WakeWorkers, TypeOK, Tasks, queues, worker, coord, waits
<1>2. Coordination'
  BY <1>0, Basics, Zenon DEF IInv, WakeWorkers, queues, worker, coord, waits, TypeOK,
     Coordination, Control, CoordinatorLists, WakesPending, IncomingSeen, NoBatch, Coordinating
<1>3. WorkerLists'
  BY <1>0, Basics, Zenon DEF IInv, WakeWorkers, queues, worker, coord, waits, TypeOK, WorkerLists,
     RunsInExecute, StealsWithEmptyQueue, MailboxSeen, ProducedSeen
<1>4. OnePlace' /\ DoneBegun' /\ WaitSetExact'
  BY <1>0, Basics, ListsKept, Zenon DEF IInv, WakeWorkers, queues, worker, coord, waits
<1>5. QED BY <1>1, <1>2, <1>3, <1>4, Zenon DEF IInv

\* A worker starts to poll the wait set.
LEMMA WaitAnyLockKeeps ==
    ASSUME IInv, NEW w \in Workers, WaitAnyLock(w)
    PROVE  IInv'
<1>0. /\ pc[w] = "wait_lock" /\ pc'[w] = "wait_any"
      /\ \A q \in Threads : q # w => pc'[q] = pc[q]
      /\ pc' \in [Threads -> Labels]
  BY GotoIs, Basics, Zenon DEF IInv, WaitAnyLock, Labels
<1>1. TypeOK'
  BY <1>0, Zenon DEF IInv, WaitAnyLock, TypeOK, HandlesInSet, queues, worker, coord
<1>2. Coordination'
  BY <1>0, Basics, Zenon DEF IInv, WaitAnyLock, queues, worker, coord, waits, Coordination,
     Control, CoordinatorLists, WakesPending, IncomingSeen, NoBatch, Coordinating
<1>3. WorkerLists'
  BY <1>0, Basics, Zenon DEF IInv, WaitAnyLock, queues, worker, coord, waits, WorkerLists,
     RunsInExecute, StealsWithEmptyQueue, MailboxSeen, ProducedSeen
<1>4. OnePlace' /\ DoneBegun' /\ WaitSetExact'
  BY <1>0, Basics, ListsKept, Zenon DEF IInv, WaitAnyLock, queues, worker, coord, waits
<1>5. QED BY <1>1, <1>2, <1>3, <1>4, Zenon DEF IInv

\* The poll of the wait set returns, torn or not.
LEMMA WaitAnyKeeps ==
    ASSUME IInv, NEW w \in Workers, NEW h \in Handles \cup {NoHandle}, pc[w] = "wait_any",
           WaitAnyReturns(w, h)
    PROVE  IInv'
<1>0. /\ pc[w] = "wait_any" /\ pc'[w] = "relock"
      /\ \A q \in Threads : q # w => pc'[q] = pc[q]
      /\ pc' \in [Threads -> Labels]
  BY GotoIs, Basics, Zenon DEF IInv, WaitAnyReturns, Labels
<1>1. TypeOK'
  BY <1>0, Basics, Zenon DEF IInv, WaitAnyReturns, TypeOK, Tasks, queues, worker, coord, waits
<1>2. Coordination'
  BY <1>0, Basics, Zenon DEF IInv, WaitAnyReturns, queues, worker, coord, waits, Coordination,
     Control, CoordinatorLists, WakesPending, IncomingSeen, NoBatch, Coordinating
<1>3. WorkerLists'
  BY <1>0, Basics, Zenon DEF IInv, WaitAnyReturns, queues, worker, coord, waits, WorkerLists,
     RunsInExecute, StealsWithEmptyQueue, MailboxSeen, ProducedSeen
<1>4. OnePlace' /\ DoneBegun' /\ WaitSetExact'
  BY <1>0, Basics, ListsKept, Zenon DEF IInv, WaitAnyReturns, queues, worker, coord, waits
<1>5. QED BY <1>1, <1>2, <1>3, <1>4, Zenon DEF IInv

\* The coordinator starts over or leaves.
LEMMA CoordinatorFinishKeeps ==
    ASSUME IInv, NEW p \in Threads, CoordinatorFinish(p)
    PROVE  IInv'
<1>0. /\ pc[p] = "finish"
      /\ pc'[p] = (IF ready # {} THEN "flush"
                   ELSE IF p \in Users THEN "returned" ELSE "decide")
      /\ \A q \in Threads : q # p => pc'[q] = pc[q]
      /\ pc' \in [Threads -> Labels]
  BY GotoIs, Basics, Zenon DEF IInv, CoordinatorFinish, Labels
<1>1. TypeOK'
  BY <1>0, Basics, Zenon DEF IInv, CoordinatorFinish, TypeOK, Tasks, queues, worker, coord, waits
<1>2. Coordination'
  BY <1>0, Basics DEF IInv, CoordinatorFinish, queues, worker, coord, waits, Coordination,
     Control, CoordinatorLists, WakesPending, IncomingSeen, NoBatch, Coordinating
<1>3. WorkerLists'
  BY <1>0, Basics, Zenon DEF IInv, CoordinatorFinish, queues, worker, coord, waits, WorkerLists,
     RunsInExecute, StealsWithEmptyQueue, MailboxSeen, ProducedSeen
<1>4. OnePlace' /\ DoneBegun' /\ WaitSetExact'
  <2>1. /\ \/ ready # {} /\ ready' = {} /\ incoming' = incoming \cup ready
           \/ ready = {} /\ UNCHANGED <<ready, incoming>>
        /\ UNCHANGED <<mailbox, local, produced, running, batch, waiting, waiting_list,
                       wait_set, done>>
    BY Zenon DEF CoordinatorFinish, waits
  <2>2. ASSUME NEW s \in Tasks, s \in ready PROVE Hops(s, "ready", 0, "incoming", 0)
    BY <2>1, <2>2 DEF Hops, In
  <2>3. ASSUME NEW s \in Tasks, s \notin ready PROVE Stays(s) BY <2>1, <2>3 DEF Stays, In
  <2>4. WaitSetExact' BY <2>1, Zenon DEF IInv, WaitSetExact, WaitsOf
  <2>5. QED BY <1>0, <2>1, <2>2, <2>3, <2>4, PlacesMove, Basics, Zenon DEF IInv, Kinds
<1>5. QED BY <1>1, <1>2, <1>3, <1>4, Zenon DEF IInv

-----------------------------------------------------------------------------
(* Steps that choose a worker or change the wait set.                      *)

\* A set of naturals that is not empty has a least element.
LEMMA LeastNatural ==
    ASSUME NEW S \in SUBSET Nat, S # {}
    PROVE  Min(S) \in S
<1>1. PICK x \in S : \A y \in S : ~ (<<y, x>> \in OpToRel(<, Nat))
  BY WFMin, NatLessThanWellFounded, Zenon
<1>2. \A y \in S : ~(y < x)
  BY <1>1, Zenon DEF OpToRel
<1>3. \E z \in S : \A y \in S : z =< y
  BY <1>2
<1>4. QED BY <1>3, Zenon DEF Min

\* A ready call is posted to a worker that exists.
LEMMA SelectsWorker ==
    ASSUME TypeOK, NEW p \in Threads, NEW t \in Tasks
    PROVE  SelectWorker(p, t) \in Workers
<1>1. Affinity[t] \subseteq Workers /\ 0 \in Workers /\ Workers \subseteq Nat
  BY ExecutorAssumption, Zenon
<1>2. \A S \in SUBSET Workers : FirstWorker(S) \in Workers
  BY <1>1, LeastNatural, Zenon DEF FirstWorker
<1>3. QED BY <1>1, <1>2, Zenon DEF SelectWorker

\* The wait set follows the waiting list when waits are woken.
LEMMA WokenCounted ==
    ASSUME TypeOK, WaitSetExact, NEW S \in SUBSET waiting_list, WakeAll(S)
    PROVE  WaitSetExact' /\ wait_set' \in [Handles -> Nat]
<1>1. IsFiniteSet(waiting_list) BY FS_Subset, OriginAssumption, Zenon DEF TypeOK
<1>2. SUFFICES ASSUME NEW h \in Handles
               PROVE wait_set'[h] = Cardinality(WaitsOf(h)') /\ wait_set'[h] \in Nat
  BY Zenon DEF WaitSetExact, WakeAll
<1> DEFINE D == {t \in S : Handle[t] = h}
<1>3. IsFiniteSet(WaitsOf(h)) /\ D \subseteq WaitsOf(h) BY <1>1, FS_Subset, Zenon DEF WaitsOf
<1>4. WaitsOf(h)' = WaitsOf(h) \ D /\ WaitsOf(h) \cap D = D BY <1>3, Zenon DEF WaitsOf, WakeAll
<1>5. Cardinality(WaitsOf(h) \ D) = Cardinality(WaitsOf(h)) - Cardinality(D)
      /\ IsFiniteSet(WaitsOf(h) \ D)
  BY <1>3, <1>4, FS_Difference, Zenon
<1>6. wait_set'[h] = Cardinality(WaitsOf(h)) - Cardinality(D) BY Zenon DEF WakeAll, WaitSetExact
<1>7. Cardinality(WaitsOf(h) \ D) \in Nat BY <1>5, FS_CardinalityType, Zenon
<1>8. QED BY <1>4, <1>5, <1>6, <1>7, Zenon

\* And when waits are added.
LEMMA MergedCounted ==
    ASSUME TypeOK, WaitSetExact, OnePlace, NEW p \in Threads, MergeWaitList(p)
    PROVE  wait_set' \in [Handles -> Nat] /\ WaitSetExact'
<1>1. IsFiniteSet(waiting_list) /\ IsFiniteSet(waiting)
  BY FS_Subset, OriginAssumption, Zenon DEF TypeOK
<1>2. waiting_list \cap waiting = {}
  <2>1. SUFFICES ASSUME NEW t \in waiting_list, t \in waiting PROVE FALSE OBVIOUS
  <2>2. Placed(t) BY Zenon DEF OnePlace, TypeOK, Tasks
  <2>3. In(t, "waiting_list", 0) /\ In(t, "waiting", 0) BY <2>1, Zenon DEF In
  <2>4. QED BY <2>2, <2>3, ExecutorAssumption, Zenon DEF Placed, Sole, Nowhere, Kinds
<1>3. SUFFICES ASSUME NEW h \in Handles
               PROVE wait_set'[h] = Cardinality(WaitsOf(h)') /\ wait_set'[h] \in Nat
  BY Zenon DEF WaitSetExact, MergeWaitList
<1> DEFINE D == {t \in waiting : Handle[t] = h}
<1>4. IsFiniteSet(WaitsOf(h)) /\ IsFiniteSet(D) BY <1>1, FS_Subset, Zenon DEF WaitsOf
<1>5. WaitsOf(h)' = WaitsOf(h) \cup D /\ WaitsOf(h) \cap D = {}
  BY <1>2, Zenon DEF WaitsOf, MergeWaitList
<1>6. wait_set'[h] = Cardinality(WaitsOf(h)) + Cardinality(D)
  BY Zenon DEF MergeWaitList, WaitSetExact
<1>7. Cardinality(WaitsOf(h)) \in Nat /\ Cardinality(D) \in Nat BY <1>4, FS_CardinalityType, Zenon
<1>8. Cardinality(WaitsOf(h) \cup D) = Cardinality(WaitsOf(h)) + Cardinality(D)
  <2>1. Cardinality({}) = 0 BY FS_EmptySet, Zenon
  <2>2. Cardinality(WaitsOf(h) \cup D)
          = Cardinality(WaitsOf(h)) + Cardinality(D) - Cardinality(WaitsOf(h) \cap D)
    BY <1>4, FS_Union, Zenon
  <2>3. Cardinality(WaitsOf(h) \cap D) = 0 BY <1>5, <2>1, Zenon
  <2> HIDE DEF D
  <2>4. QED BY <1>7, <2>2, <2>3
<1>9. QED BY <1>5, <1>6, <1>7, <1>8

\* The coordinator puts a call into the post batch.
LEMMA ScheduleCallKeeps ==
    ASSUME IInv, NEW p \in Threads, NEW t \in Tasks, ScheduleCall(p, t)
    PROVE  IInv'
<1>0. pc[p] = "schedule" /\ pc' = pc BY Zenon DEF ScheduleCall
<1>1. TypeOK'
  BY SelectsWorker, Zenon DEF IInv, ScheduleCall, TypeOK, Tasks, queues, worker, waits
<1>2. Coordination'
  BY <1>0, Basics, Zenon DEF IInv, ScheduleCall, queues, worker, coord, waits, TypeOK,
     Coordination, Control, CoordinatorLists, WakesPending, IncomingSeen, NoBatch, Coordinating
<1>3. WorkerLists'
  BY <1>0, Basics, Zenon DEF IInv, ScheduleCall, queues, worker, coord, waits, TypeOK,
     WorkerLists, RunsInExecute, StealsWithEmptyQueue, MailboxSeen, ProducedSeen
<1>4. OnePlace' /\ DoneBegun' /\ WaitSetExact'
  <2>1. PICK x \in Workers : batch' = [batch EXCEPT ![x] = @ \cup {t}]
    BY SelectsWorker, Zenon DEF IInv, ScheduleCall
  <2>2. /\ t \in ready /\ ready' = ready \ {t} /\ batch'[x] = batch[x] \cup {t}
        /\ \A y \in Workers : y # x => batch'[y] = batch[y]
        /\ UNCHANGED <<incoming, mailbox, local, produced, running, waiting, waiting_list,
                       wait_set, done>>
    BY <2>1, Zenon DEF IInv, TypeOK, ScheduleCall, queues, waits
  <2>3. Hops(t, "ready", 0, "batch", x) BY <2>2 DEF Hops, In
  <2>4. ASSUME NEW s \in Tasks, s # t PROVE Stays(s) BY <2>2, <2>4 DEF Stays, In
  <2>5. WaitSetExact' BY <2>2, Zenon DEF IInv, WaitSetExact, WaitsOf
  <2>6. QED BY <1>0, <2>2, <2>3, <2>4, <2>5, PlacesMove, Basics, Zenon DEF IInv, Kinds
<1>5. QED BY <1>1, <1>2, <1>3, <1>4, Zenon DEF IInv

\* The coordinator polls the waits.
LEMMA PollWaitingTasksKeeps ==
    ASSUME IInv, NEW p \in Threads, PollWaitingTasks(p)
    PROVE  IInv'
<1>0. /\ pc[p] = "poll" /\ pc'[p] = "schedule"
      /\ \A q \in Threads : q # p => pc'[q] = pc[q]
      /\ pc' \in [Threads -> Labels]
  BY GotoIs, Basics, Zenon DEF IInv, PollWaitingTasks, Labels
<1>1. TypeOK'
  <2>1. PICK S \in SUBSET waiting_list : WakeAll(S) /\ ready' = ready \cup S
    BY Zenon DEF PollWaitingTasks
  <2>2. wait_set' \in [Handles -> Nat] BY <2>1, WokenCounted, Zenon DEF IInv
  <2>3. QED BY <1>0, <2>1, <2>2, Zenon DEF IInv, PollWaitingTasks, WakeAll, TypeOK, Tasks, queues,
      worker
<1>2. Coordination'
  BY <1>0, Basics DEF IInv, PollWaitingTasks, queues, worker, coord, waits, Coordination, Control,
     CoordinatorLists, WakesPending, IncomingSeen, NoBatch, Coordinating
<1>3. WorkerLists'
  BY <1>0, Basics, Zenon DEF IInv, PollWaitingTasks, queues, worker, coord, waits, WorkerLists,
     RunsInExecute, StealsWithEmptyQueue, MailboxSeen, ProducedSeen
<1>4. OnePlace' /\ DoneBegun' /\ WaitSetExact'
  <2>1. PICK S \in SUBSET waiting_list : WakeAll(S) /\ ready' = ready \cup S
    BY Zenon DEF PollWaitingTasks
  <2>2. /\ waiting_list' = waiting_list \ S
        /\ UNCHANGED <<incoming, mailbox, local, produced, running, waiting, batch, done>>
    BY <2>1, Zenon DEF PollWaitingTasks, WakeAll, queues
  <2>3. ASSUME NEW s \in S PROVE Hops(s, "waiting_list", 0, "ready", 0) BY <2>1, <2>2 DEF Hops, In
  <2>4. ASSUME NEW s \in Tasks \ S PROVE Stays(s) BY <2>1, <2>2 DEF Stays, In
  <2>5. WaitSetExact' BY <2>1, WokenCounted, Zenon DEF IInv
  <2>6. QED BY <1>0, <2>2, <2>3, <2>4, <2>5, PlacesMove, Basics, Zenon DEF IInv, Kinds
<1>5. QED BY <1>1, <1>2, <1>3, <1>4, Zenon DEF IInv

\* The worker that polled wakes waits.
LEMMA WakeWaitingTaskKeeps ==
    ASSUME IInv, NEW w \in Workers, WakeWaitingTask(w)
    PROVE  IInv'
<1>0. /\ pc[w] = "relock" /\ pc'[w] = "finish"
      /\ \A q \in Threads : q # w => pc'[q] = pc[q]
      /\ pc' \in [Threads -> Labels]
  BY GotoIs, Basics, Zenon DEF IInv, WakeWaitingTask, Labels
<1>1. TypeOK'
  <2>1. PICK S \in SUBSET waiting_list : WakeAll(S) /\ ready' = ready \cup S
    BY Zenon DEF WakeWaitingTask
  <2>2. wait_set' \in [Handles -> Nat] BY <2>1, WokenCounted, Zenon DEF IInv
  <2>3. QED BY <1>0, <2>1, <2>2, Basics, Zenon DEF IInv, WakeWaitingTask, WakeAll, TypeOK, Tasks,
      queues, worker
<1>2. Coordination'
  BY <1>0, Basics, Zenon DEF IInv, WakeWaitingTask, queues, worker, coord, waits, Coordination,
     Control, CoordinatorLists, WakesPending, IncomingSeen, NoBatch, Coordinating
<1>3. WorkerLists'
  BY <1>0, Basics, Zenon DEF IInv, WakeWaitingTask, queues, worker, coord, waits, WorkerLists,
     RunsInExecute, StealsWithEmptyQueue, MailboxSeen, ProducedSeen
<1>4. OnePlace' /\ DoneBegun' /\ WaitSetExact'
  <2>1. PICK S \in SUBSET waiting_list : WakeAll(S) /\ ready' = ready \cup S
    BY Zenon DEF WakeWaitingTask
  <2>2. /\ waiting_list' = waiting_list \ S
        /\ UNCHANGED <<incoming, mailbox, local, produced, running, waiting, batch, done>>
    BY <2>1, Zenon DEF WakeWaitingTask, WakeAll, queues
  <2>3. ASSUME NEW s \in S PROVE Hops(s, "waiting_list", 0, "ready", 0) BY <2>1, <2>2 DEF Hops, In
  <2>4. ASSUME NEW s \in Tasks \ S PROVE Stays(s) BY <2>1, <2>2 DEF Stays, In
  <2>5. WaitSetExact' BY <2>1, WokenCounted, Zenon DEF IInv
  <2>6. QED BY <1>0, <2>2, <2>3, <2>4, <2>5, PlacesMove, Basics, Zenon DEF IInv, Kinds
<1>5. QED BY <1>1, <1>2, <1>3, <1>4, Zenon DEF IInv

\* The coordinator adds waits to the wait set.
LEMMA MergeWaitListKeeps ==
    ASSUME IInv, NEW p \in Threads, MergeWaitList(p)
    PROVE  IInv'
<1>0. /\ pc[p] = "merge_waits" /\ pc'[p] = "post"
      /\ \A q \in Threads : q # p => pc'[q] = pc[q]
      /\ pc' \in [Threads -> Labels]
  BY GotoIs, Basics, Zenon DEF IInv, MergeWaitList, Labels
<1>1. TypeOK'
  BY <1>0, MergedCounted, Zenon DEF IInv, MergeWaitList, TypeOK, queues, worker
<1>2. Coordination'
  BY <1>0, Basics, Zenon DEF IInv, MergeWaitList, queues, worker, coord, waits, Coordination,
     Control, CoordinatorLists, WakesPending, IncomingSeen, NoBatch, Coordinating
<1>3. WorkerLists'
  BY <1>0, Basics, Zenon DEF IInv, MergeWaitList, queues, worker, coord, waits, WorkerLists,
     RunsInExecute, StealsWithEmptyQueue, MailboxSeen, ProducedSeen
<1>4. OnePlace' /\ DoneBegun' /\ WaitSetExact'
  <2>1. /\ waiting_list' = waiting_list \cup waiting /\ waiting' = {}
        /\ UNCHANGED <<incoming, mailbox, local, produced, running, ready, batch, done>>
    BY Zenon DEF MergeWaitList, queues
  <2>2. ASSUME NEW s \in waiting PROVE Hops(s, "waiting", 0, "waiting_list", 0)
    BY <2>1 DEF Hops, In
  <2>3. ASSUME NEW s \in Tasks \ waiting PROVE Stays(s) BY <2>1 DEF Stays, In
  <2>4. WaitSetExact' BY MergedCounted, Zenon DEF IInv
  <2>5. QED BY <1>0, <2>1, <2>2, <2>3, <2>4, PlacesMove, Basics, Zenon DEF IInv, Kinds
<1>5. QED BY <1>1, <1>2, <1>3, <1>4, Zenon DEF IInv

-----------------------------------------------------------------------------
(* The initial state.                                                      *)

\* The invariant holds initially.
LEMMA InitIInv == Init => IInv
<1> SUFFICES ASSUME Init PROVE IInv OBVIOUS
<1> USE ExecutorAssumption DEF Init
<1>1. TypeOK BY Zenon DEF TypeOK, Labels, Threads, Tasks
<1>2. Control BY Zenon DEF Control, Coordinating, Threads
<1>3. RunsInExecute /\ StealsWithEmptyQueue
  BY Zenon DEF RunsInExecute, StealsWithEmptyQueue, Threads
<1>4. CoordinatorLists BY Zenon DEF CoordinatorLists, NoBatch, Threads
<1>5. OnePlace
  <2>1. Begun = {} BY Zenon DEF Begun, Threads
  <2>2. ASSUME NEW t \in Tasks PROVE Nowhere(t) BY <2>2, Zenon DEF Nowhere, In
  <2>3. QED BY <2>1, <2>2, Zenon DEF OnePlace, Placed
<1>6. WaitSetExact
  <2>1. \A h \in Handles : WaitsOf(h) = {} BY Zenon DEF WaitsOf
  <2>2. QED BY <2>1, FS_EmptySet, Zenon DEF WaitSetExact
<1>7. WakesPending /\ IncomingSeen /\ MailboxSeen /\ ProducedSeen
  BY Zenon DEF WakesPending, IncomingSeen, MailboxSeen, ProducedSeen
<1>8. DoneBegun BY Zenon DEF DoneBegun
<1>9. QED BY <1>1, <1>2, <1>3, <1>4, <1>5, <1>6, <1>7, <1>8, Zenon DEF IInv, Coordination,
    WorkerLists

-----------------------------------------------------------------------------
(* Every step.                                                             *)

\* iree_task_executor_coordinate, by a worker or a user.
LEMMA CoordinateKeeps ==
    ASSUME IInv, NEW p \in Threads, Coordinate(p)
    PROVE  IInv'
BY CoordinatorLockKeeps, CoordinatorFlushKeeps, PollWaitingTasksKeeps, ScheduleCallKeeps,
   ScheduleWaitKeeps, ScheduleEndKeeps, MergeWaitListKeeps, PostBatchSubmitKeeps,
   CoordinatorFinishKeeps, WakeWorkersKeeps, Zenon DEF Coordinate

\* iree_task_worker_pump_until_exit, thefts included.
LEMMA WorkerKeeps ==
    ASSUME IInv, NEW w \in Workers, WorkerStep(w) \/ Steal(w) \/ WaitAnyTorn(w)
    PROVE  IInv'
<1>1. CASE Coordinate(w) BY <1>1, CoordinateKeeps, Basics, Zenon
<1>2. CASE WaitAny(w) \/ WaitAnyTorn(w)
  <2>1. polled \subseteq Handles /\ HandlesInSet \subseteq Handles
    BY Zenon DEF IInv, TypeOK, HandlesInSet
  <2>2. PICK h \in Handles \cup {NoHandle} : WaitAnyReturns(w, h)
    BY <1>2, <2>1, Zenon DEF WaitAny, WaitAnyTorn
  <2>3. QED BY <1>2, <2>2, WaitAnyKeeps, Zenon DEF WaitAny, WaitAnyTorn
<1>3. CASE Steal(w) BY <1>3, StealQueueKeeps, StealMailboxKeeps, Zenon DEF Steal
<1>4. CASE \E t \in Calls : PopLocal(w, t) \/ FlushMailbox(w, t)
  BY <1>4, PopLocalKeeps, FlushMailboxKeeps, Zenon
<1>5. QED
  BY <1>1, <1>2, <1>3, <1>4, WaitAnyLockKeeps, WakeWaitingTaskKeeps, PrepareKeeps, PumpEmptyKeeps,
     PumpEndKeeps, ExecuteKeeps, DecideKeeps, UnparkKeeps, Zenon DEF WorkerStep

\* No step disturbs the invariant.
LEMMA NextIInv == IInv /\ [Next]_vars => IInv'
<1> SUFFICES ASSUME IInv, [Next]_vars PROVE IInv' OBVIOUS
<1>1. ASSUME NEW u \in Users, UserStep(u) PROVE IInv'
  BY <1>1, SubmitKeeps, CoordinateKeeps, Basics, Zenon DEF UserStep
<1>2. ASSUME NEW w \in Workers, WorkerStep(w) \/ Steal(w) \/ WaitAnyTorn(w) PROVE IInv'
  BY <1>2, WorkerKeeps, Zenon
<1>3. CASE UNCHANGED vars
  <2>1. TypeOK' BY <1>3, Zenon DEF IInv, TypeOK, vars, queues, worker, coord, waits
  <2>2. Coordination' /\ WorkerLists'
    BY <1>3, Zenon DEF IInv, vars, queues, worker, coord, waits, Coordination, WorkerLists,
       Control, CoordinatorLists, NoBatch, WakesPending, RunsInExecute, StealsWithEmptyQueue,
       IncomingSeen, MailboxSeen, ProducedSeen
  <2>3. OnePlace' /\ DoneBegun' /\ WaitSetExact'
    BY <1>3, ListsKept, Zenon DEF IInv, vars, coord, waits
  <2>4. QED BY <2>1, <2>2, <2>3, Zenon DEF IInv
<1>4. QED BY <1>1, <1>2, <1>3, RequestExitKeeps, SignalExternalKeeps, Zenon DEF Next

\* The invariant holds throughout.
THEOREM InvariantHolds == Spec => []IInv
BY InitIInv, NextIInv, PTL DEF Spec

-----------------------------------------------------------------------------
(* What follows from the invariant.                                        *)

\* Counting the workers that hold a task which is in one place only.
LEMMA SoleCount ==
    ASSUME NEW t, NEW k \in Kinds, NEW x \in Workers, Sole(t, k, x), NEW j \in Kinds
    PROVE  Cardinality({w \in Workers : In(t, j, w)}) = IF j = k THEN 1 ELSE 0
<1>1. CASE j = k
  <2>1. {w \in Workers : In(t, j, w)} = {x} BY <1>1, Zenon DEF Sole
  <2>2. QED BY <1>1, <2>1, FS_Singleton, Zenon
<1>2. CASE j # k
  <2>1. {w \in Workers : In(t, j, w)} = {} BY <1>2, Zenon DEF Sole
  <2>2. QED BY <1>2, <2>1, FS_EmptySet, Zenon
<1>3. QED BY <1>1, <1>2, Zenon

\* The places of a task, counted by the workers that hold it.
LEMMA PlacesByKind ==
    ASSUME NEW t \in Tasks
    PROVE  LET Count(j) == Cardinality({w \in Workers : In(t, j, w)}) IN
           Places(t) = (IF In(t, "incoming", 0) THEN 1 ELSE 0)
                       + (IF In(t, "ready", 0) THEN 1 ELSE 0)
                       + (IF In(t, "waiting", 0) THEN 1 ELSE 0)
                       + (IF In(t, "waiting_list", 0) THEN 1 ELSE 0)
                       + Count("mailbox") + Count("local") + Count("produced") + Count("batch")
                       + Count("running")
<1>1. /\ {w \in Workers : In(t, "mailbox", w)} = {w \in Workers : t \in mailbox[w]}
      /\ {w \in Workers : In(t, "local", w)} = {w \in Workers : t \in local[w]}
      /\ {w \in Workers : In(t, "produced", w)} = {w \in Workers : t \in produced[w]}
      /\ {w \in Workers : In(t, "batch", w)} = {w \in Workers : t \in batch[w]}
      /\ {w \in Workers : In(t, "running", w)} = {w \in Workers : running[w] = t}
  BY Zenon DEF In
<1>2. /\ In(t, "incoming", 0) <=> t \in incoming
      /\ In(t, "ready", 0) <=> t \in ready
      /\ In(t, "waiting", 0) <=> t \in waiting
      /\ In(t, "waiting_list", 0) <=> t \in waiting_list
  BY Zenon DEF In
<1>3. QED BY <1>1, <1>2, Zenon DEF Places

\* TaskInOnePlace: whatever the interleaving of users, coordinators and workers,
\* a task that has begun is in exactly one list until it retires.
THEOREM TaskInOnePlaceHolds == Spec => []TaskInOnePlace
<1>1. ASSUME IInv PROVE TaskInOnePlace
  <2>1. SUFFICES ASSUME NEW t \in Tasks PROVE Places(t) = IF t \in Begun \ done THEN 1 ELSE 0
    BY Zenon DEF TaskInOnePlace
  <2> DEFINE Count(j) == Cardinality({w \in Workers : In(t, j, w)})
  <2>2. CASE t \in Begun \ done
    <3>1. PICK k \in Kinds, x \in Workers : Sole(t, k, x)
      BY <1>1, <2>2, Zenon DEF IInv, OnePlace, Placed
    <3>2. \A j \in Kinds : Count(j) = IF j = k THEN 1 ELSE 0 BY <3>1, SoleCount, Zenon
    <3>3. \A j \in {"incoming", "ready", "waiting", "waiting_list"} : In(t, j, 0) <=> j = k
      BY <3>1, Basics, Zenon DEF Sole, Kinds, In
    <3>4. Places(t) = (IF In(t, "incoming", 0) THEN 1 ELSE 0) + (IF In(t, "ready", 0) THEN 1 ELSE 0)
                      + (IF In(t, "waiting", 0) THEN 1 ELSE 0)
                      + (IF In(t, "waiting_list", 0) THEN 1 ELSE 0)
                      + Count("mailbox") + Count("local") + Count("produced") + Count("batch")
                      + Count("running")
      BY PlacesByKind, Zenon
    <3> HIDE DEF Count
    <3>5. QED BY <2>2, <3>2, <3>3, <3>4 DEF Kinds
  <2>3. CASE t \notin Begun \ done
    <3>1. Nowhere(t) BY <1>1, <2>3, Zenon DEF IInv, OnePlace, Placed
    <3>2. \A j \in Kinds : Count(j) = 0
      <4>1. \A j \in Kinds : {w \in Workers : In(t, j, w)} = {} BY <3>1, Zenon DEF Nowhere
      <4>2. QED BY <4>1, FS_EmptySet, Zenon
    <3>3. \A j \in {"incoming", "ready", "waiting", "waiting_list"} : ~In(t, j, 0)
      BY <3>1, Basics, Zenon DEF Nowhere, Kinds
    <3>4. QED BY <2>3, <3>2, <3>3, PlacesByKind DEF Kinds
  <2>4. QED BY <2>2, <2>3, Zenon
<1>2. QED BY <1>1, InvariantHolds, PTL

\* WaitSetInSync: the wait set holds the handles of the waiting list.
THEOREM WaitSetInSyncHolds == Spec => []WaitSetInSync
<1>1. IInv => WaitSetInSync BY Zenon DEF IInv, WaitSetExact, WaitsOf, WaitSetInSync
<1>2. QED BY <1>1, InvariantHolds, PTL

\* MailboxSeen: no worker misses a post that came after its last look at the
\* mailbox.
THEOREM MailboxSeenHolds == Spec => []MailboxSeen
<1>1. IInv => MailboxSeen BY Zenon DEF IInv, WorkerLists
<1>2. QED BY <1>1, InvariantHolds, PTL

\* When every worker is parked with nothing posted and no user is flushing, a
\* task that has begun and is not done is in the waiting list.
ParkedLeavesOnlyWaits ==
    (/\ \A w \in Workers : pc[w] = "park" /\ ~notified[w]
     /\ \A u \in Users : pc[u] \in {"submit", "returned"})
    => Begun \ done \subseteq waiting_list

\* No wake-up of a worker is lost: parked workers leave nothing but waits.
THEOREM ParkedLeavesOnlyWaitsHolds == Spec => []ParkedLeavesOnlyWaits
<1>1. ASSUME IInv, \A w \in Workers : pc[w] = "park" /\ ~notified[w],
             \A u \in Users : pc[u] \in {"submit", "returned"}
      PROVE  Begun \ done \subseteq waiting_list
  <2>1. \A p \in Threads : pc[p] \in {"park", "submit", "returned"} BY <1>1, Basics, Zenon
  <2>2. coordinator = NoThread
    BY <1>1, <2>1, Zenon DEF IInv, TypeOK, Coordination, Control, Coordinating
  <2>3. ready = {} /\ waiting = {} /\ NoBatch /\ wake_mask = {}
    BY <1>1, <2>2, Zenon DEF IInv, Coordination, CoordinatorLists, WakesPending
  <2>4. incoming = {} BY <1>1, <2>1, Zenon DEF IInv, Coordination, IncomingSeen
  <2>5. \A w \in Workers : /\ mailbox[w] = {} /\ local[w] = {} /\ produced[w] = {}
                           /\ running[w] = NoTask
    BY <1>1, <2>3, Zenon DEF IInv, WorkerLists, MailboxSeen, StealsWithEmptyQueue, ProducedSeen,
       RunsInExecute
  <2>6. SUFFICES ASSUME NEW t \in Begun \ done PROVE t \in waiting_list OBVIOUS
  <2>7. t \in Tasks BY Zenon DEF Begun
  <2>8. PICK k \in Kinds, w \in Workers : In(t, k, w)
    BY <1>1, <2>6, <2>7, Zenon DEF IInv, OnePlace, Placed, Sole
  <2>9. QED BY <2>3, <2>4, <2>5, <2>7, <2>8, Basics, Zenon DEF In, NoBatch
<1>2. IInv => ParkedLeavesOnlyWaits BY <1>1, Zenon DEF ParkedLeavesOnlyWaits
<1>3. QED BY <1>2, InvariantHolds, PTL

\* ParkedMeansNoWork, for an executor that is given no wait tasks: parked workers
\* leave nothing at all.
THEOREM ParkedMeansNoWorkHolds ==
    ASSUME Waits = {}
    PROVE  Spec => []ParkedMeansNoWork
<1>1. ASSUME IInv, TaskInOnePlace, ParkedLeavesOnlyWaits PROVE ParkedMeansNoWork
  <2>1. waiting_list = {} BY <1>1, Zenon DEF IInv, TypeOK
  <2>2. QED BY <1>1, <2>1, Zenon DEF ParkedLeavesOnlyWaits, ParkedMeansNoWork, TaskInOnePlace
<1>2. QED BY <1>1, InvariantHolds, TaskInOnePlaceHolds, ParkedLeavesOnlyWaitsHolds, PTL
=============================================================================
