-------------------------- MODULE VulkanTimeline --------------------------
(***************************************************************************)
(* The emulation of timeline semaphores on Vulkan devices without them     *)
(* (hal/vulkan): EmulatedTimelineSemaphore (emulated_semaphore.cc), the    *)
(* SerializingCommandQueue that holds a submission back until its waits    *)
(* are known to be satisfied (serializing_command_queue.cc) and the pools  *)
(* of fences and binary semaphores behind them (timepoint_util.cc).        *)
(*                                                                         *)
(* Every value a submission signals becomes a time point, a binary         *)
(* semaphore with the fence of the submission; the list `outstanding' of a *)
(* timeline holds the points not yet seen to be signaled.  The host learns *)
(* of progress only by polling those fences, in TryToAdvanceTimeline.      *)
(*                                                                         *)
(* Host threads call Submit, Signal, Wait, Query, Fail and WaitIdle.  Each *)
(* call is a sequence of steps, one for every mutex acquired and for every *)
(* read or write of signaled_value_, which no mutex protects; what a       *)
(* thread does while it holds a mutex of a timeline is one step.           *)
(***************************************************************************)
EXTENDS Integers, Sequences, FiniteSets, SequencesExt

CONSTANTS
  Threads,        \* host threads
  Sems,           \* timelines
  Batches,        \* submission batches, each submitted at most once
  Fences,         \* the fences of TimePointFencePool
  Points,         \* the binary semaphores of TimePointSemaphorePool
  NumQueues,      \* queues of the device
  BatchQueue,     \* the queue a batch is submitted to
  BatchWaits,     \* the sequence of <<timeline, value>> a batch waits for
  BatchSignals,   \* the sequence of <<timeline, value>> a batch signals
  HostSignals,    \* the <<timeline, value>> host threads may signal
  HostWaits,      \* the <<timeline, value, timed>> host threads may wait for
  IdleModes,      \* subset of {"infinite", "deadline"}: how WaitIdle is called
  HostFails,      \* timelines host threads may fail
  DeviceFails,    \* may a submission end in a device error
  MaxCalls,       \* bound on the calls of all threads
  Inf,            \* UINT64_MAX, the value of a failed timeline
  NoFence, NoThread, NoCall

ASSUME VulkanAssumption ==
  /\ NumQueues \in Nat \ {0}
  /\ Inf \in Nat
  /\ \A b \in Batches : \A w \in Range(BatchWaits[b]) \cup Range(BatchSignals[b]) :
       w[1] \in Sems /\ w[2] \in 1..(Inf - 1)
  /\ NoFence \notin Fences /\ NoThread \notin Threads

VARIABLES
  signaled,       \* signaled_value_ of each timeline
  failed,         \* status_ of each timeline is not ok
  outstanding,    \* outstanding_semaphores_, in list order
  mutex,          \* the owner of mutex_ of each timeline
  free,           \* free_semaphores_: [items, linked], see MergeFrom
  deferred,       \* deferred_submissions_ of each queue
  pending,        \* pending_fences_ of each queue
  queueMutex,     \* the owner of queue_mutex_ of each queue
  fence,          \* what vkGetFenceStatus says of each fence
  gpu,            \* submissions each VkQueue has not completed, oldest first
  th,             \* the state of each host thread
  done,           \* batches the device completed
  issued,         \* batches handed to Submit
  hosted,         \* the <<timeline, value>> signaled by the host
  aborted,        \* has a failed timeline aborted a queue
  errored,        \* batches that ended in an error: refused, dropped or failed
  calls           \* how many calls were made

timelines == <<signaled, failed, outstanding, mutex, free>>
queues == <<deferred, pending, queueMutex>>
device == <<fence, gpu, done>>
history == <<issued, hosted, aborted, errored, calls>>
vars == <<timelines, queues, device, history, th>>

Queues == 1..NumQueues

IdleThread ==
  [pc |-> "idle", call |-> NoCall, result |-> "none", ret |-> "none",
   s |-> NoThread, upper |-> 0, past |-> 0, reached |-> FALSE, ok |-> TRUE,
   sig |-> {}, fence |-> NoFence, q |-> 1, k |-> 1, i |-> 1,
   remaining |-> <<>>, infos |-> <<>>]

Init ==
  /\ signaled = [s \in Sems |-> 0]
  /\ failed = [s \in Sems |-> FALSE]
  /\ outstanding = [s \in Sems |-> <<>>]
  /\ mutex = [s \in Sems |-> NoThread]
  /\ free = [items |-> SetToSeq(Points), linked |-> TRUE]
  /\ deferred = [q \in Queues |-> <<>>]
  /\ pending = [q \in Queues |-> {}]
  /\ queueMutex = [q \in Queues |-> NoThread]
  /\ fence = [f \in Fences |-> "unsignaled"]
  /\ gpu = [q \in Queues |-> <<>>]
  /\ th = [t \in Threads |-> IdleThread]
  /\ issued = {} /\ done = {} /\ hosted = {} /\ aborted = FALSE /\ errored = {}
  /\ calls = 0

---------------------------------------------------------------------------
(* Fences are reference counted.  The references are those of submissions  *)
(* being built, deferred or put aside, of pending_fences_ and of time      *)
(* points; a fence none of them holds is in the pool.                      *)
\* Mutant: time points keep the handle of their fence without a reference.
PointsHoldNothing(f) == {}

PointHolders(f) ==
  {s \in Sems : \E p \in Range(outstanding[s]) : f \in {p.signal, p.wait}}

HoldersOf(f) ==
  {t \in Threads : th[t].pc = "lock" /\ th[t].fence = f}
    \cup {t \in Threads : \E r \in Range(th[t].remaining) : r.fence = f}
    \cup {q \in Queues : f \in pending[q]}
    \cup {q \in Queues : \E d \in Range(deferred[q]) : d.fence = f}
    \cup PointHolders(f)

FreeFences == {f \in Fences : HoldersOf(f) = {}}

\* Mutant: the fence is not reset.
NotReset == UNCHANGED fence

(* TimePointFence::Delete and TimePointFencePool::ReleaseResolved: the     *)
(* fence that lost its last reference is reset on its way to the pool.     *)
ResetReleased ==
  fence' = [f \in Fences |-> IF HoldersOf(f) # {} /\ HoldersOf(f)' = {}
                             THEN "unsignaled" ELSE fence[f]]

(* IntrusiveList::merge_from: an empty list appended to this one leaves    *)
(* tail_ null.  What is merged then is not linked behind the items that    *)
(* can be reached from head_, until those are used up.                     *)
MergeFrom(list, items) ==
  IF items = <<>> THEN [list EXCEPT !.linked = (list.items = <<>>)]
  ELSE IF list.items = <<>> THEN [items |-> items, linked |-> TRUE]
  ELSE IF list.linked THEN [list EXCEPT !.items = @ \o items]
  ELSE list

Ids(points) == [k \in DOMAIN points |-> points[k].id]

BatchesOf(submissions) == {r.batch : r \in Range(submissions)}

Goto(t, r) == th' = [th EXCEPT ![t] = r]

(* The call ends.  The success of a Wait or a WaitIdle stays visible until *)
(* the next call.                                                          *)
Return(t, result) ==
  Goto(t, IF th[t].call.op \in {"wait", "idle"} /\ result = "ok"
          THEN [IdleThread EXCEPT !.call = th[t].call, !.result = result]
          ELSE IdleThread)

---------------------------------------------------------------------------
(* TryToAdvanceTimeline.  First the value is read without the mutex.       *)
AdvanceLoad(t) ==
  LET me == th[t] IN
  /\ me.pc = "advance"
  /\ IF signaled[me.s] >= me.upper
     THEN Goto(t, [me EXCEPT !.pc = me.ret, !.reached = TRUE])
     ELSE Goto(t, [me EXCEPT !.pc = "resolve", !.past = signaled[me.s], !.reached = FALSE])
  /\ UNCHANGED <<timelines, queues, device, history>>

(* The loop removes a point from the front of the list if it is one seen   *)
(* signaled before that nobody waits for any more, or if its signal fence  *)
(* says so now.                                                            *)
Recyclable(p, past, upper) ==
  /\ p.value <= upper
  /\ IF p.value <= past
     THEN p.signal = NoFence /\ (p.wait = NoFence \/ fence[p.wait] = "signaled")
     ELSE p.signal # NoFence /\ fence[p.signal] = "signaled" /\ p.wait = NoFence

RecycledCount(points, past, upper) ==
  CHOOSE n \in 0..Len(points) :
    /\ \A k \in 1..n : Recyclable(points[k], past, upper)
    /\ n = Len(points) \/ ~Recyclable(points[n + 1], past, upper)

(* Why the loop stops at a point it does not remove: it is beyond the      *)
(* requested value ("beyond"); its fence is not signaled ("pending") or    *)
(* reports an error ("lost"); the list contradicts the value read above    *)
(* ("internal"); a submission still waits for it ("waiting": the loop      *)
(* spins, or finds the signal fence gone the second time around).          *)
StopReason(p, past, upper) ==
  IF p.value > upper THEN "beyond"
  ELSE IF p.value <= past THEN IF p.signal # NoFence THEN "internal" ELSE "waiting"
  ELSE IF p.signal = NoFence THEN "internal"
  ELSE CASE fence[p.signal] = "unsignaled" -> "pending"
         [] fence[p.signal] = "error" -> "lost"
         [] OTHER -> "waiting"

(* The part of TryToAdvanceTimeline under mutex_.  past_value is not read  *)
(* again.  A failed timeline keeps the mutex and aborts every queue; an    *)
(* inconsistent one returns without ReleaseResolved.                       *)
Resolve(t) ==
  LET me == th[t]
      points == outstanding[me.s]
      n == RecycledCount(points, me.past, me.upper)
      new == {k \in 1..n : points[k].value > me.past}
      stop == IF n = Len(points) THEN "end" ELSE StopReason(points[n + 1], me.past, me.upper)
      lost == stop = "lost"
      sig == {points[k].signal : k \in new} \cup (IF lost THEN {points[n + 1].signal} ELSE {})
      rest == SubSeq(points, n + 1, Len(points))
      after == [me EXCEPT !.pc = IF sig = {} THEN me.ret ELSE "notify", !.k = 1,
                          !.sig = sig, !.past = 0, !.reached = (stop = "beyond"),
                          !.ok = (stop # "internal")]
  IN
  /\ me.pc = "resolve"
  /\ mutex[me.s] = NoThread
  /\ IF points = <<>>
     THEN /\ Goto(t, [me EXCEPT !.pc = me.ret, !.past = 0])
          /\ UNCHANGED <<signaled, failed, outstanding, mutex, free>>
     ELSE /\ stop # "waiting"
          /\ signaled' = [signaled EXCEPT ![me.s] =
               IF lost THEN Inf ELSE IF new = {} THEN @ ELSE points[Max(new)].value]
          /\ failed' = [failed EXCEPT ![me.s] = @ \/ lost]
          /\ outstanding' = [outstanding EXCEPT ![me.s] =
               IF lost THEN <<[rest[1] EXCEPT !.signal = NoFence]>> \o Tail(rest) ELSE rest]
          /\ free' = IF stop = "internal" THEN free
                     ELSE MergeFrom(free, Ids(SubSeq(points, 1, n)))
          /\ IF failed'[me.s] /\ stop # "internal"
             THEN /\ mutex' = [mutex EXCEPT ![me.s] = t]
                  /\ Goto(t, [after EXCEPT !.pc = "abort"])
             ELSE UNCHANGED mutex /\ Goto(t, after)
  /\ UNCHANGED <<queues, gpu, done, history>>
  /\ ResetReleased

(* AbortQueueSubmission: the deferred submissions of the queue are         *)
(* dropped and the submitted ones waited for, under queue_mutex_.          *)
Abort(t) ==
  LET me == th[t] IN
  /\ me.pc = "abort"
  /\ queueMutex[me.k] = NoThread
  /\ queueMutex' = [queueMutex EXCEPT ![me.k] = t]
  /\ deferred' = [deferred EXCEPT ![me.k] = <<>>]
  /\ aborted' = TRUE
  /\ errored' = errored \cup BatchesOf(deferred[me.k])
  /\ Goto(t, [me EXCEPT !.pc = "abort_wait"])
  /\ UNCHANGED <<timelines, pending, gpu, done, issued, hosted, calls>>
  /\ ResetReleased

AbortWait(t) ==
  LET me == th[t]
      last == me.k = NumQueues
  IN
  /\ me.pc = "abort_wait"
  /\ \A f \in pending[me.k] : fence[f] # "unsignaled"
  /\ queueMutex' = [queueMutex EXCEPT ![me.k] = NoThread]
  /\ pending' = [pending EXCEPT ![me.k] = {}]
  /\ IF last
     THEN /\ free' = MergeFrom(free, Ids(outstanding[me.s]))
          /\ outstanding' = [outstanding EXCEPT ![me.s] = <<>>]
          /\ mutex' = [mutex EXCEPT ![me.s] = NoThread]
          /\ Goto(t, [me EXCEPT !.pc = IF me.sig = {} THEN me.ret ELSE "notify",
                                !.k = 1, !.ok = FALSE])
     ELSE /\ Goto(t, [me EXCEPT !.pc = "abort", !.k = @ + 1])
          /\ UNCHANGED <<free, outstanding, mutex>>
  /\ UNCHANGED <<signaled, failed, deferred, gpu, done, history>>
  /\ ResetReleased

(* SignalFences, called by TryToAdvanceTimeline for every queue with the   *)
(* raw handles of the fences seen signaled.                                *)
Notify(t) ==
  LET me == th[t] IN
  /\ me.pc = "notify"
  /\ queueMutex[me.k] = NoThread
  /\ pending' = [pending EXCEPT ![me.k] = @ \ me.sig]
  /\ IF me.k = NumQueues
     THEN Goto(t, [me EXCEPT !.pc = me.ret, !.sig = {}, !.k = 1])
     ELSE Goto(t, [me EXCEPT !.k = @ + 1])
  /\ UNCHANGED <<timelines, deferred, queueMutex, gpu, done, history>>
  /\ ResetReleased

---------------------------------------------------------------------------
(* ProcessDeferredSubmissions, under queue_mutex_.  The submission at the  *)
(* front is prepared: its waits are looked at one after the other, then a  *)
(* point is put on the list of every timeline it signals.                  *)
Current(t) == Head(deferred[th[t].q])

(* TryToPrepareSemaphores queries the timeline of the next wait. *)
PrepareWait(t) ==
  LET me == th[t] IN
  /\ me.pc = "process"
  /\ deferred[me.q] # <<>>
  /\ me.i <= Len(BatchWaits[Current(t).batch])
  /\ Goto(t, [me EXCEPT !.pc = "advance", !.ret = "prepared",
                        !.s = BatchWaits[Current(t).batch][me.i][1], !.upper = Inf])
  /\ UNCHANGED <<timelines, queues, device, history>>

\* Mutant: the wait is off by one.
AlmostSatisfied(w) == signaled[w[1]] + 1 >= w[2]

Satisfied(w) == signaled[w[1]] >= w[2]

(* The end of Query: the value is read again; a failed timeline hands out  *)
(* its status, under its mutex.  A wait already satisfied is passed over.  *)
Prepared(t) ==
  LET me == th[t]
      broken == ~me.ok \/ signaled[me.s] = Inf
      passed == ~broken /\ Satisfied(BatchWaits[Current(t).batch][me.i])
  IN
  /\ me.pc = "prepared"
  /\ me.ok /\ broken => mutex[me.s] = NoThread
  /\ Goto(t, [me EXCEPT !.s = NoThread, !.upper = 0, !.reached = FALSE, !.ok = TRUE,
       !.pc = IF broken THEN "process_error" ELSE IF passed THEN "process" ELSE "get_wait",
       !.i = IF passed THEN @ + 1 ELSE @])
  /\ UNCHANGED <<timelines, queues, device, history>>

(* GetWaitSemaphore: the first point beyond the value that already has a   *)
(* waiter is waited for by this submission.  Without one the submission is *)
(* put aside, and the waits it took on before are given up                 *)
(* (CancelWaitSemaphore).                                                  *)
GetWait(t) ==
  LET me == th[t]
      w == BatchWaits[Current(t).batch][me.i]
      points == outstanding[w[1]]
      able == {k \in DOMAIN points : points[k].value > w[2] /\ points[k].wait # NoFence}
  IN
  /\ me.pc = "get_wait"
  /\ mutex[w[1]] = NoThread
  /\ IF able # {}
     THEN /\ outstanding' = [outstanding EXCEPT ![w[1]][Min(able)].wait = Current(t).fence]
          /\ Goto(t, [me EXCEPT !.pc = "process", !.i = @ + 1])
          /\ UNCHANGED deferred
     ELSE /\ outstanding' = [s \in Sems |-> [k \in DOMAIN outstanding[s] |->
               IF outstanding[s][k].wait = Current(t).fence
               THEN [outstanding[s][k] EXCEPT !.wait = NoFence] ELSE outstanding[s][k]]]
          /\ deferred' = [deferred EXCEPT ![me.q] = Tail(@)]
          /\ Goto(t, [me EXCEPT !.pc = "process", !.i = 1,
                                !.remaining = Append(@, Current(t))])
  /\ UNCHANGED <<signaled, failed, mutex, free, pending, queueMutex, gpu, done, history>>
  /\ ResetReleased

(* GetSignalSemaphore checks the value before it takes the mutex. *)
PrepareSignal(t) ==
  LET me == th[t]
      k == me.i - Len(BatchWaits[Current(t).batch])
      w == BatchSignals[Current(t).batch][k]
  IN
  /\ me.pc = "process"
  /\ deferred[me.q] # <<>>
  /\ k \in DOMAIN BatchSignals[Current(t).batch]
  /\ Goto(t, [me EXCEPT !.pc = IF signaled[w[1]] >= w[2] THEN "process_error" ELSE "insert",
                        !.s = w[1], !.upper = w[2]])
  /\ UNCHANGED <<timelines, queues, device, history>>

Stuck(points, value) == points # <<>> /\ points[1].value <= value

(* The search for the insertion point never moves on from the first point: *)
(* if that one does not belong behind the new one the thread stays in the  *)
(* loop, with the mutexes of the timeline and of the queue.                *)
Insert(t) ==
  LET me == th[t]
      points == outstanding[me.s]
      point == [id |-> Head(free.items), value |-> me.upper,
                signal |-> Current(t).fence, wait |-> NoFence]
      next == [me EXCEPT !.s = NoThread, !.upper = 0]
  IN
  /\ me.pc = "insert"
  /\ mutex[me.s] = NoThread
  /\ IF Stuck(points, me.upper)
     THEN /\ mutex' = [mutex EXCEPT ![me.s] = t]
          /\ Goto(t, [me EXCEPT !.pc = "spin"])
          /\ UNCHANGED <<free, outstanding>>
     ELSE IF free.items = <<>>
     THEN Goto(t, [next EXCEPT !.pc = "process_error"]) /\ UNCHANGED <<mutex, free, outstanding>>
     ELSE /\ outstanding' = [outstanding EXCEPT ![me.s] = <<point>> \o @]
          /\ free' = [items |-> Tail(free.items),
                      linked |-> free.linked \/ Len(free.items) = 1]
          /\ Goto(t, [next EXCEPT !.pc = "process", !.i = @ + 1])
          /\ UNCHANGED mutex
  /\ UNCHANGED <<signaled, failed, queues, device, history>>

(* All semaphores are prepared: the submission will be handed to Vulkan    *)
(* when the list has been gone through, its fence is pending from now on.  *)
Ready(t) ==
  LET me == th[t] IN
  /\ me.pc = "process"
  /\ deferred[me.q] # <<>>
  /\ me.i > Len(BatchWaits[Current(t).batch]) + Len(BatchSignals[Current(t).batch])
  /\ pending' = [pending EXCEPT ![me.q] = @ \cup {Current(t).fence}]
  /\ deferred' = [deferred EXCEPT ![me.q] = Tail(@)]
  /\ Goto(t, [me EXCEPT !.i = 1, !.infos = Append(@, Current(t))])
  /\ UNCHANGED <<timelines, queueMutex, gpu, done, history>>
  /\ ResetReleased

(* queue_mutex_ is given back; Signal and WaitIdle go on to the next queue *)
(* if all went well.                                                       *)
Unlock(t, me, result) ==
  /\ queueMutex' = [queueMutex EXCEPT ![me.q] = NoThread]
  /\ IF result = "ok" /\ me.call.op # "submit" /\ me.q < NumQueues
     THEN Goto(t, [me EXCEPT !.pc = "lock", !.q = @ + 1])
     ELSE Return(t, result)

(* An error leaves TryProcessDeferredSubmissions at once: what was         *)
(* prepared before is never handed to Vulkan.  What was put aside goes     *)
(* behind what was not looked at.                                          *)
ProcessError(t) ==
  LET me == th[t] IN
  /\ me.pc = "process_error"
  /\ deferred' = [deferred EXCEPT ![me.q] = @ \o me.remaining]
  /\ errored' = errored \cup BatchesOf(me.infos)
  /\ Unlock(t, me, "error")
  /\ UNCHANGED <<timelines, pending, device, issued, hosted, aborted, calls>>

(* vkQueueSubmit for everything that was prepared; a device that fails may *)
(* refuse any of them, and what follows it is dropped.                     *)
Flush(t) ==
  LET me == th[t]
      clean == [me EXCEPT !.remaining = <<>>, !.infos = <<>>]
  IN
  /\ me.pc = "process"
  /\ deferred[me.q] = <<>>
  /\ deferred' = [deferred EXCEPT ![me.q] = me.remaining]
  /\ \E n \in 0..Len(me.infos) :
       /\ DeviceFails \/ n = Len(me.infos)
       /\ gpu' = [gpu EXCEPT ![me.q] = @ \o SubSeq(me.infos, 1, n)]
       /\ errored' = errored \cup BatchesOf(SubSeq(me.infos, n + 1, Len(me.infos)))
       /\ IF n < Len(me.infos) THEN Unlock(t, clean, "error")
          ELSE IF me.call.op # "idle" THEN Unlock(t, clean, "ok")
          ELSE /\ UNCHANGED queueMutex
               /\ Goto(t, [clean EXCEPT !.pc =
                    IF me.call.mode = "deadline" THEN "idle_fences"
                    ELSE IF me.infos # <<>> THEN "idle_wait" ELSE "process"])
  /\ UNCHANGED <<timelines, pending, fence, done, issued, hosted, aborted, calls>>

---------------------------------------------------------------------------
(* The calls of host threads. *)
StartCall(call) == [IdleThread EXCEPT !.call = call]

CanCall(t) ==
  /\ th[t].pc = "idle"
  /\ calls < MaxCalls
  /\ calls' = calls + 1

(* Submit takes a fence from the pool, or fails if it is used up; *)
(* deferred_submissions_ gets the submission once the queue is locked. *)
Submit(t, b) ==
  /\ CanCall(t)
  /\ b \notin issued
  /\ issued' = issued \cup {b}
  /\ IF FreeFences = {}
     THEN errored' = errored \cup {b} /\ Goto(t, IdleThread)
     ELSE /\ UNCHANGED errored
          /\ \E f \in FreeFences :
               Goto(t, [StartCall([op |-> "submit", batch |-> b])
                          EXCEPT !.pc = "lock", !.fence = f, !.q = BatchQueue[b]])
  /\ UNCHANGED <<timelines, queues, device, hosted, aborted>>

(* Signal: a value that does not exceed the current one aborts the program *)
(* (IREE_CHECK), so threads only signal larger ones.                       *)
Signal(t, s, v) ==
  /\ CanCall(t)
  /\ signaled[s] < v
  /\ signaled' = [signaled EXCEPT ![s] = v]
  /\ hosted' = hosted \cup {<<s, v>>}
  /\ Goto(t, [StartCall([op |-> "signal", s |-> s, v |-> v]) EXCEPT !.pc = "lock"])
  /\ UNCHANGED <<failed, outstanding, mutex, free, queues, device, issued, aborted, errored>>

(* Submit, AdvanceQueueSubmission and WaitIdle take the mutex of a queue. *)
Lock(t) ==
  LET me == th[t]
      locked == [me EXCEPT !.fence = NoFence,
        !.pc = IF me.call.op = "idle" /\ me.call.mode = "infinite" THEN "idle_wait" ELSE "process"]
  IN
  /\ me.pc = "lock"
  /\ queueMutex[me.q] = NoThread
  /\ queueMutex' = [queueMutex EXCEPT ![me.q] = t]
  /\ deferred' = IF me.call.op # "submit" THEN deferred
                 ELSE [deferred EXCEPT ![me.q] =
                        Append(@, [batch |-> me.call.batch, fence |-> me.fence])]
  /\ Goto(t, locked)
  /\ UNCHANGED <<timelines, pending, device, history>>

Query(t, s) ==
  /\ CanCall(t)
  /\ Goto(t, [StartCall([op |-> "query", s |-> s])
                EXCEPT !.pc = "advance", !.ret = "queried", !.s = s, !.upper = Inf])
  /\ UNCHANGED <<timelines, queues, device, issued, hosted, aborted, errored>>

Queried(t) ==
  LET me == th[t] IN
  /\ me.pc = "queried"
  /\ me.ok /\ signaled[me.s] = Inf => mutex[me.s] = NoThread
  /\ Return(t, IF me.ok /\ signaled[me.s] # Inf THEN "ok" ELSE "error")
  /\ UNCHANGED <<timelines, queues, device, history>>

Wait(t, s, v, timed) ==
  /\ CanCall(t)
  /\ Goto(t, [StartCall([op |-> "wait", s |-> s, v |-> v, timed |-> timed])
                EXCEPT !.pc = "advance", !.ret = "waited", !.s = s, !.upper = v])
  /\ UNCHANGED <<timelines, queues, device, issued, hosted, aborted, errored>>

(* In the loop of Wait, after TryToAdvanceTimeline. *)
Waited(t) ==
  LET me == th[t] IN
  /\ me.pc = "waited"
  /\ IF me.ok /\ ~me.reached THEN Goto(t, [me EXCEPT !.pc = "find"])
     ELSE Return(t, IF me.ok THEN "ok" ELSE "error")
  /\ UNCHANGED <<timelines, queues, device, history>>

(* Wait takes the handle of the fence of the first point that reaches the  *)
(* value, but no reference to the fence.  Without such a point it polls    *)
(* until the deadline.                                                     *)
Find(t) ==
  LET me == th[t]
      points == outstanding[me.s]
      able == {k \in DOMAIN points : points[k].value >= me.upper}
  IN
  /\ me.pc = "find"
  /\ mutex[me.s] = NoThread
  /\ IF able = {}
     THEN \/ Goto(t, [me EXCEPT !.pc = "advance"])
          \/ me.call.timed /\ Return(t, "deadline")
     ELSE LET f == points[Min(able)].signal IN
          IF f = NoFence THEN Return(t, "error")
          ELSE Goto(t, [me EXCEPT !.pc = "block", !.fence = f])
  /\ UNCHANGED <<timelines, queues, device, history>>

(* vkWaitForFences.  A wait that times out is not an error to              *)
(* VK_RETURN_IF_ERROR, and whether the last TryToAdvanceTimeline reached   *)
(* the value is not asked.                                                 *)
Block(t) ==
  LET me == th[t] IN
  /\ me.pc = "block"
  /\ fence[me.fence] # "unsignaled" \/ me.call.timed
  /\ IF fence[me.fence] = "error" THEN Return(t, "error")
     ELSE Goto(t, [me EXCEPT !.pc = "advance", !.ret = "wait_done", !.fence = NoFence])
  /\ UNCHANGED <<timelines, queues, device, history>>

WaitDone(t) ==
  /\ th[t].pc = "wait_done"
  /\ Return(t, IF th[t].ok THEN "ok" ELSE "error")
  /\ UNCHANGED <<timelines, queues, device, history>>

(* Fail: the first failure is kept. *)
Fail(t, s) ==
  /\ CanCall(t)
  /\ mutex[s] = NoThread
  /\ failed' = [failed EXCEPT ![s] = TRUE]
  /\ signaled' = IF failed[s] THEN signaled ELSE [signaled EXCEPT ![s] = Inf]
  /\ Goto(t, IdleThread)
  /\ UNCHANGED <<outstanding, mutex, free, queues, device, issued, hosted, aborted, errored>>

(* The batches whose Submit has returned. *)
Submitted ==
  issued \ {th[u].call.batch : u \in {v \in Threads :
                                    th[v].pc # "idle" /\ th[v].call.op = "submit"}}

WaitIdle(t, mode) ==
  /\ CanCall(t)
  /\ Goto(t, [StartCall([op |-> "idle", mode |-> mode, owed |-> Submitted])
                EXCEPT !.pc = "lock"])
  /\ UNCHANGED <<timelines, queues, device, issued, hosted, aborted, errored>>

\* Mutant: submissions still deferred do not keep WaitIdle from returning.
NothingDeferred(q) == TRUE

(* WaitIdle goes on while the queue has deferred submissions. *)
AllSubmitted(q) == deferred[q] = <<>>

(* vkQueueWaitIdle in the infinite WaitIdle, under queue_mutex_; then what *)
(* is deferred is processed, over and over, until nothing is.              *)
IdleWait(t) ==
  LET me == th[t] IN
  /\ me.pc = "idle_wait"
  /\ \/ /\ gpu[me.q] = <<>>
        /\ pending' = [pending EXCEPT ![me.q] = {}]
        /\ IF AllSubmitted(me.q) THEN Unlock(t, me, "ok")
           ELSE Goto(t, [me EXCEPT !.pc = "process"]) /\ UNCHANGED queueMutex
     \/ /\ DeviceFails
        /\ Unlock(t, me, "error")
        /\ UNCHANGED pending
  /\ UNCHANGED <<timelines, deferred, gpu, done, history>>
  /\ ResetReleased

(* The other WaitIdle waits for the pending fences, under queue_mutex_     *)
(* too.  A deadline that passes before the wait returns without unlocking. *)
IdleFences(t) ==
  LET me == th[t]
      more == ~AllSubmitted(me.q) \/ pending[me.q] # {}
  IN
  /\ me.pc = "idle_fences"
  /\ \/ /\ ~more
        /\ Unlock(t, me, "ok")
        /\ UNCHANGED pending
     \/ /\ more
        /\ Return(t, "deadline")
        /\ UNCHANGED <<queueMutex, pending>>
     \/ /\ more
        /\ \A f \in pending[me.q] : fence[f] = "signaled"
        /\ pending' = [pending EXCEPT ![me.q] = {}]
        /\ Goto(t, [me EXCEPT !.pc = "process"])
        /\ UNCHANGED queueMutex
     \/ /\ \E f \in pending[me.q] : fence[f] # "signaled"
        /\ Unlock(t, me, IF \E f \in pending[me.q] : fence[f] = "error"
                        THEN "error" ELSE "deadline")
        /\ UNCHANGED pending
  /\ UNCHANGED <<timelines, deferred, gpu, done, history>>
  /\ ResetReleased

(* The device completes the submissions of a queue in order and signals    *)
(* their fences, or reports an error through the fence.                    *)
Complete(q) ==
  /\ gpu[q] # <<>>
  /\ gpu' = [gpu EXCEPT ![q] = Tail(@)]
  /\ \/ /\ fence' = [fence EXCEPT ![Head(gpu[q]).fence] = "signaled"]
        /\ done' = done \cup {Head(gpu[q]).batch}
        /\ UNCHANGED errored
     \/ /\ DeviceFails
        /\ fence' = [fence EXCEPT ![Head(gpu[q]).fence] = "error"]
        /\ errored' = errored \cup {Head(gpu[q]).batch}
        /\ UNCHANGED done
  /\ UNCHANGED <<timelines, queues, issued, hosted, aborted, calls, th>>

Advance(t) == AdvanceLoad(t) \/ Resolve(t) \/ Abort(t) \/ AbortWait(t) \/ Notify(t)

Process(t) ==
  \/ PrepareWait(t) \/ Prepared(t) \/ GetWait(t) \/ PrepareSignal(t) \/ Insert(t)
  \/ Ready(t) \/ ProcessError(t) \/ Flush(t)

Call(t) ==
  \/ \E b \in Batches : Submit(t, b)
  \/ \E w \in HostSignals : Signal(t, w[1], w[2])
  \/ \E w \in HostWaits : Wait(t, w[1], w[2], w[3])
  \/ \E s \in Sems : Query(t, s)
  \/ \E s \in HostFails : Fail(t, s)
  \/ \E mode \in IdleModes : WaitIdle(t, mode)

(* What a thread does by itself once it is in a call. *)
Step(t) ==
  \/ Advance(t) \/ Process(t) \/ Lock(t) \/ Queried(t) \/ Waited(t) \/ Find(t) \/ Block(t)
  \/ WaitDone(t) \/ IdleWait(t) \/ IdleFences(t)

Next ==
  \/ \E t \in Threads : Call(t) \/ Step(t)
  \/ \E q \in Queues : Complete(q)

Spec == Init /\ [][Next]_vars

---------------------------------------------------------------------------
(* What the program has done so far, whatever the emulation believes: the  *)
(* timeline was signaled to the value by the host, or by a batch the       *)
(* device completed.                                                       *)
Reached(s, v) ==
  \/ \E w \in hosted : w[1] = s /\ w[2] >= v
  \/ \E b \in done : \E w \in Range(BatchSignals[b]) : w[1] = s /\ w[2] >= v

(* The shapes of the state; every mutex is owned by a thread or by nobody  *)
(* and lists hold only what the pools made.                                *)
TypeOK ==
  /\ signaled \in [Sems -> 0..Inf] /\ failed \in [Sems -> BOOLEAN]
  /\ \A s \in Sems : \A p \in Range(outstanding[s]) :
       /\ p.id \in Points /\ p.value \in 1..Inf
       /\ {p.signal, p.wait} \subseteq Fences \cup {NoFence}
  /\ mutex \in [Sems -> Threads \cup {NoThread}]
  /\ queueMutex \in [Queues -> Threads \cup {NoThread}]
  /\ Range(free.items) \subseteq Points /\ free.linked \in BOOLEAN
  /\ \A q \in Queues : {d.batch : d \in Range(deferred[q]) \cup Range(gpu[q])} \subseteq issued
  /\ pending \in [Queues -> SUBSET Fences]
  /\ DOMAIN fence = Fences /\ DOMAIN th = Threads
  /\ done \subseteq issued /\ issued \subseteq Batches
  /\ errored \subseteq issued /\ aborted \in BOOLEAN /\ calls \in 0..MaxCalls

OnDevice == {r.batch : r \in UNION {Range(gpu[q]) : q \in Queues}}

(* The three properties that follow need every batch to signal something,  *)
(* so that a time point keeps its fence out of the pool, and no timeline   *)
(* to have failed so far that its outstanding points were given up.  Where *)
(* one of the two is missing a fence can be reset while the device still   *)
(* has it (README.md, section 8).                                          *)
FencesKept == ~aborted /\ \A b \in Batches : BatchSignals[b] # <<>>

(* A batch is handed to the device only once all it waits for has happened *)
(* (TryToPrepareSemaphores), however polling, host signals and the other   *)
(* queues interleave.                                                      *)
StartsAfterWaits ==
  FencesKept =>
    \A b \in OnDevice \cup done : \A w \in Range(BatchWaits[b]) : Reached(w[1], w[2])

(* signaled_value_ is never ahead of the timeline: a value read from it,   *)
(* which no mutex protects, was really signaled (TryToAdvanceTimeline).    *)
ValueWasReached ==
  FencesKept =>
    \A s \in Sems : signaled[s] \notin {0, Inf} => Reached(s, signaled[s])

(* timepoint_util.h: a fence acquired from the pool "is guaranteed to be   *)
(* in unsignaled state and not in-flight on GPU".                          *)
FreeFencesAtRest ==
  \A f \in FreeFences :
    /\ fence[f] = "unsignaled"
    /\ \A q \in Queues : \A r \in Range(gpu[q]) : r.fence # f

(* A fence goes back to the pool only when the device is done with it, and *)
(* is reset there (TimePointFence::Delete), although SignalFences and      *)
(* WaitIdle drop references to it without asking the other holders.        *)
PooledFencesAtRest == FencesKept => FreeFencesAtRest

(* The batches submitted before a WaitIdle of thread t that succeeded were *)
(* completed, or ended in an error somebody was told of.                   *)
NoneLeft(t) ==
  th[t].pc = "idle" /\ th[t].call # NoCall /\ th[t].call.op = "idle" /\ th[t].result = "ok"
    => th[t].call.owed \subseteq done \cup errored

(* A WaitIdle without a deadline that succeeds leaves no batch submitted   *)
(* before it behind, on the device or deferred, although it goes from      *)
(* queue to queue and gives the mutex of each back while other threads     *)
(* submit, poll, signal and fail (SerializingCommandQueue::WaitIdle).      *)
InfiniteWaitIdleMeansDone ==
  \A t \in Threads : th[t].call # NoCall /\ th[t].call.op = "idle"
                       /\ th[t].call.mode = "infinite" => NoneLeft(t)

---------------------------------------------------------------------------
(* hal/semaphore.h: iree_hal_semaphore_wait "Returns success if the wait   *)
(* is successful and the semaphore has met or exceeded the required        *)
(* payload value".                                                         *)
WaitOkMeansReached ==
  \A t \in Threads :
    th[t].pc = "idle" /\ th[t].result = "ok" /\ th[t].call.op = "wait"
      => Reached(th[t].call.s, th[t].call.v) \/ failed[th[t].call.s]

(* emulated_semaphore.cc: fences are passed on to the queues outside the   *)
(* lock "to avoid potential mutex deadlock, given here we are not holding  *)
(* a mutex anymore".                                                       *)
NoSelfDeadlock ==
  \A t \in Threads : th[t].pc = "notify" => queueMutex[th[t].k] # t

(* emulated_semaphore.cc: GetSignalSemaphore "Gets a binary semaphore for  *)
(* signaling the timeline to the given |value|".  It does so if the search *)
(* for the place of the new point ends.                                    *)
InsertionEnds == \A t \in Threads : th[t].pc # "spin"

(* hal/semaphore.h: a semaphore has "a monotonically increasing" payload.  *)
ValueAscends == [][\A s \in Sems : signaled'[s] >= signaled[s]]_signaled

(* hal/device.h: wait_idle "Blocks the caller until all outstanding        *)
(* requests on all queues have been completed or the |timeout| elapses".   *)
WaitIdleMeansDone == \A t \in Threads : NoneLeft(t)

(* timepoint_util.cc: ~TimePointSemaphorePool checks that every semaphore  *)
(* came back; one is in the pool or on the list of a timeline.             *)
PointsConserved ==
  Points = Range(free.items) \cup UNION {Range(Ids(outstanding[s])) : s \in Sems}
=============================================================================
