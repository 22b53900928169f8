---------------------------- MODULE SyncSemaphore ----------------------------
(***************************************************************************)
(* The semaphores of the synchronous device (iree/hal/local/               *)
(* sync_semaphore.c) and the device's queue_submit (sync_device.c): a      *)
(* mutex per semaphore, one notification for all of them.  Threads signal, *)
(* fail, wait for one semaphore or for several, and submit batches, which  *)
(* wait and signal on the calling thread.  A scan over a list of           *)
(* semaphores takes their mutexes one after the other, so signals and      *)
(* failures happen in the middle of it.  Each critical section is one      *)
(* step.  The notification is its contract: a commit sleeps until the      *)
(* epoch has moved from the value prepare returned (module Notification).  *)
(***************************************************************************)
EXTENDS Integers, Sequences, FiniteSets

CONSTANTS
    Threads,
    Programs,       \* the calls each thread makes, in order
    Semaphores,
    FailureValue    \* IREE_HAL_SYNC_SEMAPHORE_FAILURE_VALUE

VARIABLES
    value,          \* semaphore->current_value
    failed,         \* semaphores with a failure_status
    mutex,          \* 0 when free; below when unlocked without being held
    epoch,          \* the epoch of shared_state->notification
    at, pc, index,  \* each thread's call, place in it and place in its list
    token,          \* the wait token of iree_notification_prepare_wait
    found,          \* what result_from_state has found so far
    status,         \* the status of each thread's last call
    returned        \* the waits that have returned: <<thread, call, status>> (history)

shared == <<value, failed, mutex, epoch>>
vars == <<shared, at, pc, index, token, found, status, returned>>

Call(t) == Programs[t][at[t]]
Waited(t) == Call(t).waits
Signals(t) == Call(t).signals

Reached(sig) == value[sig[1]] >= sig[2]
\* What the condition functions test of one semaphore.
IsSignaled(sig) == Reached(sig) \/ sig[1] \in failed
Nothing == [any |-> FALSE, all |-> TRUE, failed |-> FALSE]

-----------------------------------------------------------------------------
Init ==
    /\ value = [s \in Semaphores |-> 0]
    /\ failed = {}
    /\ mutex = [s \in Semaphores |-> 0]
    /\ epoch = 0
    /\ at = [t \in Threads |-> 1]
    /\ pc = [t \in Threads |-> "call"]
    /\ index = [t \in Threads |-> 1]
    /\ token = [t \in Threads |-> 0]
    /\ found = [t \in Threads |-> Nothing]
    /\ status = [t \in Threads |-> "OK"]
    /\ returned = {}

Goto(t, place, i) == pc' = [pc EXCEPT ![t] = place] /\ index' = [index EXCEPT ![t] = i]
Return(t, st) ==
    /\ pc' = [pc EXCEPT ![t] = "call"]
    /\ index' = [index EXCEPT ![t] = 1]
    /\ status' = [status EXCEPT ![t] = st]
    /\ at' = [at EXCEPT ![t] = @ + 1]
\* The end of a wait: a submission that may go on signals, anything else returns.
EndWait(t, st) ==
    /\ returned' = returned \cup {<<t, at[t], st>>}
    /\ IF st = "OK" /\ Call(t).op = "submit"
       THEN Goto(t, "signal", 1) /\ UNCHANGED <<at, status>>
       ELSE Return(t, st)

\* The semaphore the thread looks at next, whose mutex it can only take if free.
Current(t, list) == list[index[t]]
CanLock(t, list) == mutex[Current(t, list)[1]] = 0

\* A thread enters its next call.
Enter(t) ==
    /\ pc[t] = "call" /\ at[t] <= Len(Programs[t])
    /\ CASE Call(t).op \in {"signal", "multi_signal"} ->
              Goto(t, "signal", 1) /\ UNCHANGED <<at, status, returned>>
         [] Call(t).op = "fail" -> Goto(t, "fail", 1) /\ UNCHANGED <<at, status, returned>>
         [] OTHER -> IF Waited(t) = <<>> THEN EndWait(t, "OK")
                     ELSE /\ Goto(t, IF Len(Waited(t)) = 1 THEN "fast"
                                     ELSE IF Call(t).poll THEN "result" ELSE "check", 1)
                          /\ UNCHANGED <<at, status, returned>>
    /\ found' = [found EXCEPT ![t] = Nothing]
    /\ UNCHANGED <<shared, token>>

\* iree_hal_sync_semaphore_signal_unsafe: the value goes up under the mutex; at
\* the end of the list the notification is posted.
SignalOne(t) ==
    LET sig == Current(t, Signals(t))
    IN /\ pc[t] = "signal" /\ index[t] <= Len(Signals(t))
       /\ CanLock(t, Signals(t))
       /\ sig[2] > value[sig[1]]
       /\ value' = [value EXCEPT ![sig[1]] = sig[2]]
       /\ Goto(t, "signal", index[t] + 1)
       /\ UNCHANGED <<failed, mutex, epoch, at, token, found, status, returned>>

SignalsDone(t) ==
    /\ pc[t] = "signal" /\ index[t] > Len(Signals(t))
    /\ status' = [status EXCEPT ![t] = "OK"]
    /\ Goto(t, "post", 1)
    /\ UNCHANGED <<shared, at, token, found, returned>>

\* A value that is not larger is out of range: signal_unsafe unlocks the mutex
\* and its caller unlocks it once more.
SignalRejected(t) ==
    LET sig == Current(t, Signals(t))
    IN /\ pc[t] = "signal" /\ index[t] <= Len(Signals(t))
       /\ CanLock(t, Signals(t))
       /\ sig[2] <= value[sig[1]]
       /\ Goto(t, "unlock", index[t])
       /\ UNCHANGED <<shared, at, token, found, status, returned>>

\* Mutant: a list that is rejected half way is not announced.
UnlockAgainQuietly(t) ==
    /\ pc[t] = "unlock"
    /\ mutex' = [mutex EXCEPT ![Current(t, Signals(t))[1]] = @ - 1]
    /\ Return(t, "OUT_OF_RANGE")
    /\ UNCHANGED <<value, failed, epoch, token, found, returned>>

\* A single signal returns the error; a list is announced even so, because some
\* of it may have been signaled.
UnlockAgain(t) ==
    /\ pc[t] = "unlock"
    /\ mutex' = [mutex EXCEPT ![Current(t, Signals(t))[1]] = @ - 1]
    /\ IF Call(t).op = "signal"
       THEN Return(t, "OUT_OF_RANGE")
       ELSE Goto(t, "post", 1) /\ status' = [status EXCEPT ![t] = "OUT_OF_RANGE"] /\ UNCHANGED at
    /\ UNCHANGED <<value, failed, epoch, token, found, returned>>

Post(t) ==
    /\ pc[t] = "post"
    /\ epoch' = epoch + 1
    /\ Return(t, status[t])
    /\ UNCHANGED <<value, failed, mutex, token, found, returned>>

\* iree_hal_sync_semaphore_fail: only the first failure counts and is posted.
Fail(t) ==
    LET s == Signals(t)[1][1]
    IN /\ pc[t] = "fail" /\ mutex[s] = 0
       /\ IF s \in failed
          THEN Return(t, "OK") /\ UNCHANGED <<value, failed>>
          ELSE /\ value' = [value EXCEPT ![s] = FailureValue]
               /\ failed' = failed \cup {s}
               /\ Goto(t, "post", 1)
               /\ status' = [status EXCEPT ![t] = "OK"]
               /\ UNCHANGED at
       /\ UNCHANGED <<mutex, epoch, token, found, returned>>

-----------------------------------------------------------------------------
\* The first look of iree_hal_sync_semaphore_wait.
WaitFast(t) ==
    LET sig == Waited(t)[1]
    IN /\ pc[t] = "fast" /\ CanLock(t, Waited(t))
       /\ CASE sig[1] \in failed -> EndWait(t, "ABORTED")
            [] sig[1] \notin failed /\ Reached(sig) -> EndWait(t, "OK")
            [] ~IsSignaled(sig) /\ Call(t).poll -> EndWait(t, "DEADLINE_EXCEEDED")
            [] ~IsSignaled(sig) /\ ~Call(t).poll ->
                  Goto(t, "check", 1) /\ UNCHANGED <<at, status, returned>>
       /\ UNCHANGED <<shared, token, found>>

\* One semaphore of any_signaled or all_signaled.  The condition is true when
\* an ALL scan gets through or an ANY scan finds one, false when an ALL scan
\* finds one missing or an ANY scan gets through; iree_notification_await
\* returns when it is true, prepares to wait after the first time it is false
\* and commits after the next.
ScanOne(t) ==
    LET sig == Current(t, Waited(t))
        last == index[t] = Len(Waited(t))
        all == Call(t).mode = "ALL"
        holds == IF all THEN last /\ IsSignaled(sig) ELSE IsSignaled(sig)
        fails == IF all THEN ~IsSignaled(sig) ELSE last /\ ~IsSignaled(sig)
    IN /\ pc[t] \in {"check", "recheck"} /\ CanLock(t, Waited(t))
       /\ CASE holds -> Goto(t, "result", 1)
            [] fails -> Goto(t, IF pc[t] = "check" THEN "prepare" ELSE "commit", 1)
            [] OTHER -> Goto(t, pc[t], index[t] + 1)
       /\ UNCHANGED <<shared, at, token, found, status, returned>>

PrepareWait(t) ==
    /\ pc[t] = "prepare"
    /\ token' = [token EXCEPT ![t] = epoch]
    /\ Goto(t, "recheck", 1)
    /\ UNCHANGED <<shared, at, found, status, returned>>

CommitWait(t) ==
    /\ pc[t] = "commit" /\ token[t] # epoch
    /\ Goto(t, "prepare", 1)
    /\ UNCHANGED <<shared, at, token, found, status, returned>>

\* Mutant: one signaled semaphore is enough in both modes.
ResultAny(t, f) ==
    CASE f.failed -> "ABORTED"
      [] ~f.failed /\ f.any -> "OK"
      [] OTHER -> "DEADLINE_EXCEEDED"

\* The status of a wait in which result_from_state found f.
Result(t, f) ==
    CASE f.failed -> "ABORTED"
      [] ~f.failed /\ (IF Call(t).mode = "ALL" THEN f.all ELSE f.any) -> "OK"
      [] OTHER -> "DEADLINE_EXCEEDED"

\* One semaphore of iree_hal_sync_semaphore_result_from_state.
ResultOne(t) ==
    LET sig == Current(t, Waited(t))
        bad == sig[1] \in failed
        now == [any |-> found[t].any \/ (~bad /\ Reached(sig)),
                all |-> found[t].all /\ (bad \/ Reached(sig)),
                failed |-> found[t].failed \/ bad]
    IN /\ pc[t] = "result" /\ CanLock(t, Waited(t))
       /\ found' = [found EXCEPT ![t] = now]
       /\ IF index[t] < Len(Waited(t))
          THEN Goto(t, "result", index[t] + 1) /\ UNCHANGED <<at, status, returned>>
          ELSE EndWait(t, Result(t, now))
       /\ UNCHANGED <<shared, token>>

-----------------------------------------------------------------------------
ThreadStep(t) ==
    \/ Enter(t)
    \/ SignalOne(t) \/ SignalsDone(t) \/ SignalRejected(t) \/ UnlockAgain(t)
    \/ Post(t) \/ Fail(t)
    \/ WaitFast(t) \/ ScanOne(t) \/ PrepareWait(t) \/ CommitWait(t) \/ ResultOne(t)

Next == \E t \in Threads : ThreadStep(t)

Spec == Init /\ [][Next]_vars
FairSpec == Spec /\ \A t \in Threads : WF_vars(ThreadStep(t))

-----------------------------------------------------------------------------
Places == {"call", "signal", "unlock", "post", "fail", "fast", "check", "prepare", "recheck", "commit", "result"}
Statuses == {"OK", "ABORTED", "DEADLINE_EXCEEDED", "OUT_OF_RANGE"}

TypeOK ==
    /\ value \in [Semaphores -> 0..FailureValue]
    /\ failed \subseteq Semaphores
    /\ mutex \in [Semaphores -> Int]
    /\ epoch \in Nat
    /\ at \in [Threads -> Nat] /\ pc \in [Threads -> Places] /\ index \in [Threads -> Nat]
    /\ token \in [Threads -> 0..epoch]
    /\ found \in [Threads -> [any : BOOLEAN, all : BOOLEAN, failed : BOOLEAN]]
    /\ status \in [Threads -> Statuses]
    /\ returned \subseteq Threads \X Nat \X Statuses

Waiting(t) == pc[t] \in {"fast", "check", "prepare", "recheck", "commit", "result"}
Signaled(t) ==
    IF Call(t).mode = "ALL" THEN \A i \in DOMAIN Waited(t) : IsSignaled(Waited(t)[i])
                            ELSE \E i \in DOMAIN Waited(t) : IsSignaled(Waited(t)[i])

\* Although the semaphores are looked at one by one, twice, while others signal
\* and fail them: a wait that returned OK has all (or one) of its semaphores at
\* their values, one that returned ABORTED has a failed one, and only a poll
\* returns DEADLINE_EXCEEDED: what the condition function of a wait saw still
\* holds when result_from_state looks again.
StatusFaithful ==
    \A r \in returned :
        LET call == Programs[r[1]][r[2]]
        IN /\ r[3] = "OK" => IF call.mode = "ALL"
                             THEN \A i \in DOMAIN call.waits : Reached(call.waits[i])
                             ELSE call.waits = <<>> \/ \E i \in DOMAIN call.waits : Reached(call.waits[i])
           /\ r[3] = "ABORTED" => \E i \in DOMAIN call.waits : call.waits[i][1] \in failed
           /\ r[3] = "DEADLINE_EXCEEDED" => call.poll

\* No thread sleeps on an old epoch while its condition holds, unless whoever
\* made it hold has yet to post the notification.
NoSleeperMissed ==
    \A t \in Threads : pc[t] = "commit" /\ token[t] = epoch /\ Signaled(t) =>
        \E u \in Threads : \/ pc[u] = "post"
                           \/ pc[u] = "signal" /\ index[u] > 1
                           \/ pc[u] = "unlock" /\ Call(u).op # "signal"

\* A thread that can never take the mutex it needs.
Blocked(t) ==
    \/ pc[t] = "signal" /\ index[t] <= Len(Signals(t)) /\ ~CanLock(t, Signals(t))
    \/ pc[t] = "fail" /\ mutex[Signals(t)[1][1]] # 0
    \/ pc[t] \in {"fast", "check", "recheck", "result"} /\ ~CanLock(t, Waited(t))

\* Under fair scheduling a wait whose condition holds returns, also when the
\* signals that made it hold came from a list that was rejected further on,
\* unless some thread has run into a mutex that was unlocked once too often.
SignaledWaitsReturn ==
    \A t \in Threads : (Waiting(t) /\ Signaled(t)) ~> (~Waiting(t) \/ \E u \in Threads : Blocked(u))

\* synchronization.h says of iree_slim_mutex_unlock that the mutex must be held
\* by the caller.
UnlockedOnlyWhenHeld == \A s \in Semaphores : mutex[s] = 0

\* The comment on all_signaled says it is true if any semaphore failed: a wait
\* for all of a list with a failed semaphore returns.
FailureEndsWaits ==
    \A t \in Threads : (Waiting(t) /\ \E i \in DOMAIN Waited(t) : Waited(t)[i][1] \in failed)
                            ~> (~Waiting(t) \/ \E u \in Threads : Blocked(u))

=============================================================================
