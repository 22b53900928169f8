------------------------------ MODULE TaskOrder ------------------------------
(***************************************************************************)
(* What the task system promises about the order of tasks, without queues, *)
(* threads or dependency counters: a task begins once every task it waits  *)
(* for is done, and is done once every task it spawned into itself is.     *)
(***************************************************************************)
CONSTANTS
    Tasks,
    Prereqs,    \* tasks that must be done before a task begins
    Nested      \* tasks that must be done before a task, once begun, is done

VARIABLES begun, done

Init == begun = {} /\ done = {}

Begin(t) ==
    /\ t \notin begun
    /\ Prereqs[t] \subseteq done
    /\ begun' = begun \cup {t}
    /\ UNCHANGED done

Finish(t) ==
    /\ t \in begun \ done
    /\ Nested[t] \subseteq done
    /\ done' = done \cup {t}
    /\ UNCHANGED begun

Next == \E t \in Tasks : Begin(t) \/ Finish(t)

Spec == Init /\ [][Next]_<<begun, done>>
=============================================================================
