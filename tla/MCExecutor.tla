----------------------------- MODULE MCExecutor -----------------------------
(***************************************************************************)
(* Instances of Executor for TLC.                                          *)
(***************************************************************************)
EXTENDS Executor

CONSTANTS c1, c2, c3, u1, u2, t1, t2, h1, h2

AnyWorker == [t \in Tasks |-> Workers]
AfterNothing == [u \in Users |-> {}]
NoSignals == [t \in Calls |-> {}]

\* One user thread submits the calls c1 and c3.
TwoCallsSubmits == [u \in Users |-> {c1, c3}]

\* c1 makes the wait t1 ready, which is followed by c2; c3 is independent.
WaitFollow == [t \in Tasks |-> IF t = c1 THEN {t1} ELSE IF t = t1 THEN {c2} ELSE {}]
WaitSubmits == [u \in Users |-> IF u = u1 THEN {c1} ELSE {c3}]
OneHandle == [t \in Waits |-> h1]

\* A wait submitted by a user thread.
NoFollow == [t \in Tasks |-> {}]
OnlyWaitSubmits == [u \in Users |-> {t1}]

\* Waits one after the other on an event that is reused.
ReuseSubmits == [u \in Users |-> IF u = u1 THEN {c1} ELSE {t2}]
ReuseFollow == [t \in Tasks |-> IF t = c1 THEN {t1} ELSE {}]
ReuseAfter == [u \in Users |-> IF u = u1 THEN {} ELSE {t1}]
=============================================================================
