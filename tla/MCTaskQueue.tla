----------------------------- MODULE MCTaskQueue -----------------------------
EXTENDS TaskQueue, TLC
CONSTANTS b1, b2, b3, q1, q2, s1, s2, u1, u2
\* A two-command batch on q1 feeds a batch of q2, which feeds a third batch on
\* q1 together with the host; u1 submits both to q1 in one call, u2 to q2.
AQueue == b1 :> q1 @@ b2 :> q2 @@ b3 :> q1
AWaits == b1 :> {} @@ b2 :> {<<s1, 1>>} @@ b3 :> {<<s1, 2>>, <<s2, 1>>}
ASignals == b1 :> <<<<s1, 1>>>> @@ b2 :> <<<<s2, 1>>>> @@ b3 :> <<<<s2, 2>>, <<s1, 3>>>>
ACommands == b1 :> {1, 2} @@ b2 :> {1} @@ b3 :> {1}
APrograms == u1 :> <<<<"submit", b1>>, <<"submit", b3>>, <<"wait_idle", q1>>>>
          @@ u2 :> <<<<"submit", b2>>, <<"wait_idle", q2>>, <<"signal", <<s1, 2>>>>>>
=============================================================================
