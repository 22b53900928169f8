--------------------------- MODULE MCSyncSemaphore ---------------------------
EXTENDS SyncSemaphore, TLC
CONSTANTS t1, t2, t3, s1, s2, s3
Wait(mode, waits, poll) == [op |-> "wait", mode |-> mode, waits |-> waits, signals |-> <<>>, poll |-> poll]
Act(op, signals) == [op |-> op, mode |-> "ALL", waits |-> <<>>, signals |-> signals, poll |-> FALSE]
SubmitBatch(waits, signals) == [op |-> "submit", mode |-> "ALL", waits |-> waits, signals |-> signals, poll |-> FALSE]
\* t1 waits for both s1 and s2, for either of them and then touches the failed
\* s2 again; t2 submits batches, the second of which waits for t3's signal, and
\* fails s2; t3 signals and polls.  t2 and t3 both raise s3 to 1, so the list of
\* the later one is rejected at its second semaphore.
APrograms ==
    t1 :> <<Wait("ALL", <<<<s1, 1>>, <<s2, 1>>>>, FALSE),
            Wait("ANY", <<<<s1, 3>>, <<s2, 2>>>>, FALSE),
            Act("fail", <<<<s2, 0>>>>), Act("signal", <<<<s2, 2>>>>)>>
 @@ t2 :> <<SubmitBatch(<<>>, <<<<s1, 1>>, <<s3, 1>>>>), SubmitBatch(<<<<s2, 1>>>>, <<<<s1, 2>>>>),
            Act("fail", <<<<s2, 0>>>>)>>
 @@ t3 :> <<Act("multi_signal", <<<<s2, 1>>, <<s3, 1>>>>),
            Wait("ALL", <<<<s1, 2>>, <<s2, 1>>>>, TRUE), Wait("ALL", <<<<s1, 2>>>>, TRUE)>>
\* t1 waits for both semaphores; one fails and nobody signals the other.
FailPrograms ==
    t1 :> <<Wait("ALL", <<<<s1, 1>>, <<s2, 1>>>>, FALSE)>>
 @@ t2 :> <<Act("fail", <<<<s2, 0>>>>)>> @@ t3 :> <<>>
=============================================================================
