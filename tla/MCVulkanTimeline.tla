------------------------- MODULE MCVulkanTimeline -------------------------
(* Instances of VulkanTimeline.  Values are chosen so that the timeline    *)
(* `x' gets its points out of order (b2 is submitted while b1 may still be *)
(* deferred) and `y' chains a batch behind another.                        *)
EXTENDS VulkanTimeline

CONSTANTS t1, t2, b1, b2, b3, x, y

MCQueue == [b \in Batches |-> IF b = b2 THEN NumQueues ELSE 1]
MCWaits == [b \in Batches |-> IF b = b1 THEN <<<<x, 1>>>> ELSE IF b = b2 THEN <<<<y, 1>>>> ELSE <<>>]
MCSignals == [b \in Batches |-> IF b = b1 THEN <<<<y, 1>>>> ELSE IF b = b2 THEN <<<<y, 2>>, <<x, 3>>>> ELSE <<<<x, 2>>>>]
MCHostSignals == {<<x, 1>>}
MCHostWaits == {<<x, 2, TRUE>>}

(* b3 signals nothing: no time point keeps its fence. *)
MCSilentSignals == [b \in Batches |-> IF b = b3 THEN <<>> ELSE <<<<y, IF b = b1 THEN 1 ELSE 2>>>>]
MCNoWaits == [b \in Batches |-> <<>>]

Symmetry == Permutations(Fences) \cup Permutations(Threads)
=============================================================================
