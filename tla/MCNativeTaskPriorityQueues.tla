--------------------- MODULE MCNativeTaskPriorityQueues ---------------------
(* Small instance of NativeTaskPriorityQueues for TLC. *)
EXTENDS NativeTaskPriorityQueues

CONSTANTS t1, t2, t3, t4, t5, scan, thumbs, parked

\* Two tasks of one bucket and one beside them, one more urgent, one on a parked lane.
MCLane == [t \in Tasks |-> CASE t \in {t1, t2, t4} -> scan [] t = t3 -> thumbs [] OTHER -> parked]
MCPriority == [t \in Tasks |-> IF t = t4 THEN 0 ELSE IF t = t5 THEN 1 ELSE 2]
MCLaneConcurrency == [l \in Lanes |-> CASE l = scan -> 1 [] l = thumbs -> 2 [] l = parked -> 0]
=============================================================================
