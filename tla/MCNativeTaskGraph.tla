------------------------- MODULE MCNativeTaskGraph -------------------------
(* Small instances of NativeTaskGraph for TLC. *)
EXTENDS NativeTaskGraph, TLC

CONSTANTS t1, t2, t3, scan, parked, k1

\* A request with no work key.
Plain(lane, priority) ==
  [lane |-> lane, priority |-> priority, workKey |-> NoKey, generation |-> NoGeneration,
   cancelStale |-> FALSE, parent |-> NoTask, async |-> FALSE]

\* A request of generation g of work key k1 that cancels stale work.
Keyed(lane, priority, g) ==
  [Plain(lane, priority) EXCEPT !.workKey = k1, !.generation = g, !.cancelStale = TRUE]

ChildOf(lane, priority, p) == [Plain(lane, priority) EXCEPT !.parent = p]

MCLaneConcurrency == [l \in Lanes |-> IF l = parked THEN 0 ELSE 1]

\* Urgent work of a parked lane, and a work key whose two generations differ in
\* priority and may arrive in any order.
MCRequestsOf ==
  [t \in Tasks |-> {Plain(parked, 1), Keyed(scan, 2, 1), Keyed(scan, 5, 2)}]

\* Parked and running work of one key beside a three-level tree that hangs off it.
MCTree ==
  (t1 :> {Keyed(parked, 2, 1), Keyed(scan, 2, 2)}) @@
  (t2 :> {Keyed(scan, 2, 2), ChildOf(parked, 3, t1)}) @@
  (t3 :> {Plain(parked, 6), ChildOf(scan, 5, t2)})

\* Async jobs that may panic beside blocking ones.
MCAsync ==
  [t \in Tasks |-> {[Keyed(scan, 2, 1) EXCEPT !.async = TRUE], Plain(parked, 4)}]

Symmetry == Permutations(Tasks) \cup Permutations(Callers)
=============================================================================
