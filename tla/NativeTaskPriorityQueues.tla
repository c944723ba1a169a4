----------------------- MODULE NativeTaskPriorityQueues -----------------------
(***************************************************************************)
(* The buckets behind the queue of the native task graph: one double-ended *)
(* queue per priority and lane (src-tauri/src/native_task_graph.rs).  Every *)
(* operation runs inside one critical section of the graph, so a step is   *)
(* one operation.  The sequence numbers and the lane counters belong to    *)
(* the graph; they are here because pop_next_ready reads them.             *)
(***************************************************************************)
EXTENDS Naturals, Sequences, FiniteSets

CONSTANTS
  Tasks, Lanes,
  Lane, Priority,      \* lane and priority of a task, 0 the most urgent
  LaneConcurrency      \* cap_for

Priorities == 0..5

ASSUME QueuesAssumption ==
  /\ IsFiniteSet(Tasks) /\ IsFiniteSet(Lanes)
  /\ Lane \in [Tasks -> Lanes] /\ Priority \in [Tasks -> Priorities]
  /\ LaneConcurrency \in [Lanes -> Nat]

VARIABLES
  buckets,     \* a sequence of tasks per priority and lane
  sequence,    \* sequence number of a task, 0 before it is queued
  cancelled,   \* tasks whose token is cancelled
  active       \* active_by_lane

vars == <<buckets, sequence, cancelled, active>>

Init ==
  /\ buckets = [p \in Priorities |-> [l \in Lanes |-> <<>>]]
  /\ sequence = [t \in Tasks |-> 0]
  /\ cancelled = {}
  /\ active = [l \in Lanes |-> 0]

\* push_back, with the sequence number enqueue has just taken.
PushBack(t) ==
  /\ sequence[t] = 0
  /\ sequence' = [sequence EXCEPT ![t] = 1 + Cardinality({u \in Tasks : sequence[u] # 0})]
  /\ buckets' = [buckets EXCEPT ![Priority[t]][Lane[t]] = Append(@, t)]
  /\ UNCHANGED <<cancelled, active>>

\* The lanes of a priority that have a task and a free slot.
ReadyLanes(p) ==
  {l \in Lanes : active[l] < LaneConcurrency[l] /\ buckets[p][l] # <<>>}

\* Mutant: the first ready lane, whatever waits at the heads.
FirstReadyLane(p) == CHOOSE l \in ReadyLanes(p) : TRUE
\* The ready lane whose head has the smallest sequence number.
BestLane(p) ==
  CHOOSE l \in ReadyLanes(p) :
    \A k \in ReadyLanes(p) : sequence[Head(buckets[p][l])] <= sequence[Head(buckets[p][k])]

\* pop_next_ready with the slot mark_task_running takes for the popped task.
PopNextReady ==
  \E p \in Priorities :
    /\ ReadyLanes(p) # {}
    /\ \A q \in 0..p - 1 : ReadyLanes(q) = {}
    /\ LET l == BestLane(p)
       IN /\ buckets' = [buckets EXCEPT ![p][l] = Tail(@)]
          /\ active' = [active EXCEPT ![l] = @ + 1]
    /\ UNCHANGED <<sequence, cancelled>>

\* Mutant: the retained tasks go back to the front.
PushedToFront(q, dropped) ==
  LET retained[n \in 0..Len(q)] ==
        IF n = 0 THEN <<>>
        ELSE IF q[n] \in dropped THEN retained[n - 1]
        ELSE <<q[n]>> \o retained[n - 1]
  IN retained[Len(q)]
\* What is left of the first n tasks of a bucket: popped from the front one by one,
\* those not dropped pushed to the back of a new one.
RetainedOf(q, dropped) ==
  LET retained[n \in 0..Len(q)] ==
        IF n = 0 THEN <<>>
        ELSE IF q[n] \in dropped THEN retained[n - 1]
        ELSE Append(retained[n - 1], q[n])
  IN retained
\* One bucket of remove_cancelled.
Retained(q, dropped) == RetainedOf(q, dropped)[Len(q)]

\* Tokens of submitted tasks are cancelled; remove_cancelled rebuilds every bucket.
RemoveCancelled(S) ==
  /\ \A t \in S : sequence[t] # 0 /\ t \notin cancelled
  /\ cancelled' = cancelled \cup S
  /\ buckets' = [p \in Priorities |-> [l \in Lanes |-> Retained(buckets[p][l], cancelled')]]
  /\ UNCHANGED <<sequence, active>>

\* finish_running_task gives a slot back.
FinishRunning(l) ==
  /\ active[l] > 0
  /\ active' = [active EXCEPT ![l] = @ - 1]
  /\ UNCHANGED <<buckets, sequence, cancelled>>

Next ==
  \/ \E t \in Tasks : PushBack(t)
  \/ PopNextReady
  \/ \E S \in (SUBSET Tasks) \ {{}} : RemoveCancelled(S)
  \/ \E l \in Lanes : FinishRunning(l)

Spec == Init /\ [][Next]_vars

-----------------------------------------------------------------------------
InBucket(p, l) == {buckets[p][l][i] : i \in 1..Len(buckets[p][l])}
Waiting == UNION {InBucket(p, l) : p \in Priorities, l \in Lanes}

\* Types of the buckets and of what the graph keeps beside them.
TypeOK ==
  /\ buckets \in [Priorities -> [Lanes -> Seq(Tasks)]]
  /\ sequence \in [Tasks -> 0..Cardinality(Tasks)]
  /\ cancelled \subseteq Tasks
  /\ active \in [Lanes -> Nat]

\* Every bucket holds tasks of its own lane and priority, oldest first, and sweeps
\* and pops keep it so: looking at the heads is enough to find the next task.
BucketsInOrder ==
  \A p \in Priorities, l \in Lanes :
    /\ \A t \in InBucket(p, l) : Priority[t] = p /\ Lane[t] = l
    /\ \A i, j \in 1..Len(buckets[p][l]) :
         i < j => sequence[buckets[p][l][i]] < sequence[buckets[p][l][j]]

Queue == INSTANCE TaskReadyQueue WITH waiting <- Waiting

\* The buckets implement the set of waiting tasks: a pop takes the most urgent,
\* oldest task that has a slot, and no operation loses or duplicates a task.
ImplementsReadyQueue == Queue!Spec
=============================================================================
