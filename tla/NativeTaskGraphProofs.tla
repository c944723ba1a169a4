----------------------- MODULE NativeTaskGraphProofs -----------------------
(* Theorems about NativeTaskGraph, for every set of tasks, callers and lanes  *)
(* and every policy.                                                         *)
EXTENDS NativeTaskGraph, FiniteSetTheorems, WellFoundedInduction, TLAPS

\* What remove_cancelled takes out of the queue was in the queue.
LEMMA RemovedFromQueue == ASSUME NEW S PROVE RemovedBy(S) \subseteq queue
  BY DEF RemovedBy

\* A set of tasks has a size.
LEMMA TaskSetsAreFinite ==
  ASSUME NEW S, S \subseteq Tasks
  PROVE  IsFiniteSet(S) /\ Cardinality(S) \in Nat
  BY TasksAssumption, FS_Subset, FS_CardinalityType

\* Counting up or down at any index keeps a function of naturals one.
LEMMA CountingType ==
  ASSUME NEW D, NEW f \in [D -> Nat], NEW x
  PROVE  /\ [f EXCEPT ![x] = @ + 1] \in [D -> Nat]
         /\ [f EXCEPT ![x] = IF @ = 0 THEN 0 ELSE @ - 1] \in [D -> Nat]
  <1>1. CASE x \in D BY <1>1
  <1>2. CASE x \notin D BY <1>2
  <1> QED BY <1>1, <1>2

LEMMA StaleAreTasks ==
  ASSUME TypeOK, NEW r \in NativeTaskRequest
  PROVE  StaleTasks(r) \subseteq Tasks
  BY DEF StaleTasks, TypeOK, Sweeps, NativeTaskRequest

\* The state the record removals leave is well typed.
LEMMA RemovalTypes ==
  ASSUME TypeOK, NEW S, NEW g \in [Keys -> Nat \cup {NoGeneration}]
  PROVE  /\ TaskIdsWithout(S) \in [Keys -> SUBSET Tasks]
         /\ GenerationsWithout(S, g) \in [Keys -> Nat \cup {NoGeneration}]
         /\ StatusWithout(S) \in [Tasks -> {"absent", "Queued", "Running"}]
  BY DEF TypeOK, TaskIdsWithout, GenerationsWithout, StatusWithout

LEMMA LatestSeenType ==
  ASSUME TypeOK, NEW r \in NativeTaskRequest
  PROVE  LatestSeen(r) \in [Keys -> Nat \cup {NoGeneration}]
  BY DEF TypeOK, LatestSeen, Sweeps, MaxGeneration, NativeTaskRequest, NoGeneration

LEMMA AcceptTypes ==
  ASSUME TypeOK, NEW c \in Callers, NEW t \in Tasks, NEW r \in NativeTaskRequest,
         Accept(c, t, r)
  PROVE  /\ request' \in [Tasks -> NativeTaskRequest \cup {NoRequest}]
         /\ sequence' \in [Tasks -> Nat \cup {-1}]
         /\ nextSequence' \in Nat
         /\ ancestors' \in [Tasks -> SUBSET Tasks]
         /\ cancelled' \in [Tasks -> BOOLEAN]
         /\ taskIds' \in [Keys -> SUBSET Tasks]
         /\ latest' \in [Keys -> Nat \cup {NoGeneration}]
         /\ telemetry' \in [Counters -> Nat]
         /\ todo' \in [Callers -> SUBSET Tasks]
         /\ dispatching' \subseteq Callers \cup Tasks
         /\ outcome' \in [Tasks -> Results \cup {"none"}]
         /\ answer' \in [Tasks -> Answers]
  <1> DEFINE stale == StaleTasks(r)
             removed == RemovedBy(stale)
  <1>1. stale \subseteq Tasks /\ removed \subseteq Tasks
    BY StaleAreTasks, RemovedFromQueue DEF TypeOK
  <1>2. Cardinality(stale) \in Nat /\ Cardinality(removed) \in Nat
    BY <1>1, TaskSetsAreFinite
  <1>3. /\ TaskIdsWithout(removed) \in [Keys -> SUBSET Tasks]
        /\ GenerationsWithout(removed, LatestSeen(r)) \in [Keys -> Nat \cup {NoGeneration}]
    BY RemovalTypes, LatestSeenType
  <1>4. request' \in [Tasks -> NativeTaskRequest \cup {NoRequest}]
    BY DEF Accept, TypeOK
  <1>5. sequence' \in [Tasks -> Nat \cup {-1}] /\ nextSequence' \in Nat
    BY DEF Accept, TypeOK
  <1>6. ancestors' \in [Tasks -> SUBSET Tasks]
    <2>1. AncestorsFor(r) \subseteq Tasks
      BY DEF AncestorsFor, Recorded, TypeOK, NativeTaskRequest
    <2> QED BY <2>1 DEF Accept, TypeOK
  <1>7. cancelled' \in [Tasks -> BOOLEAN]
    BY DEF Accept, TypeOK, TokensAfter
  <1>8. taskIds' \in [Keys -> SUBSET Tasks]
    BY <1>3 DEF Accept
  <1>9. latest' \in [Keys -> Nat \cup {NoGeneration}]
    <2> DEFINE g == GenerationsWithout(removed, LatestSeen(r))
    <2>1. g \in [Keys -> Nat \cup {NoGeneration}] BY <1>3
    <2>2. r.generation \in Nat \cup {NoGeneration} BY DEF NativeTaskRequest
    <2>3. latest' = g \/ latest' = [g EXCEPT ![r.workKey] = MaxGeneration(@, r.generation)]
      BY DEF Accept
    <2> HIDE DEF g
    <2> QED BY <2>1, <2>2, <2>3 DEF MaxGeneration, NoGeneration
  <1>10. telemetry' \in [Counters -> Nat]
    <2>1. \E m, n \in Nat :
            telemetry' = [telemetry EXCEPT !["queued"] = @ + 1, !["stale"] = @ + m,
                                           !["cancelled"] = @ + n]
      BY <1>2 DEF Accept
    <2> QED BY <2>1 DEF TypeOK, Counters, Results
  <1>11. todo' \in [Callers -> SUBSET Tasks] /\ dispatching' \subseteq Callers \cup Tasks
    BY <1>1 DEF Accept, TypeOK
  <1>12. outcome' \in [Tasks -> Results \cup {"none"}] /\ answer' \in [Tasks -> Answers]
    BY DEF Accept, TypeOK
  <1> HIDE DEF stale, removed
  <1> QED BY <1>4, <1>5, <1>6, <1>7, <1>8, <1>9, <1>10, <1>11, <1>12

-----------------------------------------------------------------------------
\* The primed variables of an action that TypeOK' speaks of are re-typed one by one
\* where they change.
LEMMA TypeSubmit ==
  ASSUME TypeOK, NEW c \in Callers, NEW t \in Tasks, NEW r \in NativeTaskRequest
  PROVE  (SubmitRejected(c, t, r) \/ SubmitQueued(c, t, r) \/ SubmitUnqueued(c, t, r))
           => TypeOK'
  <1> DEFINE stale == StaleTasks(r)
             removed == RemovedBy(stale)
  <1>1. stale \subseteq Tasks /\ removed \subseteq Tasks
    BY StaleAreTasks, RemovedFromQueue DEF TypeOK
  <1>2. Cardinality(stale) \in Nat /\ Cardinality(removed) \in Nat
    BY <1>1, TaskSetsAreFinite
  <1>3. /\ TaskIdsWithout(removed) \in [Keys -> SUBSET Tasks]
        /\ GenerationsWithout(removed, LatestSeen(r)) \in [Keys -> Nat \cup {NoGeneration}]
        /\ StatusWithout(removed) \in [Tasks -> {"absent", "Queued", "Running"}]
    BY RemovalTypes, LatestSeenType
  <1>4. ASSUME SubmitRejected(c, t, r) PROVE TypeOK'
    <2>1. \E m, n \in Nat :
            telemetry' = [telemetry EXCEPT !["rejected"] = @ + 1, !["stale"] = @ + m,
                                           !["cancelled"] = @ + n]
      BY <1>2, <1>4 DEF SubmitRejected
    <2>2. telemetry' \in [Counters -> Nat]
      BY <2>1 DEF TypeOK, Counters, Results
    <2>3. queue' \subseteq Tasks /\ request' \in [Tasks -> NativeTaskRequest \cup {NoRequest}]
      BY <1>4 DEF SubmitRejected, TypeOK
    <2>4. cancelled' \in [Tasks -> BOOLEAN]
      BY <1>4 DEF SubmitRejected, TypeOK, TokensAfter
    <2>5. answer' \in [Tasks -> Answers]
      BY <1>4 DEF SubmitRejected, TypeOK, Answers
    <2>6. /\ taskIds' \in [Keys -> SUBSET Tasks]
          /\ latest' \in [Keys -> Nat \cup {NoGeneration}]
          /\ status' \in [Tasks -> {"absent", "Queued", "Running"}]
      BY <1>3, <1>4 DEF SubmitRejected
    <2> HIDE DEF stale, removed
    <2> QED BY <1>4, <2>2, <2>3, <2>4, <2>5, <2>6 DEF SubmitRejected, TypeOK
  <1>5. ASSUME SubmitQueued(c, t, r) PROVE TypeOK'
    <2>1. Accept(c, t, r) BY <1>5 DEF SubmitQueued
    <2>2. queue' \subseteq Tasks BY <1>5 DEF SubmitQueued, TypeOK
    <2>3. status' \in [Tasks -> {"absent", "Queued", "Running"}]
      BY <1>3, <1>5 DEF SubmitQueued
    <2>4. active' = active /\ worker' = worker BY <1>5 DEF SubmitQueued
    <2> QED BY <2>1, <2>2, <2>3, <2>4, AcceptTypes DEF TypeOK
  <1>6. ASSUME SubmitUnqueued(c, t, r) PROVE TypeOK'
    <2>1. Accept(c, t, r) BY <1>6 DEF SubmitUnqueued
    <2>2. queue' \subseteq Tasks BY <1>6 DEF SubmitUnqueued, TypeOK
    <2>3. status' \in [Tasks -> {"absent", "Queued", "Running"}]
      BY <1>3, <1>6 DEF SubmitUnqueued
    <2>4. active' \in [Lanes -> Nat] BY <1>6 DEF SubmitUnqueued, TypeOK, NativeTaskRequest
    <2>5. worker' \in [Tasks -> Occupying \cup {"none", "done"}]
      BY <1>6 DEF SubmitUnqueued, TypeOK, Occupying
    <2> QED BY <2>1, <2>2, <2>3, <2>4, <2>5, AcceptTypes DEF TypeOK
  <1> QED BY <1>4, <1>5, <1>6

LEMMA TypeCancelTokens ==
  ASSUME TypeOK, NEW c \in Callers, NEW S \in SUBSET Tasks, CancelTokens(c, S)
  PROVE  TypeOK'
  <1> DEFINE removed == RemovedBy(S)
  <1>1. removed \subseteq Tasks BY RemovedFromQueue DEF TypeOK
  <1>2. Cardinality(removed) \in Nat BY <1>1, TaskSetsAreFinite
  <1>3. /\ TaskIdsWithout(removed) \in [Keys -> SUBSET Tasks]
        /\ GenerationsWithout(removed, latest) \in [Keys -> Nat \cup {NoGeneration}]
        /\ StatusWithout(removed) \in [Tasks -> {"absent", "Queued", "Running"}]
    <2>1. latest \in [Keys -> Nat \cup {NoGeneration}] BY DEF TypeOK
    <2> QED BY <2>1, RemovalTypes
  <1>4. \E n \in Nat : telemetry' = [telemetry EXCEPT !["cancelled"] = @ + n]
    BY <1>2 DEF CancelTokens
  <1>5. telemetry' \in [Counters -> Nat] BY <1>4 DEF TypeOK, Counters, Results
  <1>6. cancelled' \in [Tasks -> BOOLEAN] BY DEF CancelTokens, TypeOK, TokensAfter
  <1>7. queue' \subseteq Tasks /\ todo' \in [Callers -> SUBSET Tasks]
        /\ dispatching' \subseteq Callers \cup Tasks
    BY <1>1 DEF CancelTokens, TypeOK
  <1> HIDE DEF removed
  <1> QED BY <1>3, <1>5, <1>6, <1>7 DEF CancelTokens, TypeOK, removed

LEMMA TypeWorkerStep ==
  ASSUME TypeOK, NEW t \in Tasks, WorkerStep(t) PROVE TypeOK'
  <1>1. CASE WorkerStarts(t)
    BY <1>1 DEF WorkerStarts, TypeOK, queueAndIndexes, Occupying, Results
  <1>2. ASSUME NEW result \in Results, WorkReturns(t, result) PROVE TypeOK'
    BY <1>2 DEF WorkReturns, ResultAfterToken, TypeOK, queueAndIndexes, Occupying, Results
  <1>3. CASE AsyncWorkPanics(t)
    BY <1>3 DEF AsyncWorkPanics, TypeOK, queueAndIndexes, Occupying, Answers
  <1>4. CASE SendTaskResult(t)
    BY <1>4 DEF SendTaskResult, TypeOK, queueAndIndexes, Occupying, Answers
  <1>5. CASE FinishRunningTask(t)
    <2>1. latest \in [Keys -> Nat \cup {NoGeneration}] BY DEF TypeOK
    <2>2. /\ TaskIdsWithout({t}) \in [Keys -> SUBSET Tasks]
          /\ GenerationsWithout({t}, latest) \in [Keys -> Nat \cup {NoGeneration}]
          /\ StatusWithout({t}) \in [Tasks -> {"absent", "Queued", "Running"}]
      BY <2>1, RemovalTypes
    <2>3. active' \in [Lanes -> Nat] BY <1>5, CountingType DEF FinishRunningTask, ReleaseSlot, TypeOK
    <2>4. telemetry' \in [Counters -> Nat] BY <1>5, CountingType DEF FinishRunningTask, TypeOK
    <2>5. worker' \in [Tasks -> Occupying \cup {"none", "done"}]
      BY <1>5 DEF FinishRunningTask, TypeOK
    <2> QED BY <1>5, <2>2, <2>3, <2>4, <2>5 DEF FinishRunningTask, TypeOK
  <1> QED BY <1>1, <1>2, <1>3, <1>4, <1>5 DEF WorkerStep

LEMMA TypeInit == Init => TypeOK
  BY DEF Init, TypeOK, NoRequest, Answers, Results, NoGeneration

LEMMA TypeNext == TypeOK /\ [Next]_vars => TypeOK'
  <1> SUFFICES ASSUME TypeOK, [Next]_vars PROVE TypeOK'
    OBVIOUS
  <1>1. ASSUME NEW c \in Callers, NEW t \in Tasks, Submit(c, t) PROVE TypeOK'
    <2>1. \A r \in RequestsOf[t] : r \in NativeTaskRequest BY RequestsAssumption
    <2> QED BY <1>1, <2>1, TypeSubmit DEF Submit
  <1>2. ASSUME NEW c \in Callers, NEW t \in Tasks, Cancel(c, t) PROVE TypeOK'
    BY <1>2, TypeCancelTokens DEF Cancel, RelatedTo, Recorded
  <1>3. ASSUME NEW c \in Callers, NEW t \in Tasks, CompleteQueuedCancelled(c, t) PROVE TypeOK'
    BY <1>3 DEF CompleteQueuedCancelled, TypeOK, Answers, Results
  <1>4. ASSUME NEW c \in Callers, NEW k \in Keys, CancelWorkKey(c, k) PROVE TypeOK'
    BY <1>4, TypeCancelTokens DEF CancelWorkKey, Recorded
  <1>5. ASSUME NEW th \in Callers \cup Tasks, Dispatch(th) PROVE TypeOK'
    <2>1. CASE DispatchNext(th)
      <3>1. active' \in [Lanes -> Nat] BY <2>1, CountingType DEF DispatchNext, TypeOK
      <3>2. /\ queue' \subseteq Tasks
            /\ status' \in [Tasks -> {"absent", "Queued", "Running"}]
            /\ worker' \in [Tasks -> Occupying \cup {"none", "done"}]
        BY <2>1 DEF DispatchNext, TypeOK, Occupying
      <3> QED BY <2>1, <3>1, <3>2 DEF DispatchNext, TypeOK
    <2>2. CASE DispatchDone(th) BY <2>2 DEF DispatchDone, TypeOK
    <2> QED BY <1>5, <2>1, <2>2 DEF Dispatch
  <1>6. ASSUME NEW t \in Tasks, WorkerStep(t) PROVE TypeOK'
    BY <1>6, TypeWorkerStep
  <1>7. CASE UNCHANGED vars BY <1>7 DEF vars, TypeOK
  <1> QED BY <1>1, <1>2, <1>3, <1>4, <1>5, <1>6, <1>7 DEF Next

\* The state of the task graph is always well typed.
THEOREM TypeCorrect == Spec => []TypeOK
  BY TypeInit, TypeNext, PTL DEF Spec

-----------------------------------------------------------------------------
(* The inductive invariant: where a task is recorded agrees with where it is, *)
(* and a task that was never submitted has left no trace.                     *)

Untouched(t) == /\ status[t] = "absent" /\ ~cancelled[t] /\ worker[t] = "none"
                /\ answer[t] # "dropped"

Placed ==
  \A t \in Tasks :
     /\ status[t] = "Queued" <=> t \in queue
     /\ status[t] = "Running" <=> worker[t] \in Occupying
     /\ request[t] \in NativeTaskRequest \/ Untouched(t)

IInv == /\ TypeOK /\ Placed /\ QueuedNeverCancelled /\ LaneCapsHold /\ QueueBounded
        /\ NoLostWakeup /\ NoAnswerDropped

LEMMA NoRequestIsNone == NoRequest \notin NativeTaskRequest
  <1> SUFFICES ASSUME NoRequest \in NativeTaskRequest PROVE FALSE
    OBVIOUS
  <1>1. DOMAIN NoRequest = {"lane"} BY DEF NoRequest
  <1>2. "workKey" \in DOMAIN NoRequest BY DEF NativeTaskRequest
  <1> QED BY <1>1, <1>2

\* A task that is still to be submitted is untouched.
LEMMA FreshIsUntouched ==
  ASSUME Placed, NEW t \in Tasks, request[t] = NoRequest
  PROVE  Untouched(t)
  BY NoRequestIsNone DEF Placed

LEMMA StaleAreRecorded ==
  ASSUME TypeOK, NEW r \in NativeTaskRequest, NEW t \in StaleTasks(r)
  PROVE  t \in Tasks /\ status[t] # "absent"
  BY StaleAreTasks DEF StaleTasks

LEMMA PlacedInit == Init => Placed
  BY DEF Init, Placed, Untouched, Occupying

LEMMA PlacedNext == TypeOK /\ Placed /\ [Next]_vars => Placed'
  <1> SUFFICES ASSUME TypeOK, Placed, [Next]_vars PROVE Placed'
    OBVIOUS
  <1>1. ASSUME NEW c \in Callers, NEW t \in Tasks, NEW r \in NativeTaskRequest,
               SubmitRejected(c, t, r)
        PROVE  Placed'
    <2>1. Untouched(t) BY <1>1, FreshIsUntouched DEF SubmitRejected
    <2> QED BY <1>1, <2>1, StaleAreRecorded
          DEF SubmitRejected, Placed, Untouched, StatusWithout, TokensAfter, RemovedBy,
              TypeOK, Occupying
  <1>2. ASSUME NEW c \in Callers, NEW t \in Tasks, NEW r \in NativeTaskRequest,
               SubmitQueued(c, t, r)
        PROVE  Placed'
    <2>1. Untouched(t) BY <1>2, FreshIsUntouched DEF SubmitQueued
    <2> QED BY <1>2, <2>1, StaleAreRecorded
          DEF SubmitQueued, Accept, Placed, Untouched, StatusWithout, TokensAfter,
              RemovedBy, TypeOK, Occupying
  <1>3. ASSUME NEW c \in Callers, NEW t \in Tasks, NEW r \in NativeTaskRequest,
               SubmitUnqueued(c, t, r)
        PROVE  Placed'
    <2>1. Untouched(t) BY <1>3, FreshIsUntouched DEF SubmitUnqueued
    <2> QED BY <1>3, <2>1, StaleAreRecorded
          DEF SubmitUnqueued, Accept, Placed, Untouched, StatusWithout, TokensAfter,
              RemovedBy, TypeOK, Occupying
  <1>4. ASSUME NEW c \in Callers, NEW S \in SUBSET Recorded, CancelTokens(c, S)
        PROVE  Placed'
    BY <1>4 DEF CancelTokens, Placed, Untouched, StatusWithout, TokensAfter, RemovedBy,
                Recorded, TypeOK, Occupying
  <1>5. ASSUME NEW c \in Callers, NEW t \in Tasks, CompleteQueuedCancelled(c, t)
        PROVE  Placed'
    BY <1>5 DEF CompleteQueuedCancelled, Placed, Untouched, TypeOK
  <1>6. ASSUME NEW th \in Callers \cup Tasks, Dispatch(th) PROVE Placed'
    BY <1>6 DEF Dispatch, DispatchNext, DispatchDone, Placed, Untouched, TypeOK, Occupying
  <1>7. ASSUME NEW t \in Tasks, WorkerStep(t) PROVE Placed'
    <2>1. worker[t] # "none" => request[t] \in NativeTaskRequest BY DEF Placed, Untouched
    <2>2. CASE WorkerStarts(t)
      BY <2>1, <2>2 DEF WorkerStarts, queueAndIndexes, Placed, Untouched, TypeOK, Occupying
    <2>3. ASSUME NEW result \in Results, WorkReturns(t, result) PROVE Placed'
      BY <2>1, <2>3 DEF WorkReturns, queueAndIndexes, Placed, Untouched, TypeOK, Occupying
    <2>4. CASE AsyncWorkPanics(t)
      BY <2>1, <2>4 DEF AsyncWorkPanics, queueAndIndexes, Placed, Untouched, TypeOK, Occupying
    <2>5. CASE SendTaskResult(t)
      BY <2>1, <2>5 DEF SendTaskResult, queueAndIndexes, Placed, Untouched, TypeOK, Occupying
    <2>6. CASE FinishRunningTask(t)
      BY <2>1, <2>6 DEF FinishRunningTask, StatusWithout, Placed, Untouched, TypeOK, Occupying
    <2> QED BY <1>7, <2>2, <2>3, <2>4, <2>5, <2>6 DEF WorkerStep
  <1>8. CASE UNCHANGED vars BY <1>8 DEF vars, Placed, Untouched
  <1>9. \A t \in Tasks : \A r \in RequestsOf[t] : r \in NativeTaskRequest
    BY RequestsAssumption
  <1>10. ASSUME NEW c \in Callers, NEW t \in Tasks, Submit(c, t) PROVE Placed'
    BY <1>1, <1>2, <1>3, <1>9, <1>10 DEF Submit
  <1>11. ASSUME NEW c \in Callers, NEW t \in Tasks, Cancel(c, t) PROVE Placed'
    BY <1>4, <1>11 DEF Cancel, RelatedTo
  <1>12. ASSUME NEW c \in Callers, NEW k \in Keys, CancelWorkKey(c, k) PROVE Placed'
    BY <1>4, <1>12 DEF CancelWorkKey
  <1> QED BY <1>5, <1>6, <1>7, <1>8, <1>10, <1>11, <1>12 DEF Next

-----------------------------------------------------------------------------
LEMMA QueuedNeverCancelledNext ==
  TypeOK /\ Placed /\ QueuedNeverCancelled /\ [Next]_vars => QueuedNeverCancelled'
  <1> SUFFICES ASSUME TypeOK, Placed, QueuedNeverCancelled, [Next]_vars
               PROVE  QueuedNeverCancelled'
    OBVIOUS
  <1>1. ASSUME NEW c \in Callers, NEW t \in Tasks, Submit(c, t)
        PROVE  QueuedNeverCancelled'
    <2>1. PICK r \in RequestsOf[t] :
            SubmitRejected(c, t, r) \/ SubmitQueued(c, t, r) \/ SubmitUnqueued(c, t, r)
      BY <1>1 DEF Submit
    <2>2. r \in NativeTaskRequest BY RequestsAssumption
    <2>3. Untouched(t) /\ t \notin StaleTasks(r)
      <3>1. request[t] = NoRequest
        BY <2>1 DEF SubmitRejected, SubmitQueued, SubmitUnqueued
      <3> QED BY <2>2, <3>1, FreshIsUntouched, StaleAreRecorded DEF Untouched
    <2> QED BY <2>1, <2>3 DEF SubmitRejected, SubmitQueued, SubmitUnqueued, Accept,
                  QueuedNeverCancelled, TokensAfter, RemovedBy, Untouched, TypeOK
  <1>2. ASSUME NEW c \in Callers, NEW S, CancelTokens(c, S) PROVE QueuedNeverCancelled'
    BY <1>2 DEF CancelTokens, QueuedNeverCancelled, TokensAfter, RemovedBy, TypeOK
  <1>3. ASSUME NEW th \in Callers \cup Tasks, Dispatch(th) PROVE QueuedNeverCancelled'
    BY <1>3 DEF Dispatch, DispatchNext, DispatchDone, QueuedNeverCancelled
  <1>4. ASSUME queue' = queue, cancelled' = cancelled PROVE QueuedNeverCancelled'
    BY <1>4 DEF QueuedNeverCancelled
  <1>5. ASSUME NEW c \in Callers, NEW t \in Tasks, CompleteQueuedCancelled(c, t)
        PROVE  QueuedNeverCancelled'
    BY <1>4, <1>5 DEF CompleteQueuedCancelled
  <1>6. ASSUME NEW t \in Tasks, WorkerStep(t) PROVE QueuedNeverCancelled'
    BY <1>4, <1>6 DEF WorkerStep, WorkerStarts, WorkReturns, AsyncWorkPanics,
                      SendTaskResult, FinishRunningTask, queueAndIndexes
  <1> QED BY <1>1, <1>2, <1>3, <1>4, <1>5, <1>6 DEF Next, Cancel, CancelWorkKey, vars

-----------------------------------------------------------------------------
\* Below the bound before a push, within it after.
LEMMA QueueBoundedNext ==
  TypeOK /\ QueueBounded /\ [Next]_vars => QueueBounded'
  <1> SUFFICES ASSUME TypeOK, QueueBounded, [Next]_vars PROVE QueueBounded'
    OBVIOUS
  <1>1. queue \subseteq Tasks /\ IsFiniteSet(queue) /\ Cardinality(queue) \in Nat
    BY TaskSetsAreFinite DEF TypeOK
  <1>2. ASSUME queue' \subseteq queue PROVE QueueBounded'
    <2>1. Cardinality(queue') <= Cardinality(queue) /\ Cardinality(queue') \in Nat
      BY <1>1, <1>2, FS_Subset, TaskSetsAreFinite
    <2> QED BY <1>1, <2>1, PolicyAssumption DEF QueueBounded
  <1>3. ASSUME NEW c \in Callers, NEW t \in Tasks, NEW r, SubmitQueued(c, t, r)
        PROVE  QueueBounded'
    <2> DEFINE kept == queue \ RemovedBy(StaleTasks(r))
    <2>1. IsFiniteSet(kept) /\ Cardinality(kept) \in Nat
      BY <1>1, TaskSetsAreFinite
    <2>2. Cardinality(kept) < MaxQueuedTasks
      BY <1>3, <2>1, PolicyAssumption DEF SubmitQueued, QueueFull
    <2>3. queue' = kept \cup {t} BY <1>3 DEF SubmitQueued
    <2> HIDE DEF kept
    <2>4. Cardinality(queue') = IF t \in kept THEN Cardinality(kept) ELSE Cardinality(kept) + 1
      BY <2>1, <2>3, FS_AddElement
    <2>5. Cardinality(queue') \in Nat
      BY <2>1, <2>4
    <2> QED BY <2>1, <2>2, <2>4, <2>5, PolicyAssumption DEF QueueBounded
  <1>4. ASSUME NEW c \in Callers, NEW t \in Tasks, Submit(c, t) PROVE QueueBounded'
    BY <1>2, <1>3, <1>4 DEF Submit, SubmitRejected, SubmitUnqueued
  <1>5. ASSUME NEW c \in Callers, NEW S, CancelTokens(c, S) PROVE QueueBounded'
    BY <1>2, <1>5 DEF CancelTokens
  <1>6. ASSUME NEW th \in Callers \cup Tasks, Dispatch(th) PROVE QueueBounded'
    BY <1>2, <1>6 DEF Dispatch, DispatchNext, DispatchDone
  <1>7. ASSUME NEW t \in Tasks, WorkerStep(t) PROVE QueueBounded'
    BY <1>2, <1>7 DEF WorkerStep, WorkerStarts, WorkReturns, AsyncWorkPanics,
                      SendTaskResult, FinishRunningTask, queueAndIndexes
  <1>8. ASSUME NEW c \in Callers, NEW t \in Tasks, CompleteQueuedCancelled(c, t)
        PROVE  QueueBounded'
    BY <1>2, <1>8 DEF CompleteQueuedCancelled
  <1> QED BY <1>2, <1>4, <1>5, <1>6, <1>7, <1>8 DEF Next, Cancel, CancelWorkKey, vars

\* A full queue has nothing to sweep: removing one task would have made room.
LEMMA RejectionRemovesNothing ==
  ASSUME TypeOK, QueueBounded, NEW r, QueueFull(r)
  PROVE  RemovedBy(StaleTasks(r)) = {}
  <1> DEFINE removed == RemovedBy(StaleTasks(r))
  <1> SUFFICES ASSUME NEW u \in removed PROVE FALSE
    OBVIOUS
  <1>1. u \in queue BY RemovedFromQueue
  <1>2. IsFiniteSet(queue) /\ Cardinality(queue) \in Nat
    BY TaskSetsAreFinite DEF TypeOK
  <1>3. Cardinality(queue \ {u}) = Cardinality(queue) - 1
    BY <1>1, <1>2, FS_RemoveElement
  <1>4. /\ Cardinality(queue \ removed) <= Cardinality(queue \ {u})
        /\ Cardinality(queue \ removed) \in Nat
    <2>1. queue \ removed \in SUBSET (queue \ {u}) /\ IsFiniteSet(queue \ {u})
      BY <1>2, FS_RemoveElement
    <2>2. queue \ removed \subseteq Tasks BY DEF TypeOK
    <2> HIDE DEF removed
    <2> QED BY <2>1, <2>2, FS_Subset, TaskSetsAreFinite
  <1>5. Cardinality(queue \ removed) >= MaxQueuedTasks BY DEF QueueFull
  <1> HIDE DEF removed
  <1> QED BY <1>2, <1>3, <1>4, <1>5, PolicyAssumption DEF QueueBounded

LEMMA NoAnswerDroppedNext ==
  TypeOK /\ Placed /\ QueueBounded /\ NoAnswerDropped /\ [Next]_vars => NoAnswerDropped'
  <1> SUFFICES ASSUME TypeOK, Placed, QueueBounded, NoAnswerDropped, [Next]_vars
               PROVE  NoAnswerDropped'
    OBVIOUS
  <1>1. ASSUME NEW c \in Callers, NEW t \in Tasks, Submit(c, t) PROVE NoAnswerDropped'
    <2>1. PICK r \in RequestsOf[t] :
            SubmitRejected(c, t, r) \/ SubmitQueued(c, t, r) \/ SubmitUnqueued(c, t, r)
      BY <1>1 DEF Submit
    <2>2. CASE SubmitRejected(c, t, r)
      <3>1. RemovedBy(StaleTasks(r)) = {}
        BY <2>2, RejectionRemovesNothing DEF SubmitRejected
      <3> QED BY <2>2, <3>1 DEF SubmitRejected, NoAnswerDropped
    <2>3. CASE SubmitQueued(c, t, r)
      BY <2>3 DEF SubmitQueued, Accept, NoAnswerDropped
    <2>4. CASE SubmitUnqueued(c, t, r)
      <3>1. Untouched(t) BY <2>4, FreshIsUntouched DEF SubmitUnqueued
      <3> QED BY <2>4, <3>1 DEF SubmitUnqueued, Accept, NoAnswerDropped, Untouched, TypeOK
    <2> QED BY <2>1, <2>2, <2>3, <2>4
  <1>2. ASSUME NEW c \in Callers, NEW S, CancelTokens(c, S) PROVE NoAnswerDropped'
    BY <1>2 DEF CancelTokens, NoAnswerDropped
  <1>3. ASSUME NEW th \in Callers \cup Tasks, Dispatch(th) PROVE NoAnswerDropped'
    <2>1. \A t \in queue : worker[t] # "crashed"
      BY DEF Placed, TypeOK, Occupying
    <2> QED BY <1>3, <2>1 DEF Dispatch, DispatchNext, DispatchDone, NoAnswerDropped, TypeOK
  <1>4. ASSUME NEW t \in Tasks, WorkerStep(t) PROVE NoAnswerDropped'
    BY <1>4 DEF WorkerStep, WorkerStarts, WorkReturns, AsyncWorkPanics, SendTaskResult,
                FinishRunningTask, queueAndIndexes, NoAnswerDropped, TypeOK, Results
  <1>5. ASSUME NEW c \in Callers, NEW t \in Tasks, CompleteQueuedCancelled(c, t)
        PROVE  NoAnswerDropped'
    BY <1>5 DEF CompleteQueuedCancelled, NoAnswerDropped, TypeOK
  <1>6. CASE UNCHANGED vars BY <1>6 DEF vars, NoAnswerDropped
  <1> QED BY <1>1, <1>2, <1>3, <1>4, <1>5, <1>6 DEF Next, Cancel, CancelWorkKey

-----------------------------------------------------------------------------
\* pop_next_ready finds a task whenever there is one to find.
LEMMA SmallestOfNaturals ==
  ASSUME NEW T \in SUBSET Nat, T # {}
  PROVE  \E x \in T : \A y \in T : x <= y
  <1>1. PICK x \in T : \A y \in T : ~ (<<y, x>> \in OpToRel(<, Nat))
    BY NatLessThanWellFounded, WFMin
  <1>2. \A y \in T : ~(y < x) BY <1>1 DEF OpToRel
  <1> QED BY <1>2

LEMMA PopFindsReady ==
  ASSUME TypeOK, Placed, Ready # {}
  PROVE  \E t \in queue : PopNextReady(t)
  <1>1. \A t \in queue : request[t] \in NativeTaskRequest /\ request[t].priority \in Nat
    BY DEF Placed, Untouched, TypeOK, NativeTaskRequest, Priorities
  <1>2. \A t \in queue : sequence[t] + 1 \in Nat
    BY DEF TypeOK
  <1>3. Ready \subseteq queue BY DEF Ready
  <1> DEFINE P == {request[t].priority : t \in Ready}
  <1>4. PICK p \in P : \A q \in P : p <= q
    BY <1>1, <1>3, SmallestOfNaturals
  <1> DEFINE Q == {sequence[t] + 1 : t \in {u \in Ready : request[u].priority = p}}
  <1>5. PICK m \in Q : \A n \in Q : m <= n
    BY <1>2, <1>3, <1>4, SmallestOfNaturals
  <1>6. PICK t \in Ready : request[t].priority = p /\ sequence[t] + 1 = m
    BY <1>5
  <1>7. ASSUME NEW u \in Ready PROVE Precedes(t, u)
    <2>1. request[u].priority \in Nat /\ p \in Nat /\ p <= request[u].priority
      BY <1>1, <1>3, <1>4
    <2>2. CASE request[u].priority = p
      <3>1. sequence[u] + 1 \in Q BY <2>2
      <3>2. m <= sequence[u] + 1 BY <1>5, <3>1
      <3>3. sequence[t] \in Int /\ sequence[u] \in Int BY <1>3 DEF TypeOK
      <3>4. sequence[t] <= sequence[u] BY <1>6, <3>2, <3>3
      <3> QED BY <1>6, <2>2, <3>4 DEF Precedes
    <2>3. CASE request[u].priority # p
      BY <1>6, <2>1, <2>3 DEF Precedes
    <2> QED BY <2>2, <2>3
  <1> QED BY <1>3, <1>6, <1>7 DEF PopNextReady

LEMMA NoLostWakeupNext ==
  TypeOK /\ Placed /\ NoLostWakeup /\ [Next]_vars => NoLostWakeup'
  <1> SUFFICES ASSUME TypeOK, Placed, NoLostWakeup, [Next]_vars PROVE NoLostWakeup'
    OBVIOUS
  <1>1. ASSUME dispatching' # {} PROVE NoLostWakeup'
    BY <1>1 DEF NoLostWakeup
  <1>2. ASSUME dispatching' = dispatching, Ready' \subseteq Ready PROVE NoLostWakeup'
    BY <1>2 DEF NoLostWakeup
  <1>3. ASSUME NEW c \in Callers, NEW t \in Tasks, Submit(c, t) PROVE NoLostWakeup'
    <2>1. PICK r \in RequestsOf[t] :
            SubmitRejected(c, t, r) \/ SubmitQueued(c, t, r) \/ SubmitUnqueued(c, t, r)
      BY <1>3 DEF Submit
    <2>2. CASE SubmitRejected(c, t, r)
      <3>1. Untouched(t) BY <2>2, FreshIsUntouched DEF SubmitRejected
      <3>2. t \notin queue BY <3>1 DEF Placed, Untouched
      <3>3. Ready' \subseteq Ready
        BY <2>2, <3>2 DEF SubmitRejected, Ready, HasSpareSlot, Lane, TypeOK
      <3> QED BY <1>2, <2>2, <3>3 DEF SubmitRejected
    <2>3. CASE Accept(c, t, r) BY <1>1, <2>3 DEF Accept
    <2> QED BY <2>1, <2>2, <2>3 DEF SubmitQueued, SubmitUnqueued
  <1>4. ASSUME NEW c \in Callers, NEW S, CancelTokens(c, S) PROVE NoLostWakeup'
    BY <1>1, <1>4 DEF CancelTokens
  <1>5. ASSUME NEW th \in Callers \cup Tasks, Dispatch(th) PROVE NoLostWakeup'
    <2>1. CASE DispatchNext(th)
      BY <1>1, <2>1 DEF DispatchNext, MayDispatch
    <2>2. CASE DispatchDone(th)
      <3>1. Ready = {} BY <2>2, PopFindsReady DEF DispatchDone
      <3>2. Ready' = Ready BY <2>2 DEF DispatchDone, Ready, HasSpareSlot, Lane
      <3> QED BY <3>1, <3>2 DEF NoLostWakeup
    <2> QED BY <1>5, <2>1, <2>2 DEF Dispatch
  <1>6. ASSUME NEW t \in Tasks, WorkerStep(t) PROVE NoLostWakeup'
    <2>1. CASE FinishRunningTask(t) BY <1>1, <2>1 DEF FinishRunningTask
    <2>2. ASSUME UNCHANGED queueAndIndexes PROVE NoLostWakeup'
      BY <1>2, <2>2 DEF queueAndIndexes, Ready, HasSpareSlot, Lane
    <2> QED BY <1>6, <2>1, <2>2
          DEF WorkerStep, WorkerStarts, WorkReturns, AsyncWorkPanics, SendTaskResult
  <1>7. ASSUME NEW c \in Callers, NEW t \in Tasks, CompleteQueuedCancelled(c, t)
        PROVE  NoLostWakeup'
    BY <1>2, <1>7 DEF CompleteQueuedCancelled, Ready, HasSpareSlot, Lane
  <1>8. CASE UNCHANGED vars
    BY <1>2, <1>8 DEF vars, Ready, HasSpareSlot, Lane
  <1> QED BY <1>3, <1>4, <1>5, <1>6, <1>7, <1>8 DEF Next, Cancel, CancelWorkKey

-----------------------------------------------------------------------------
\* One more or one fewer task in a lane moves the size of RunningIn by one.
LEMMA RunningInSizes ==
  ASSUME NEW l, NEW t \in Tasks
  PROVE  /\ IsFiniteSet(RunningIn(l)) /\ Cardinality(RunningIn(l)) \in Nat
         /\ t \notin RunningIn(l) =>
              Cardinality(RunningIn(l) \cup {t}) = Cardinality(RunningIn(l)) + 1
         /\ t \in RunningIn(l) =>
              Cardinality(RunningIn(l) \ {t}) = Cardinality(RunningIn(l)) - 1
  <1> DEFINE R == RunningIn(l)
  <1>1. IsFiniteSet(R) /\ Cardinality(R) \in Nat
    <2>1. R \subseteq Tasks BY DEF RunningIn
    <2> QED BY <2>1, TaskSetsAreFinite
  <1> HIDE DEF R
  <1>2. Cardinality(R \cup {t}) = IF t \in R THEN Cardinality(R) ELSE Cardinality(R) + 1
    BY <1>1, FS_AddElement
  <1>3. Cardinality(R \ {t}) = IF t \in R THEN Cardinality(R) - 1 ELSE Cardinality(R)
    BY <1>1, FS_RemoveElement
  <1> QED BY <1>1, <1>2, <1>3 DEF R

\* A step that takes a slot of lane l0 for t, where t held none.
LEMMA SlotTaken ==
  ASSUME TypeOK, LaneCapsHold, NEW l0 \in Lanes, NEW t \in Tasks,
         worker[t] \notin Occupying,
         worker' = [worker EXCEPT ![t] = "spawned"],
         active' = [active EXCEPT ![l0] = @ + 1],
         request'[t].lane = l0,
         \A u \in Tasks \ {t} : request'[u] = request[u],
         Enabled => active[l0] < LaneConcurrency[l0]
  PROVE  LaneCapsHold'
  <1> SUFFICES ASSUME NEW l \in Lanes
               PROVE  /\ active'[l] = Cardinality(RunningIn(l)')
                      /\ Enabled => active'[l] <= LaneConcurrency[l]
    BY DEF LaneCapsHold
  <1>1. active[l] = Cardinality(RunningIn(l)) /\ (Enabled => active[l] <= LaneConcurrency[l])
    BY DEF LaneCapsHold
  <1>2. t \notin RunningIn(l) BY DEF RunningIn
  <1>3. CASE l = l0
    <2>1. RunningIn(l)' = RunningIn(l) \cup {t}
      BY <1>3 DEF RunningIn, Lane, TypeOK, Occupying
    <2>2. Cardinality(RunningIn(l)') = active[l] + 1
      BY <1>1, <1>2, <2>1, RunningInSizes
    <2>3. active'[l] = active[l] + 1 BY <1>3 DEF TypeOK
    <2>4. active[l] \in Nat /\ LaneConcurrency[l] \in Nat
      BY PolicyAssumption DEF TypeOK
    <2> QED BY <1>3, <2>2, <2>3, <2>4
  <1>4. CASE l # l0
    <2>1. RunningIn(l)' = RunningIn(l)
      BY <1>4 DEF RunningIn, Lane, TypeOK, Occupying
    <2> QED BY <1>1, <1>4, <2>1 DEF TypeOK
  <1> QED BY <1>3, <1>4

\* A step after which every slot holder holds the same slot as before.
LEMMA SlotsKept ==
  ASSUME LaneCapsHold, active' = active,
         \A u \in Tasks : worker'[u] \in Occupying <=> worker[u] \in Occupying,
         \A u \in Tasks : worker[u] \in Occupying => request'[u] = request[u]
  PROVE  LaneCapsHold'
  <1>1. \A l : RunningIn(l)' = RunningIn(l) BY DEF RunningIn, Lane
  <1> QED BY <1>1 DEF LaneCapsHold

LEMMA LaneCapsNext ==
  TypeOK /\ Placed /\ LaneCapsHold /\ [Next]_vars => LaneCapsHold'
  <1> SUFFICES ASSUME TypeOK, Placed, LaneCapsHold, [Next]_vars PROVE LaneCapsHold'
    OBVIOUS
  <1>1. ASSUME NEW c \in Callers, NEW t \in Tasks, Submit(c, t) PROVE LaneCapsHold'
    <2>1. PICK r \in RequestsOf[t] :
            SubmitRejected(c, t, r) \/ SubmitQueued(c, t, r) \/ SubmitUnqueued(c, t, r)
      BY <1>1 DEF Submit
    <2>2. r \in NativeTaskRequest BY RequestsAssumption
    <2>3. Untouched(t) /\ worker[t] \notin Occupying
      <3>1. request[t] = NoRequest
        BY <2>1 DEF SubmitRejected, SubmitQueued, SubmitUnqueued
      <3> QED BY <3>1, FreshIsUntouched DEF Untouched, Occupying
    <2>4. request' = [request EXCEPT ![t] = r]
      BY <2>1 DEF SubmitRejected, SubmitQueued, SubmitUnqueued, Accept
    <2>5. CASE SubmitUnqueued(c, t, r)
      <3>1. r.lane \in Lanes BY <2>2 DEF NativeTaskRequest
      <3>2. request'[t].lane = r.lane /\ \A u \in Tasks \ {t} : request'[u] = request[u]
        BY <2>4 DEF TypeOK
      <3>3. /\ ~Enabled
            /\ worker' = [worker EXCEPT ![t] = "spawned"]
            /\ active' = [active EXCEPT ![r.lane] = @ + 1]
        BY <2>5 DEF SubmitUnqueued
      <3> QED BY <2>3, <3>1, <3>2, <3>3, SlotTaken
    <2>6. CASE ~SubmitUnqueued(c, t, r)
      <3>1. active' = active /\ worker' = worker
        BY <2>1, <2>6 DEF SubmitRejected, SubmitQueued
      <3>2. \A u \in Tasks : worker[u] \in Occupying => request'[u] = request[u]
        BY <2>3, <2>4 DEF TypeOK
      <3> QED BY <3>1, <3>2, SlotsKept
    <2> QED BY <2>5, <2>6
  <1>2. ASSUME NEW c \in Callers, NEW S, CancelTokens(c, S) PROVE LaneCapsHold'
    BY <1>2, SlotsKept DEF CancelTokens
  <1>3. ASSUME NEW th \in Callers \cup Tasks, Dispatch(th) PROVE LaneCapsHold'
    <2>1. CASE DispatchNext(th)
      <3>1. PICK t \in queue :
              /\ PopNextReady(t)
              /\ active' = [active EXCEPT ![Lane(t)] = @ + 1]
              /\ worker' = [worker EXCEPT ![t] = "spawned"]
        BY <2>1 DEF DispatchNext
      <3>2. t \in Tasks /\ worker[t] \notin Occupying /\ request[t] \in NativeTaskRequest
        BY DEF Placed, Untouched, TypeOK
      <3>3. Lane(t) \in Lanes BY <3>2 DEF Lane, NativeTaskRequest
      <3>4. active[Lane(t)] < LaneConcurrency[Lane(t)]
        BY <3>1 DEF PopNextReady, Ready, HasSpareSlot
      <3>5. request' = request BY <2>1 DEF DispatchNext
      <3> QED BY <3>1, <3>2, <3>3, <3>4, <3>5, SlotTaken DEF Lane
    <2>2. CASE DispatchDone(th) BY <2>2, SlotsKept DEF DispatchDone
    <2> QED BY <1>3, <2>1, <2>2 DEF Dispatch
  <1>4. ASSUME NEW t \in Tasks, WorkerStep(t) PROVE LaneCapsHold'
    <2>1. CASE FinishRunningTask(t)
      <3> SUFFICES ASSUME NEW l \in Lanes
                   PROVE  /\ active'[l] = Cardinality(RunningIn(l)')
                          /\ Enabled => active'[l] <= LaneConcurrency[l]
        BY DEF LaneCapsHold
      <3>1. /\ active[l] = Cardinality(RunningIn(l))
            /\ Enabled => active[l] <= LaneConcurrency[l]
            /\ active[l] \in Nat /\ LaneConcurrency[l] \in Nat
        BY PolicyAssumption DEF LaneCapsHold, TypeOK
      <3>2. /\ worker[t] \in Occupying /\ request' = request
            /\ worker' = [worker EXCEPT ![t] = "done"]
            /\ active' = [active EXCEPT ![Lane(t)] = IF @ = 0 THEN 0 ELSE @ - 1]
        BY <2>1 DEF FinishRunningTask, ReleaseSlot, Occupying
      <3>3. CASE l = Lane(t)
        <4>1. t \in RunningIn(l) BY <3>2, <3>3 DEF RunningIn
        <4>2. RunningIn(l)' = RunningIn(l) \ {t}
          BY <3>2 DEF RunningIn, Lane, TypeOK, Occupying
        <4>3. Cardinality(RunningIn(l)') = active[l] - 1
          BY <3>1, <4>1, <4>2, RunningInSizes
        <4>4. Cardinality(RunningIn(l)') \in Nat
          <5>1. RunningIn(l) \ {t} \subseteq Tasks BY DEF RunningIn
          <5> QED BY <4>2, <5>1, TaskSetsAreFinite
        <4>5. active'[l] = active[l] - 1 BY <3>1, <3>2, <3>3, <4>3, <4>4 DEF TypeOK
        <4> QED BY <3>1, <4>3, <4>5
      <3>4. CASE l # Lane(t)
        <4>1. RunningIn(l)' = RunningIn(l)
          BY <3>2, <3>4 DEF RunningIn, Lane, TypeOK, Occupying
        <4> QED BY <3>1, <3>2, <3>4, <4>1 DEF TypeOK
      <3> QED BY <3>3, <3>4
    <2>2. ASSUME UNCHANGED queueAndIndexes, NEW x \in Occupying, worker[t] \in Occupying,
                 worker' = [worker EXCEPT ![t] = x]
          PROVE  LaneCapsHold'
      BY <2>2, SlotsKept DEF queueAndIndexes, TypeOK
    <2> QED BY <1>4, <2>1, <2>2
          DEF WorkerStep, WorkerStarts, WorkReturns, AsyncWorkPanics, SendTaskResult, Occupying
  <1>5. ASSUME NEW c \in Callers, NEW t \in Tasks, CompleteQueuedCancelled(c, t)
        PROVE  LaneCapsHold'
    BY <1>5, SlotsKept DEF CompleteQueuedCancelled
  <1>6. CASE UNCHANGED vars BY <1>6, SlotsKept DEF vars
  <1> QED BY <1>1, <1>2, <1>3, <1>4, <1>5, <1>6 DEF Next, Cancel, CancelWorkKey

-----------------------------------------------------------------------------
LEMMA IInvInit == Init => IInv
  <1> SUFFICES ASSUME Init PROVE IInv
    OBVIOUS
  <1>1. QueuedNeverCancelled /\ NoLostWakeup /\ NoAnswerDropped
    BY DEF Init, QueuedNeverCancelled, NoLostWakeup, NoAnswerDropped, Ready
  <1>2. QueueBounded BY FS_EmptySet, PolicyAssumption DEF Init, QueueBounded
  <1>3. LaneCapsHold
    <2>1. \A l \in Lanes : RunningIn(l) = {} BY DEF Init, RunningIn, Occupying
    <2>2. Cardinality({}) = 0 BY FS_EmptySet
    <2>3. \A l \in Lanes : active[l] = 0 /\ Cardinality(RunningIn(l)) = 0
      BY <2>1, <2>2 DEF Init
    <2>4. \A l \in Lanes : LaneConcurrency[l] \in Nat BY PolicyAssumption
    <2> QED BY <2>3, <2>4 DEF LaneCapsHold
  <1> QED BY <1>1, <1>2, <1>3, TypeInit, PlacedInit DEF IInv

LEMMA IInvNext == IInv /\ [Next]_vars => IInv'
  BY TypeNext, PlacedNext, QueuedNeverCancelledNext, LaneCapsNext, QueueBoundedNext,
     NoLostWakeupNext, NoAnswerDroppedNext DEF IInv

THEOREM Invariance == Spec => []IInv
  BY IInvInit, IInvNext, PTL DEF Spec

\* active_by_lane counts the slot holders of each lane, and no lane exceeds its cap.
THEOREM LaneCapsCorrect == Spec => []LaneCapsHold
  <1>1. IInv => LaneCapsHold BY DEF IInv
  <1> QED BY <1>1, Invariance, PTL

\* The queue stays within max_queued_tasks.
THEOREM QueueBoundCorrect == Spec => []QueueBounded
  <1>1. IInv => QueueBounded BY DEF IInv
  <1> QED BY <1>1, Invariance, PTL

\* No accepted submission loses its answer except to a panic: the early return of
\* enqueue never has a removed task in hand.
THEOREM NoAnswerDroppedCorrect == Spec => []NoAnswerDropped
  <1>1. IInv => NoAnswerDropped BY DEF IInv
  <1> QED BY <1>1, Invariance, PTL

\* A ready task always has a thread on its way to dispatch it.
THEOREM NoLostWakeupCorrect == Spec => []NoLostWakeup
  <1>1. IInv => NoLostWakeup BY DEF IInv
  <1> QED BY <1>1, Invariance, PTL

\* The queue holds no cancelled task whenever the lock is free.
THEOREM QueuedNeverCancelledCorrect == Spec => []QueuedNeverCancelled
  <1>1. IInv => QueuedNeverCancelled BY DEF IInv
  <1> QED BY <1>1, Invariance, PTL

=============================================================================
