-------------------------- MODULE NativeTaskGraph --------------------------
(***************************************************************************)
(* The bounded, prioritised executor of native background work             *)
(* (src-tauri/src/native_task_graph.rs).                                   *)
(*                                                                         *)
(* One mutex guards the priority queues, the task records, the work-key    *)
(* indexes and the per-lane active counts.  A step of this module is one   *)
(* critical section, or one effect outside the lock that another thread    *)
(* can observe: answering a waiter, a job starting or returning.  The      *)
(* threads are the Callers (command handlers that submit or cancel) and,   *)
(* once spawned, one worker per task.                                      *)
(*                                                                         *)
(* The buckets of NativeTaskPriorityQueues are kept here as the set of     *)
(* queued tasks with the sequence numbers they were given: a bucket is in  *)
(* sequence order because the number is drawn and the task pushed in one   *)
(* critical section.  NativeTaskPriorityQueues.tla has the buckets.        *)
(***************************************************************************)
EXTENDS Integers, FiniteSets

CONSTANTS
  Tasks,              \* task ids: fresh UUIDs, one submission each
  Callers,            \* threads that call submit, cancel, cancel_work_key
  Lanes, Keys,        \* NativeTaskLane, NativeTaskWorkKey
  NoTask, NoKey,      \* Option::None of a parent id, of a work key
  RequestsOf,         \* the NativeTaskRequests a task may be submitted with
  Enabled,            \* policy.enabled
  StaleCancellation,  \* policy.stale_cancellation_enabled
  MaxQueuedTasks,     \* policy.max_queued_tasks
  LaneConcurrency,    \* policy.lane_concurrency: cap of each lane
  Panics              \* whether the future of an async job may panic

NoGeneration == -1    \* Option::None of a generation
Priorities == 1..6    \* NativeTaskPriority in the order of all(): 1 is Interactive

NativeTaskRequest ==
  [lane: Lanes, priority: Priorities, workKey: Keys \cup {NoKey},
   generation: Nat \cup {NoGeneration}, cancelStale: BOOLEAN,
   parent: Tasks \cup {NoTask}, async: BOOLEAN]

ASSUME TasksAssumption == IsFiniteSet(Tasks) /\ Tasks \cap Callers = {}
ASSUME NoneAssumption == NoTask \notin Tasks /\ NoKey \notin Keys
ASSUME RequestsAssumption == RequestsOf \in [Tasks -> SUBSET NativeTaskRequest]
ASSUME PolicyAssumption ==
  /\ Enabled \in BOOLEAN /\ StaleCancellation \in BOOLEAN /\ Panics \in BOOLEAN
  /\ MaxQueuedTasks \in Nat \ {0}
  /\ LaneConcurrency \in [Lanes -> Nat]

VARIABLES
  request,     \* the request a task was submitted with
  sequence,    \* its sequence number, -1 while it has none
  queue,       \* queued tasks
  status,      \* records[id].status, "absent" without a record
  ancestors,   \* records[id].ancestor_task_ids
  cancelled,   \* the cancellation token shared by record, queue and worker
  taskIds,     \* task_ids_by_work_key, {} for no entry
  latest,      \* latest_generation_by_work_key, NoGeneration for no entry
  active,      \* active_by_lane
  nextSequence,
  telemetry,
  worker,      \* progress of the spawned worker of a task
  outcome,     \* result the worker holds
  answer,      \* what the submitter of the task received
  todo,        \* removed tasks a caller has still to answer
  dispatching  \* threads that have yet to finish dispatch_ready

vars == <<request, sequence, queue, status, ancestors, cancelled, taskIds,
          latest, active, nextSequence, telemetry, worker, outcome, answer,
          todo, dispatching>>

NoRequest == [lane |-> NoTask]  \* not submitted

Results == {"ok", "failed", "cancelled"}
\* Counters of the telemetry: accepted, per result, refused, tokens set by a sweep.
Counters == Results \cup {"queued", "rejected", "stale"}
\* "dropped": the sender was dropped, wait() reports a worker that ended early.
Answers == Results \cup {"none", "rejected", "dropped"}
\* Worker phases.  "crashed": the future panicked and finish_running_task never runs.
Occupying == {"spawned", "working", "returned", "sent", "crashed"}

Init ==
  /\ request = [t \in Tasks |-> NoRequest]
  /\ sequence = [t \in Tasks |-> -1]
  /\ queue = {}
  /\ status = [t \in Tasks |-> "absent"]
  /\ ancestors = [t \in Tasks |-> {}]
  /\ cancelled = [t \in Tasks |-> FALSE]
  /\ taskIds = [k \in Keys |-> {}]
  /\ latest = [k \in Keys |-> NoGeneration]
  /\ active = [l \in Lanes |-> 0]
  /\ nextSequence = 0
  /\ telemetry = [n \in Counters |-> 0]
  /\ worker = [t \in Tasks |-> "none"]
  /\ outcome = [t \in Tasks |-> "none"]
  /\ answer = [t \in Tasks |-> "none"]
  /\ todo = [c \in Callers |-> {}]
  /\ dispatching = {}

-----------------------------------------------------------------------------
Recorded == {t \in Tasks : status[t] # "absent"}
Lane(t) == request[t].lane
MaxGeneration(g, h) == IF g < h THEN h ELSE g

\* Tokens of the tasks in S are cancelled.
TokensAfter(S) == [t \in Tasks |-> cancelled[t] \/ t \in S]

\* Mutants: tokens read before they are set; running tasks removed as well.
RemovedByOldTokens(S) == {t \in queue : cancelled[t]}
RemovedWithRunning(S) == {t \in Recorded : cancelled[t] \/ t \in S}

\* remove_cancelled_queued_tasks, once the tokens of S are cancelled.
RemovedBy(S) == {t \in queue : cancelled[t] \/ t \in S}

\* remove_record for every task of S; the last record of a key takes the
\* generation of the key (here g) with it.
TaskIdsWithout(S) == [k \in Keys |-> taskIds[k] \ S]
\* Mutant: the generation goes with any record of the key.
GenerationsForgotten(S, g) ==
  [k \in Keys |-> IF taskIds[k] \cap S # {} THEN NoGeneration ELSE g[k]]
GenerationsWithout(S, g) ==
  [k \in Keys |-> IF taskIds[k] \cap S # {} /\ taskIds[k] \subseteq S
                  THEN NoGeneration ELSE g[k]]
\* Mutant: the record stays in the map.
StatusKept(S) == status
StatusWithout(S) == [t \in Tasks |-> IF t \in S THEN "absent" ELSE status[t]]

\* cancel_stale_tasks_for_request runs for a request with a key and a generation.
Sweeps(r) == /\ StaleCancellation
             /\ r.cancelStale
             /\ r.workKey # NoKey
             /\ r.generation # NoGeneration

LatestSeen(r) ==
  IF Sweeps(r)
  THEN [latest EXCEPT ![r.workKey] = MaxGeneration(@, r.generation)]
  ELSE latest

\* Mutant: running tasks are not stale.
StaleQueuedTasks(r) ==
  IF Sweeps(r) /\ r.generation > latest[r.workKey]
  THEN {t \in taskIds[r.workKey] :
          status[t] = "Queued" /\ MaxGeneration(request[t].generation, 0) < r.generation}
  ELSE {}

\* The tasks whose token it cancels; no generation counts as generation 0.
StaleTasks(r) ==
  IF Sweeps(r) /\ r.generation > latest[r.workKey]
  THEN {t \in taskIds[r.workKey] :
          /\ status[t] \in {"Queued", "Running"}
          /\ MaxGeneration(request[t].generation, 0) < r.generation
          /\ ~cancelled[t]}
  ELSE {}

\* Mutants: the parent is not an Option; only the parent is kept.
AncestorsWithNone(r) ==
  {r.parent} \cup (IF r.parent \in Recorded THEN ancestors[r.parent] ELSE {})
ParentOnly(r) == {r.parent} \ {NoTask}

AncestorsFor(r) ==
  IF r.parent = NoTask THEN {}
  ELSE {r.parent} \cup
       (IF r.parent \in Recorded THEN ancestors[r.parent] ELSE {})

Idle(c) == c \notin dispatching

\* Mutants: the bound is checked before the sweep; the bound is off by one.
QueueFullBeforeSweep(r) == Enabled /\ Cardinality(queue) >= MaxQueuedTasks
QueueOverFull(r) ==
  Enabled /\ Cardinality(queue \ RemovedBy(StaleTasks(r))) > MaxQueuedTasks

QueueFull(r) == Enabled /\ Cardinality(queue \ RemovedBy(StaleTasks(r))) >= MaxQueuedTasks

-----------------------------------------------------------------------------
\* enqueue, refused: the tasks the sweep removed are dropped with the call, and
\* dispatch_ready is not reached.
SubmitRejected(c, t, r) ==
  /\ Idle(c) /\ request[t] = NoRequest
  /\ QueueFull(r)
  /\ LET stale == StaleTasks(r)
         removed == RemovedBy(stale)
     IN /\ request' = [request EXCEPT ![t] = r]
        /\ cancelled' = TokensAfter(stale)
        /\ queue' = queue \ removed
        /\ status' = StatusWithout(removed)
        /\ taskIds' = TaskIdsWithout(removed)
        /\ latest' = GenerationsWithout(removed, LatestSeen(r))
        /\ answer' = [u \in Tasks |-> IF u = t THEN "rejected"
                                      ELSE IF u \in removed THEN "dropped"
                                      ELSE answer[u]]
        /\ telemetry' = [telemetry EXCEPT !["rejected"] = @ + 1,
                                          !["stale"] = @ + Cardinality(stale),
                                          !["cancelled"] = @ + Cardinality(removed)]
  /\ UNCHANGED <<sequence, ancestors, active, nextSequence, worker, outcome,
                 todo, dispatching>>

\* insert_record and the bookkeeping of an accepted request, common to both paths.
Accept(c, t, r) ==
  LET stale == StaleTasks(r)
      removed == RemovedBy(stale)
      kept == TaskIdsWithout(removed)
      generations == GenerationsWithout(removed, LatestSeen(r))
  IN /\ request' = [request EXCEPT ![t] = r]
     /\ sequence' = [sequence EXCEPT ![t] = nextSequence]
     /\ nextSequence' = nextSequence + 1
     /\ ancestors' = [ancestors EXCEPT ![t] = AncestorsFor(r)]
     /\ cancelled' = TokensAfter(stale)
     /\ taskIds' = IF r.workKey = NoKey THEN kept
                   ELSE [kept EXCEPT ![r.workKey] = @ \cup {t}]
     /\ latest' = IF r.workKey = NoKey THEN generations
                  ELSE [generations EXCEPT ![r.workKey] = MaxGeneration(@, r.generation)]
     /\ telemetry' = [telemetry EXCEPT !["queued"] = @ + 1,
                                       !["stale"] = @ + Cardinality(stale),
                                       !["cancelled"] = @ + Cardinality(removed)]
     /\ todo' = [todo EXCEPT ![c] = removed]
     /\ dispatching' = dispatching \cup {c}
     /\ UNCHANGED <<outcome, answer>>

\* enqueue with the policy enabled.
SubmitQueued(c, t, r) ==
  /\ Idle(c) /\ request[t] = NoRequest
  /\ Enabled /\ ~QueueFull(r)
  /\ Accept(c, t, r)
  /\ LET removed == RemovedBy(StaleTasks(r))
     IN /\ queue' = (queue \ removed) \cup {t}
        /\ status' = [StatusWithout(removed) EXCEPT ![t] = "Queued"]
  /\ UNCHANGED <<active, worker>>

\* enqueue with the policy disabled: marked running and spawned under the lock.
SubmitUnqueued(c, t, r) ==
  /\ Idle(c) /\ request[t] = NoRequest
  /\ ~Enabled
  /\ Accept(c, t, r)
  /\ LET removed == RemovedBy(StaleTasks(r))
     IN /\ queue' = queue \ removed
        /\ status' = [StatusWithout(removed) EXCEPT ![t] = "Running"]
  /\ active' = [active EXCEPT ![r.lane] = @ + 1]
  /\ worker' = [worker EXCEPT ![t] = "spawned"]

\* The critical section of cancel and cancel_work_key: cancel the tokens of S.
CancelTokens(c, S) ==
  LET removed == RemovedBy(S)
  IN /\ Idle(c)
     /\ cancelled' = TokensAfter(S)
     /\ queue' = queue \ removed
     /\ status' = StatusWithout(removed)
     /\ taskIds' = TaskIdsWithout(removed)
     /\ latest' = GenerationsWithout(removed, latest)
     /\ telemetry' = [telemetry EXCEPT !["cancelled"] = @ + Cardinality(removed)]
     /\ todo' = [todo EXCEPT ![c] = removed]
     /\ dispatching' = dispatching \cup {c}
     /\ UNCHANGED <<request, sequence, ancestors, active, nextSequence, worker,
                    outcome, answer>>

RelatedTo(id) ==
  {t \in Recorded : t = id \/ request[t].parent = id \/ id \in ancestors[t]}

Cancel(c, id) == CancelTokens(c, RelatedTo(id))
CancelWorkKey(c, k) == CancelTokens(c, taskIds[k] \cap Recorded)

\* complete_queued_cancelled, after the lock is released.
CompleteQueuedCancelled(c, t) ==
  /\ t \in todo[c]
  /\ todo' = [todo EXCEPT ![c] = @ \ {t}]
  /\ answer' = [answer EXCEPT ![t] = IF @ = "none" THEN "cancelled" ELSE @]
  /\ UNCHANGED <<request, sequence, queue, status, ancestors, cancelled, taskIds,
                 latest, active, nextSequence, telemetry, worker, outcome, dispatching>>

-----------------------------------------------------------------------------
\* pop_next_ready: the most urgent priority with a lane below its cap, then the
\* smallest sequence number among the heads of its lanes.
\* Mutant: a lane may exceed its cap by one.
HasSpareSlotOrOne(l) == active[l] <= LaneConcurrency[l] /\ LaneConcurrency[l] > 0
HasSpareSlot(l) == active[l] < LaneConcurrency[l]
Ready == {t \in queue : HasSpareSlot(Lane(t))}
\* Mutant: last in, first out.
PrecedesLifo(t, u) ==
  \/ request[t].priority < request[u].priority
  \/ request[t].priority = request[u].priority /\ sequence[t] >= sequence[u]
Precedes(t, u) ==
  \/ request[t].priority < request[u].priority
  \/ request[t].priority = request[u].priority /\ sequence[t] <= sequence[u]
\* Mutant: only the head of the most urgent non-empty priority is looked at.
PopHeadOfLine(t) == t \in Ready /\ \A u \in queue : Precedes(t, u)
PopNextReady(t) == t \in Ready /\ \A u \in Ready : Precedes(t, u)

MayDispatch(th) == th \in dispatching /\ (th \in Callers => todo[th] = {})

\* One turn of dispatch_ready: pop and mark_task_running under the lock, then spawn.
DispatchNext(th) ==
  /\ MayDispatch(th)
  /\ \E t \in queue :
       /\ PopNextReady(t)
       /\ queue' = queue \ {t}
       /\ status' = [status EXCEPT ![t] = "Running"]
       /\ active' = [active EXCEPT ![Lane(t)] = @ + 1]
       /\ worker' = [worker EXCEPT ![t] = "spawned"]
  /\ UNCHANGED <<request, sequence, ancestors, cancelled, taskIds, latest,
                 nextSequence, telemetry, outcome, answer, todo, dispatching>>

DispatchDone(th) ==
  /\ MayDispatch(th)
  /\ \A t \in queue : ~PopNextReady(t)
  /\ dispatching' = dispatching \ {th}
  /\ UNCHANGED <<request, sequence, queue, status, ancestors, cancelled, taskIds,
                 latest, active, nextSequence, telemetry, worker, outcome,
                 answer, todo>>

-----------------------------------------------------------------------------
queueAndIndexes == <<request, sequence, queue, status, ancestors, taskIds, latest,
                     active, nextSequence, telemetry, todo, dispatching>>

\* The executor reads the token before it runs the job.
WorkerStarts(t) ==
  /\ worker[t] = "spawned"
  /\ IF cancelled[t]
     THEN /\ worker' = [worker EXCEPT ![t] = "returned"]
          /\ outcome' = [outcome EXCEPT ![t] = "cancelled"]
     ELSE /\ worker' = [worker EXCEPT ![t] = "working"]
          /\ UNCHANGED outcome
  /\ UNCHANGED <<cancelled, answer>> /\ UNCHANGED queueAndIndexes

\* A success is turned into a cancellation when the token is set.
ResultAsReturned(t, result) == result  \* mutant
ResultAfterToken(t, result) == IF cancelled[t] /\ result = "ok" THEN "cancelled" ELSE result

\* The job returns.  A panic of a blocking job is a failure of its join handle.
WorkReturns(t, result) ==
  /\ worker[t] = "working"
  /\ worker' = [worker EXCEPT ![t] = "returned"]
  /\ outcome' = [outcome EXCEPT ![t] = ResultAfterToken(t, result)]
  /\ UNCHANGED <<cancelled, answer>> /\ UNCHANGED queueAndIndexes

\* A panic inside an async job unwinds the spawned task: the sender is dropped
\* and finish_running_task is never called.
AsyncWorkPanics(t) ==
  /\ Panics /\ request[t] # NoRequest /\ request[t].async
  /\ worker[t] = "working"
  /\ worker' = [worker EXCEPT ![t] = "crashed"]
  /\ answer' = [answer EXCEPT ![t] = "dropped"]
  /\ UNCHANGED <<cancelled, outcome>> /\ UNCHANGED queueAndIndexes

\* send_task_result, before the lock is taken again.
SendTaskResult(t) ==
  /\ worker[t] = "returned"
  /\ worker' = [worker EXCEPT ![t] = "sent"]
  /\ answer' = [answer EXCEPT ![t] = IF @ = "none" THEN outcome[t] ELSE @]
  /\ UNCHANGED <<cancelled, outcome>> /\ UNCHANGED queueAndIndexes

SlotKept(l) == active  \* mutant
ReleaseSlot(l) == [active EXCEPT ![l] = IF @ = 0 THEN 0 ELSE @ - 1]

FinishRunningTask(t) ==
  /\ worker[t] = "sent"
  /\ worker' = [worker EXCEPT ![t] = "done"]
  /\ active' = ReleaseSlot(Lane(t))
  /\ status' = StatusWithout({t})
  /\ taskIds' = TaskIdsWithout({t})
  /\ latest' = GenerationsWithout({t}, latest)
  /\ telemetry' = [telemetry EXCEPT ![outcome[t]] = @ + 1]
  /\ dispatching' = dispatching \cup {t}
  /\ UNCHANGED <<request, sequence, queue, ancestors, cancelled, nextSequence,
                 outcome, answer, todo>>

-----------------------------------------------------------------------------
Submit(c, t) ==
  \E r \in RequestsOf[t] :
     SubmitRejected(c, t, r) \/ SubmitQueued(c, t, r) \/ SubmitUnqueued(c, t, r)

Dispatch(th) == DispatchNext(th) \/ DispatchDone(th)

WorkerStep(t) ==
  \/ WorkerStarts(t)
  \/ \E result \in Results : WorkReturns(t, result)
  \/ AsyncWorkPanics(t)
  \/ SendTaskResult(t)
  \/ FinishRunningTask(t)

Next ==
  \/ \E c \in Callers :
       \/ \E t \in Tasks : Submit(c, t) \/ Cancel(c, t) \/ CompleteQueuedCancelled(c, t)
       \/ \E k \in Keys : CancelWorkKey(c, k)
  \/ \E th \in Callers \cup Tasks : Dispatch(th)
  \/ \E t \in Tasks : WorkerStep(t)

Spec == Init /\ [][Next]_vars

\* Threads keep running and every job returns (or panics).
Fairness ==
  /\ \A c \in Callers : WF_vars(\E t \in Tasks : CompleteQueuedCancelled(c, t))
  /\ \A th \in Callers \cup Tasks : WF_vars(Dispatch(th))
  /\ \A t \in Tasks : WF_vars(WorkerStep(t))

FairSpec == Spec /\ Fairness

-----------------------------------------------------------------------------
(* Properties *)

\* Types of the state of the task graph.
TypeOK ==
  /\ request \in [Tasks -> NativeTaskRequest \cup {NoRequest}]
  /\ sequence \in [Tasks -> Nat \cup {-1}]
  /\ queue \subseteq Tasks
  /\ status \in [Tasks -> {"absent", "Queued", "Running"}]
  /\ ancestors \in [Tasks -> SUBSET Tasks]
  /\ cancelled \in [Tasks -> BOOLEAN]
  /\ taskIds \in [Keys -> SUBSET Tasks]
  /\ latest \in [Keys -> Nat \cup {NoGeneration}]
  /\ active \in [Lanes -> Nat]
  /\ nextSequence \in Nat
  /\ telemetry \in [Counters -> Nat]
  /\ worker \in [Tasks -> Occupying \cup {"none", "done"}]
  /\ outcome \in [Tasks -> Results \cup {"none"}]
  /\ answer \in [Tasks -> Answers]
  /\ todo \in [Callers -> SUBSET Tasks]
  /\ dispatching \subseteq Callers \cup Tasks

Accepted == {t \in Tasks : sequence[t] >= 0}
RunningIn(l) == {t \in Tasks : worker[t] \in Occupying /\ Lane(t) = l}

\* Who will still answer the submitter of t.
Owners(t) ==
  {c \in Callers : t \in todo[c]}
    \cup (IF t \in queue THEN {"queue"} ELSE {})
    \cup (IF worker[t] \in {"spawned", "working", "returned"} THEN {"worker"} ELSE {})

\* Between the queue, the callers that removed cancelled tasks and the workers,
\* an accepted task has exactly one party left to answer it until it is answered
\* and none afterwards: no waiter hangs, and no two threads race for its sender.
WaiterHasOneOwner ==
  \A t \in Accepted :
     IF answer[t] = "none" THEN \E o \in Owners(t) : Owners(t) = {o}
     ELSE Owners(t) = {}

\* An accepted submission loses its sender only to a panic: the early return of
\* enqueue on a full queue drops the removed tasks unanswered, but never has any.
NoAnswerDropped == \A t \in Tasks : answer[t] = "dropped" => worker[t] = "crashed"

\* active_by_lane counts exactly the tasks holding a slot of the lane, and with
\* the policy enabled no lane ever runs more than its cap.
LaneCapsHold ==
  \A l \in Lanes :
     /\ active[l] = Cardinality(RunningIn(l))
     /\ Enabled => active[l] <= LaneConcurrency[l]

\* The queue never exceeds max_queued_tasks.
QueueBounded == Cardinality(queue) <= MaxQueuedTasks

\* A queued task whose lane has a free slot is never left behind: some thread is
\* still inside dispatch_ready, or on its way to it.
NoLostWakeup == Ready # {} => dispatching # {}

\* No cancelled task waits in the queue: each path that sets tokens also removes
\* the tasks before it lets go of the lock.
QueuedNeverCancelled == \A t \in queue : ~cancelled[t]

\* A task never starts while one of its lane that was accepted before it and is
\* at least as urgent is still queued.
NoOvertakingInLane ==
  \A t, u \in Accepted :
     (/\ t \in queue /\ Lane(t) = Lane(u)
      /\ sequence[t] < sequence[u]
      /\ request[t].priority <= request[u].priority) => worker[u] = "none"

\* Every accepted task is counted once: still queued, still running, or in exactly
\* one of the completed, failed and cancelled counters.
TelemetryBalances ==
  telemetry["queued"] =
    Cardinality(queue) + Cardinality({t \in Tasks : status[t] = "Running"})
      + telemetry["ok"] + telemetry["failed"] + telemetry["cancelled"]

\* The work-key index lists the live tasks of the key, and its latest generation
\* covers them, although the entry is dropped whenever the key runs empty.
WorkKeyIndexCoversRecords ==
  \A k \in Keys :
     /\ taskIds[k] = {t \in Recorded : request[t].workKey = k}
     /\ \A t \in taskIds[k] : request[t].generation <= latest[k]

\* Let t carry the strictly newest generation ever requested of its work key (no
\* generation counts as 0), and sweep stale work.  Then every live task of the key
\* accepted before it is cancelled.
NewestGenerationWins ==
  \A t \in Accepted :
     (/\ Sweeps(request[t])
      /\ \A u \in Tasks \ {t} :
            request[u] = NoRequest \/ request[u].workKey # request[t].workKey
              \/ MaxGeneration(request[u].generation, 0) < request[t].generation)
     => \A u \in taskIds[request[t].workKey] : sequence[u] < sequence[t] => cancelled[u]

\* A job whose token was set before it returned never hands its submitter a success.
CancelledWorkNeverSucceeds ==
  [][\A t \in Tasks : cancelled[t] /\ outcome[t] = "none" => outcome'[t] # "ok"]_vars

\* Cancelling a task cancels its live children and their live children,
\* whether or not the task itself is still alive.
CancelReachesSubtree ==
  [][\A c \in Callers, g \in Tasks : Cancel(c, g) =>
       \A u \in Recorded :
          LET p == request[u].parent
          IN (\/ p = g
              \/ p \in Recorded /\ sequence[p] < sequence[u] /\ request[p].parent = g)
             => cancelled'[u]]_vars

\* Every accepted task of a lane with slots is answered in the end, and so is
\* every accepted task that gets cancelled, even in a parked lane (cap 0).
EventuallyAnswered ==
  \A t \in Tasks :
     (t \in Accepted /\ (cancelled[t] \/ ~Enabled \/ LaneConcurrency[Lane(t)] > 0))
       ~> answer[t] # "none"

\* Every slot taken is given back: no lane stays busy for ever.
SlotsComeBack == \A l \in Lanes : active[l] > 0 ~> active[l] < LaneConcurrency[l]

\* finished_tasks_leave_only_telemetry_not_live_records: once the submitter has
\* the result of its task, the graph holds no record of it.
NoRecordAfterResult == \A t \in Tasks : answer[t] = "ok" => status[t] = "absent"
=============================================================================
