------------------- MODULE NativeTaskGraphLifecycleProofs -------------------
(* More theorems about NativeTaskGraph: who answers a task, what the indexes  *)
(* and counters say of it, and in which order tasks start.                    *)
EXTENDS NativeTaskGraphProofs

\* The kinds of step, with the arguments in their sets.
LEMMA StepKinds ==
  ASSUME [Next]_vars
  PROVE  \/ \E c \in Callers, t \in Tasks, r \in NativeTaskRequest :
              SubmitRejected(c, t, r) \/ SubmitQueued(c, t, r) \/ SubmitUnqueued(c, t, r)
         \/ \E c \in Callers, S \in SUBSET Recorded : CancelTokens(c, S)
         \/ \E c \in Callers, t \in Tasks : CompleteQueuedCancelled(c, t)
         \/ \E th \in Callers \cup Tasks : Dispatch(th)
         \/ \E t \in Tasks : WorkerStep(t)
         \/ UNCHANGED vars
  <1>1. ASSUME NEW c \in Callers, NEW t \in Tasks, Submit(c, t)
        PROVE  \E r \in NativeTaskRequest :
                 SubmitRejected(c, t, r) \/ SubmitQueued(c, t, r) \/ SubmitUnqueued(c, t, r)
    BY <1>1, RequestsAssumption DEF Submit
  <1>2. ASSUME NEW c \in Callers, NEW t \in Tasks, Cancel(c, t)
        PROVE  \E S \in SUBSET Recorded : CancelTokens(c, S)
    <2>1. RelatedTo(t) \in SUBSET Recorded BY DEF RelatedTo
    <2> QED BY <1>2, <2>1 DEF Cancel
  <1>3. ASSUME NEW c \in Callers, NEW k \in Keys, CancelWorkKey(c, k)
        PROVE  \E S \in SUBSET Recorded : CancelTokens(c, S)
    BY <1>3 DEF CancelWorkKey
  <1> QED BY <1>1, <1>2, <1>3 DEF Next

-----------------------------------------------------------------------------
(* Sequence numbers.                                                       *)

Numbered ==
  \A t \in Tasks :
     /\ sequence[t] < nextSequence
     /\ request[t] = NoRequest => sequence[t] = -1 /\ answer[t] = "none"
     /\ status[t] # "absent" => sequence[t] >= 0
     /\ \A c \in Callers : t \in todo[c] => sequence[t] >= 0

LEMMA NumberedKept ==
  ASSUME Numbered, UNCHANGED <<request, sequence, nextSequence>>,
         \A t \in Tasks : /\ status'[t] # "absent" => status[t] # "absent"
                          /\ request[t] = NoRequest => answer'[t] = answer[t]
                          /\ \A c \in Callers :
                               t \in todo'[c] => t \in todo[c] \/ status[t] # "absent"
  PROVE  Numbered'
  BY DEF Numbered

LEMMA NumberedNext == ASSUME TypeOK, Placed, Numbered, [Next]_vars PROVE Numbered'
  <1>1. ASSUME NEW c \in Callers, NEW t \in Tasks, NEW r \in NativeTaskRequest,
               SubmitRejected(c, t, r)
        PROVE  Numbered'
    <2>1. /\ UNCHANGED <<sequence, nextSequence, todo>> /\ request' = [request EXCEPT ![t] = r]
          /\ r # NoRequest
      BY <1>1, NoRequestIsNone DEF SubmitRejected
    <2>2. \A u \in Tasks : /\ status'[u] # "absent" => status[u] # "absent"
                           /\ request[u] = NoRequest /\ u # t => answer'[u] = answer[u]
      BY <1>1, FreshIsUntouched
         DEF SubmitRejected, StatusWithout, RemovedBy, Placed, Untouched, TypeOK
    <2> QED BY <2>1, <2>2 DEF Numbered, TypeOK
  <1>2. ASSUME NEW c \in Callers, NEW t \in Tasks, NEW r \in NativeTaskRequest,
               SubmitQueued(c, t, r) \/ SubmitUnqueued(c, t, r)
        PROVE  Numbered'
    <2>1. /\ request' = [request EXCEPT ![t] = r] /\ r # NoRequest
          /\ sequence' = [sequence EXCEPT ![t] = nextSequence]
          /\ nextSequence' = nextSequence + 1 /\ answer' = answer
      BY <1>2, NoRequestIsNone DEF SubmitQueued, SubmitUnqueued, Accept
    <2>2. \A u \in Tasks : u # t /\ status'[u] # "absent" => status[u] # "absent"
      BY <1>2 DEF SubmitQueued, SubmitUnqueued, StatusWithout, TypeOK
    <2>3. /\ todo' = [todo EXCEPT ![c] = RemovedBy(StaleTasks(r))]
          /\ \A u \in RemovedBy(StaleTasks(r)) : status[u] # "absent" /\ u # t
      BY <1>2, FreshIsUntouched
         DEF SubmitQueued, SubmitUnqueued, Accept, RemovedBy, Placed, Untouched, TypeOK
    <2>4. \A d \in Callers, u \in Tasks :
            u \in todo'[d] => u \in todo[d] \/ (u # t /\ status[u] # "absent")
      BY <2>3 DEF TypeOK
    <2>5. \A d \in Callers, u \in Tasks : u \in todo'[d] => sequence'[u] >= 0
      BY <2>1, <2>4 DEF Numbered, TypeOK
    <2>6. \A u \in Tasks : sequence'[u] < nextSequence'
      BY <2>1 DEF Numbered, TypeOK
    <2> QED BY <2>1, <2>2, <2>5, <2>6 DEF Numbered, TypeOK
  <1>3. ASSUME NEW c \in Callers, NEW S \in SUBSET Recorded, CancelTokens(c, S) PROVE Numbered'
    <2>1. \A t \in Tasks : status'[t] # "absent" => status[t] # "absent"
      BY <1>3 DEF CancelTokens, StatusWithout
    <2>2. \A u \in RemovedBy(S) : status[u] # "absent" BY DEF RemovedBy, Placed, TypeOK
    <2>3. \A d \in Callers, u \in Tasks :
            u \in todo'[d] => u \in todo[d] \/ status[u] # "absent"
      BY <1>3, <2>2 DEF CancelTokens, TypeOK
    <2> QED BY <1>3, <2>1, <2>3, NumberedKept DEF CancelTokens
  <1>4. ASSUME NEW c \in Callers, NEW t \in Tasks, CompleteQueuedCancelled(c, t)
        PROVE  Numbered'
    <2>1. request[t] # NoRequest BY <1>4 DEF CompleteQueuedCancelled, Numbered
    <2>2. \A d \in Callers : todo'[d] \subseteq todo[d]
      BY <1>4 DEF CompleteQueuedCancelled, TypeOK
    <2> QED BY <1>4, <2>1, <2>2, NumberedKept DEF CompleteQueuedCancelled, TypeOK
  <1>5. ASSUME NEW th \in Callers \cup Tasks, Dispatch(th) PROVE Numbered'
    BY <1>5 DEF Dispatch, DispatchNext, DispatchDone, Numbered, Placed, TypeOK
  <1>6. ASSUME NEW t \in Tasks, WorkerStep(t) PROVE Numbered'
    <2>1. request[t] # NoRequest
      BY <1>6, NoRequestIsNone DEF WorkerStep, WorkerStarts, WorkReturns, AsyncWorkPanics,
                  SendTaskResult, FinishRunningTask, Placed, Untouched
    <2>2. \A u \in Tasks : u # t => answer'[u] = answer[u]
      BY <1>6 DEF WorkerStep, WorkerStarts, WorkReturns, AsyncWorkPanics,
                  SendTaskResult, FinishRunningTask, TypeOK
    <2>3. \A u \in Tasks : status'[u] # "absent" => status[u] # "absent"
      BY <1>6 DEF WorkerStep, WorkerStarts, WorkReturns, AsyncWorkPanics,
                  SendTaskResult, FinishRunningTask, queueAndIndexes, StatusWithout
    <2>4. UNCHANGED <<request, sequence, nextSequence, todo>>
      BY <1>6 DEF WorkerStep, WorkerStarts, WorkReturns, AsyncWorkPanics,
                  SendTaskResult, FinishRunningTask, queueAndIndexes
    <2> QED BY <2>1, <2>2, <2>3, <2>4, NumberedKept
  <1>7. CASE UNCHANGED vars BY <1>7, NumberedKept DEF vars
  <1> QED BY StepKinds, <1>1, <1>2, <1>3, <1>4, <1>5, <1>6, <1>7

LEMMA NumberedInit == Init => Numbered
  BY DEF Init, Numbered

-----------------------------------------------------------------------------
(* Who has still to answer a task.                                         *)

Answering == {"spawned", "working", "returned"}
Unclaimed(t) == \A c \in Callers : t \notin todo[c]
QueueOwns(t) == t \in queue /\ worker[t] = "none" /\ Unclaimed(t)
WorkerOwns(t) == t \notin queue /\ worker[t] \in Answering /\ Unclaimed(t)
CallerOwns(t) == /\ t \notin queue /\ worker[t] = "none"
                 /\ \E c \in Callers : \A d \in Callers : t \in todo[d] <=> d = c
NobodyOwns(t) == t \notin queue /\ worker[t] \notin Answering /\ Unclaimed(t)

Owned ==
  /\ \A t \in Tasks :
        \/ sequence[t] = -1 /\ NobodyOwns(t) /\ worker[t] = "none"
        \/ sequence[t] >= 0 /\ answer[t] = "none"
             /\ (QueueOwns(t) \/ WorkerOwns(t) \/ CallerOwns(t))
        \/ sequence[t] >= 0 /\ answer[t] # "none" /\ NobodyOwns(t)
  /\ \A t \in Tasks : worker[t] \in {"returned", "sent"} => outcome[t] \in Results
  /\ \A c \in Callers : c \notin dispatching => todo[c] = {}

LEMMA OwnedMeansOneOwner == ASSUME TypeOK, Owned PROVE WaiterHasOneOwner
  <1> SUFFICES ASSUME NEW t \in Accepted
               PROVE  IF answer[t] = "none" THEN \E o \in Owners(t) : Owners(t) = {o}
                      ELSE Owners(t) = {}
    BY DEF WaiterHasOneOwner
  <1>1. t \in Tasks /\ sequence[t] # -1 BY DEF Accepted, TypeOK
  <1>2. CASE QueueOwns(t)
    <2>1. Owners(t) = {"queue"} BY <1>2 DEF QueueOwns, Unclaimed, Owners
    <2>2. answer[t] = "none" BY <1>1, <1>2 DEF Owned, QueueOwns, NobodyOwns
    <2> QED BY <2>1, <2>2
  <1>3. CASE WorkerOwns(t)
    <2>1. Owners(t) = {"worker"} BY <1>3 DEF WorkerOwns, Answering, Unclaimed, Owners
    <2>2. answer[t] = "none" BY <1>1, <1>3 DEF Owned, WorkerOwns, NobodyOwns
    <2> QED BY <2>1, <2>2
  <1>4. CASE CallerOwns(t)
    <2>1. PICK c \in Callers : \A d \in Callers : t \in todo[d] <=> d = c
      BY <1>4 DEF CallerOwns
    <2>2. Owners(t) = {c} BY <1>4, <2>1 DEF CallerOwns, Owners
    <2>3. answer[t] = "none" BY <1>1, <2>1 DEF Owned, NobodyOwns, Unclaimed
    <2> QED BY <2>2, <2>3
  <1>5. CASE NobodyOwns(t) /\ answer[t] # "none"
    BY <1>5 DEF NobodyOwns, Answering, Unclaimed, Owners
  <1> QED BY <1>1, <1>2, <1>3, <1>4, <1>5 DEF Owned

\* The tasks a caller removes from the queue become its own to answer.
LEMMA RemovedAreClaimed ==
  ASSUME TypeOK, Owned, NEW c \in Callers, c \notin dispatching, NEW S,
         todo' = [todo EXCEPT ![c] = RemovedBy(S)],
         NEW t \in Tasks, t \in queue' <=> t \in queue \ RemovedBy(S),
         worker'[t] = worker[t], answer'[t] = answer[t], sequence'[t] = sequence[t]
  PROVE  \/ sequence'[t] = -1 /\ NobodyOwns(t)' /\ worker'[t] = "none"
         \/ sequence'[t] >= 0 /\ answer'[t] = "none"
              /\ (QueueOwns(t) \/ WorkerOwns(t) \/ CallerOwns(t))'
         \/ sequence'[t] >= 0 /\ answer'[t] # "none" /\ NobodyOwns(t)'
  <1>1. todo[c] = {} BY DEF Owned
  <1>2. \A d \in Callers : todo'[d] = IF d = c THEN RemovedBy(S) ELSE todo[d]
    BY DEF TypeOK
  <1>3. CASE t \in RemovedBy(S)
    <2>1. t \in queue BY <1>3, RemovedFromQueue
    <2>2. sequence[t] >= 0 /\ answer[t] = "none" /\ QueueOwns(t)
      BY <2>1 DEF Owned, NobodyOwns, QueueOwns, WorkerOwns, CallerOwns
    <2>3. CallerOwns(t)'
      BY <1>2, <1>3, <2>2 DEF QueueOwns, CallerOwns, Unclaimed
    <2> QED BY <2>2, <2>3
  <1>4. CASE t \notin RemovedBy(S)
    <2>1. /\ Unclaimed(t)' <=> Unclaimed(t)
          /\ \A d \in Callers : t \in todo'[d] <=> t \in todo[d]
      BY <1>1, <1>2, <1>4 DEF Unclaimed
    <2>2. /\ QueueOwns(t)' <=> QueueOwns(t)
          /\ WorkerOwns(t)' <=> WorkerOwns(t)
          /\ CallerOwns(t)' <=> CallerOwns(t)
          /\ NobodyOwns(t)' <=> NobodyOwns(t)
      BY <1>4, <2>1 DEF QueueOwns, WorkerOwns, CallerOwns, NobodyOwns
    <2> QED BY <2>2 DEF Owned
  <1> QED BY <1>3, <1>4

LEMMA OwnedSubmit ==
  ASSUME TypeOK, Placed, QueueBounded, Numbered, Owned,
         NEW c \in Callers, NEW t \in Tasks, NEW r \in NativeTaskRequest,
         SubmitRejected(c, t, r) \/ SubmitQueued(c, t, r) \/ SubmitUnqueued(c, t, r)
  PROVE  Owned'
  <1>1. /\ sequence[t] = -1 /\ NobodyOwns(t) /\ worker[t] = "none" /\ answer[t] = "none"
        /\ status[t] = "absent"
    BY FreshIsUntouched
       DEF SubmitRejected, SubmitQueued, SubmitUnqueued, Numbered, Owned, Untouched
  <1>2. CASE SubmitRejected(c, t, r)
    <2>1. RemovedBy(StaleTasks(r)) = {} BY <1>2, RejectionRemovesNothing DEF SubmitRejected
    <2>2. /\ queue' = queue /\ UNCHANGED <<sequence, worker, outcome, todo, dispatching>>
          /\ \A u \in Tasks : u # t => answer'[u] = answer[u]
      BY <1>2, <2>1 DEF SubmitRejected
    <2> QED BY <1>1, <2>2
            DEF Owned, NobodyOwns, QueueOwns, WorkerOwns, CallerOwns, Unclaimed
  <1>3. CASE SubmitQueued(c, t, r) \/ SubmitUnqueued(c, t, r)
    <2> DEFINE stale == StaleTasks(r)
    <2>1. /\ todo' = [todo EXCEPT ![c] = RemovedBy(stale)] /\ c \notin dispatching
          /\ dispatching' = dispatching \cup {c} /\ UNCHANGED <<outcome, answer>>
          /\ sequence' = [sequence EXCEPT ![t] = nextSequence]
      BY <1>3 DEF SubmitQueued, SubmitUnqueued, Accept, Idle
    <2>2. \A u \in Tasks : u # t =>
            /\ u \in queue' <=> u \in queue \ RemovedBy(stale)
            /\ worker'[u] = worker[u]
      BY <1>3 DEF SubmitQueued, SubmitUnqueued, TypeOK
    <2>3. t \notin RemovedBy(stale) BY <1>1, RemovedFromQueue DEF NobodyOwns
    <2>4. Unclaimed(t)' BY <1>1, <2>1, <2>3 DEF NobodyOwns, Unclaimed, TypeOK
    <2>5. QueueOwns(t)' \/ WorkerOwns(t)'
      BY <1>1, <1>3, <2>4
         DEF SubmitQueued, SubmitUnqueued, QueueOwns, WorkerOwns, NobodyOwns, Answering, TypeOK
    <2>6. sequence'[t] >= 0 /\ answer'[t] = "none" BY <1>1, <2>1 DEF TypeOK
    <2>7. ASSUME NEW u \in Tasks, u # t
          PROVE  \/ sequence'[u] = -1 /\ NobodyOwns(u)' /\ worker'[u] = "none"
                 \/ sequence'[u] >= 0 /\ answer'[u] = "none"
                      /\ (QueueOwns(u) \/ WorkerOwns(u) \/ CallerOwns(u))'
                 \/ sequence'[u] >= 0 /\ answer'[u] # "none" /\ NobodyOwns(u)'
      <3>1. sequence'[u] = sequence[u] /\ answer'[u] = answer[u] BY <2>1, <2>7 DEF TypeOK
      <3> HIDE DEF stale
      <3> QED BY <2>1, <2>2, <2>7, <3>1, RemovedAreClaimed
    <2>8. \A u \in Tasks : worker'[u] \in {"returned", "sent"} => outcome'[u] \in Results
      BY <1>3, <2>1, <2>2 DEF SubmitQueued, SubmitUnqueued, Owned, TypeOK
    <2>9. \A d \in Callers : d \notin dispatching' => todo'[d] = {}
      BY <2>1 DEF Owned, TypeOK
    <2> HIDE DEF stale
    <2> QED BY <2>5, <2>6, <2>7, <2>8, <2>9 DEF Owned
  <1> QED BY <1>2, <1>3

LEMMA OwnedCancel ==
  ASSUME TypeOK, Owned, NEW c \in Callers, NEW S, CancelTokens(c, S)
  PROVE  Owned'
  <1>1. /\ c \notin dispatching /\ dispatching' = dispatching \cup {c}
        /\ todo' = [todo EXCEPT ![c] = RemovedBy(S)] /\ queue' = queue \ RemovedBy(S)
        /\ UNCHANGED <<sequence, worker, outcome, answer>>
    BY DEF CancelTokens, Idle
  <1>2. \A d \in Callers : d \notin dispatching' => todo'[d] = {}
    BY <1>1 DEF Owned, TypeOK
  <1>3. ASSUME NEW t \in Tasks
        PROVE  \/ sequence'[t] = -1 /\ NobodyOwns(t)' /\ worker'[t] = "none"
               \/ sequence'[t] >= 0 /\ answer'[t] = "none"
                    /\ (QueueOwns(t) \/ WorkerOwns(t) \/ CallerOwns(t))'
               \/ sequence'[t] >= 0 /\ answer'[t] # "none" /\ NobodyOwns(t)'
    BY <1>1, RemovedAreClaimed
  <1>4. \A t \in Tasks : worker'[t] \in {"returned", "sent"} => outcome'[t] \in Results
    BY <1>1 DEF Owned
  <1> QED BY <1>2, <1>3, <1>4 DEF Owned

LEMMA OwnedComplete ==
  ASSUME TypeOK, Owned, NEW c \in Callers, NEW t \in Tasks, CompleteQueuedCancelled(c, t)
  PROVE  Owned'
  <1>1. /\ t \in todo[c] /\ UNCHANGED <<sequence, queue, worker, outcome, dispatching>>
        /\ \A d \in Callers : todo'[d] = IF d = c THEN todo[d] \ {t} ELSE todo[d]
        /\ \A u \in Tasks : u # t => answer'[u] = answer[u]
        /\ answer'[t] # "none"
    BY DEF CompleteQueuedCancelled, TypeOK
  <1>2. sequence[t] >= 0 /\ CallerOwns(t)
    BY <1>1 DEF Owned, NobodyOwns, QueueOwns, WorkerOwns, Unclaimed
  <1>3. NobodyOwns(t)' BY <1>1, <1>2 DEF CallerOwns, NobodyOwns, Unclaimed, Answering
  <1>4. \A u \in Tasks : u # t =>
          /\ QueueOwns(u)' <=> QueueOwns(u)
          /\ WorkerOwns(u)' <=> WorkerOwns(u)
          /\ CallerOwns(u)' <=> CallerOwns(u)
          /\ NobodyOwns(u)' <=> NobodyOwns(u)
    BY <1>1 DEF QueueOwns, WorkerOwns, CallerOwns, NobodyOwns, Unclaimed
  <1> QED BY <1>1, <1>2, <1>3, <1>4 DEF Owned

LEMMA OwnedDispatch ==
  ASSUME TypeOK, Owned, NEW th \in Callers \cup Tasks, Dispatch(th)
  PROVE  Owned'
  <1>1. CASE DispatchDone(th)
    BY <1>1 DEF DispatchDone, MayDispatch, Owned, QueueOwns, WorkerOwns, CallerOwns,
                NobodyOwns, Unclaimed
  <1>2. CASE DispatchNext(th)
    <2>1. PICK t \in queue : /\ queue' = queue \ {t}
                             /\ worker' = [worker EXCEPT ![t] = "spawned"]
      BY <1>2 DEF DispatchNext
    <2>2. UNCHANGED <<sequence, outcome, answer, todo, dispatching>>
      BY <1>2 DEF DispatchNext
    <2>3. t \in Tasks BY DEF TypeOK
    <2>4. sequence[t] >= 0 /\ answer[t] = "none" /\ QueueOwns(t)
      BY <2>3 DEF Owned, NobodyOwns, WorkerOwns, CallerOwns
    <2>5. WorkerOwns(t)'
      BY <2>1, <2>2, <2>3, <2>4 DEF QueueOwns, WorkerOwns, Unclaimed, Answering, TypeOK
    <2>6. \A u \in Tasks : u # t =>
            /\ QueueOwns(u)' <=> QueueOwns(u)
            /\ WorkerOwns(u)' <=> WorkerOwns(u)
            /\ CallerOwns(u)' <=> CallerOwns(u)
            /\ NobodyOwns(u)' <=> NobodyOwns(u)
            /\ worker'[u] = worker[u]
      BY <2>1, <2>2 DEF QueueOwns, WorkerOwns, CallerOwns, NobodyOwns, Unclaimed, TypeOK
    <2>7. worker'[t] \notin {"returned", "sent"} BY <2>1, <2>3 DEF TypeOK
    <2> QED BY <2>2, <2>4, <2>5, <2>6, <2>7 DEF Owned
  <1> QED BY <1>1, <1>2 DEF Dispatch

LEMMA OwnedWorker ==
  ASSUME TypeOK, Owned, NEW t \in Tasks, WorkerStep(t)
  PROVE  Owned'
  <1>1. /\ UNCHANGED <<sequence, queue, todo>> /\ dispatching \subseteq dispatching'
        /\ \A u \in Tasks : u # t => /\ worker'[u] = worker[u] /\ answer'[u] = answer[u]
                                     /\ outcome'[u] = outcome[u]
    BY DEF WorkerStep, WorkerStarts, WorkReturns, AsyncWorkPanics, SendTaskResult,
           FinishRunningTask, queueAndIndexes, TypeOK
  <1>2. \A u \in Tasks : u # t =>
          /\ QueueOwns(u)' <=> QueueOwns(u)
          /\ WorkerOwns(u)' <=> WorkerOwns(u)
          /\ CallerOwns(u)' <=> CallerOwns(u)
          /\ NobodyOwns(u)' <=> NobodyOwns(u)
    BY <1>1 DEF QueueOwns, WorkerOwns, CallerOwns, NobodyOwns, Unclaimed
  <1>3. CASE WorkerStarts(t) \/ \E result \in Results : WorkReturns(t, result)
    <2>1. worker[t] \in Answering /\ worker'[t] \in Answering /\ answer'[t] = answer[t]
      BY <1>3 DEF WorkerStarts, WorkReturns, Answering, TypeOK
    <2>2. sequence[t] >= 0 /\ answer[t] = "none" /\ WorkerOwns(t)
      BY <2>1 DEF Owned, NobodyOwns, QueueOwns, CallerOwns, Answering
    <2>3. WorkerOwns(t)' BY <1>1, <2>1, <2>2 DEF WorkerOwns, Unclaimed
    <2>4. worker'[t] \in {"returned", "sent"} => outcome'[t] \in Results
      BY <1>3 DEF WorkerStarts, WorkReturns, ResultAfterToken, Results, TypeOK
    <2> QED BY <1>1, <1>2, <2>1, <2>2, <2>3, <2>4 DEF Owned
  <1>4. CASE AsyncWorkPanics(t) \/ SendTaskResult(t)
    <2>1. /\ worker[t] \in Answering /\ worker'[t] \in {"crashed", "sent"}
          /\ outcome' = outcome
      BY <1>4 DEF AsyncWorkPanics, SendTaskResult, Answering, TypeOK
    <2>2. sequence[t] >= 0 /\ answer[t] = "none" /\ WorkerOwns(t)
      BY <2>1 DEF Owned, NobodyOwns, QueueOwns, CallerOwns, Answering
    <2>3. answer'[t] # "none"
      BY <1>4, <2>2 DEF AsyncWorkPanics, SendTaskResult, Owned, Results, TypeOK
    <2>4. NobodyOwns(t)'
      BY <1>1, <2>1, <2>2 DEF WorkerOwns, NobodyOwns, Unclaimed, Answering
    <2>5. worker'[t] \in {"returned", "sent"} => outcome'[t] \in Results
      BY <1>4, <2>1 DEF AsyncWorkPanics, SendTaskResult, Owned, TypeOK
    <2> QED BY <1>1, <1>2, <2>1, <2>2, <2>3, <2>4, <2>5 DEF Owned
  <1>5. CASE FinishRunningTask(t)
    <2>1. worker[t] = "sent" /\ worker'[t] = "done" /\ answer' = answer /\ outcome' = outcome
      BY <1>5 DEF FinishRunningTask, TypeOK
    <2>2. sequence[t] >= 0 /\ answer[t] # "none" /\ NobodyOwns(t)
      BY <2>1 DEF Owned, QueueOwns, WorkerOwns, CallerOwns, Answering
    <2>3. NobodyOwns(t)' BY <1>1, <2>1, <2>2 DEF NobodyOwns, Unclaimed, Answering
    <2> QED BY <1>1, <1>2, <2>1, <2>2, <2>3 DEF Owned
  <1> QED BY <1>3, <1>4, <1>5 DEF WorkerStep

LEMMA OwnedNext ==
  ASSUME TypeOK, Placed, QueueBounded, Numbered, Owned, [Next]_vars PROVE Owned'
  <1>1. CASE UNCHANGED vars
    BY <1>1 DEF vars, Owned, QueueOwns, WorkerOwns, CallerOwns, NobodyOwns, Unclaimed
  <1> QED BY StepKinds, <1>1, OwnedSubmit, OwnedCancel, OwnedComplete, OwnedDispatch, OwnedWorker

LEMMA OwnedInit == Init => Owned
  BY DEF Init, Owned, NobodyOwns, Unclaimed, Answering

-----------------------------------------------------------------------------
(* The index by work key.                                                  *)

RecordsOf(k) == {t \in Recorded : request[t].workKey = k}

\* Generations that do not fall keep covering the records a removal leaves.
LEMMA IndexAfterRemoval ==
  ASSUME TypeOK, Placed, WorkKeyIndexCoversRecords, NEW S, NEW k \in Keys,
         NEW g \in [Keys -> Nat \cup {NoGeneration}], latest[k] <= g[k]
  PROVE  /\ TaskIdsWithout(S)[k] = RecordsOf(k) \ S
         /\ \A t \in TaskIdsWithout(S)[k] : request[t].generation <= GenerationsWithout(S, g)[k]
  <1>1. TaskIdsWithout(S)[k] = RecordsOf(k) \ S
    BY DEF TaskIdsWithout, WorkKeyIndexCoversRecords, RecordsOf
  <1>2. ASSUME NEW t \in TaskIdsWithout(S)[k]
        PROVE  request[t].generation <= GenerationsWithout(S, g)[k]
    <2>1. t \in taskIds[k] /\ t \notin S BY <1>2 DEF TaskIdsWithout
    <2>2. GenerationsWithout(S, g)[k] = g[k] BY <2>1 DEF GenerationsWithout
    <2>3. request[t].generation <= latest[k] BY <2>1 DEF WorkKeyIndexCoversRecords
    <2>4. request[t].generation \in Int
      BY <1>1, <1>2 DEF RecordsOf, Recorded, Placed, Untouched, NativeTaskRequest, NoGeneration
    <2>5. latest[k] \in Int /\ g[k] \in Int BY DEF TypeOK, NoGeneration
    <2> QED BY <2>2, <2>3, <2>4, <2>5
  <1> QED BY <1>1, <1>2

\* A sweep does not lower the newest generation of a key.
LEMMA SweepOnlyRaises ==
  ASSUME TypeOK, NEW r \in NativeTaskRequest, NEW k \in Keys
  PROVE  latest[k] <= LatestSeen(r)[k]
  <1>1. latest[k] \in Int /\ r.generation \in Int
    BY DEF TypeOK, NativeTaskRequest, NoGeneration
  <1> QED BY <1>1 DEF LatestSeen, MaxGeneration, TypeOK

LEMMA IndexSubmit ==
  ASSUME TypeOK, Placed, QueueBounded, WorkKeyIndexCoversRecords,
         NEW c \in Callers, NEW t \in Tasks, NEW r \in NativeTaskRequest,
         SubmitRejected(c, t, r) \/ SubmitQueued(c, t, r) \/ SubmitUnqueued(c, t, r)
  PROVE  WorkKeyIndexCoversRecords'
  <1> DEFINE removed == RemovedBy(StaleTasks(r))
             kept == TaskIdsWithout(removed)
             generations == GenerationsWithout(removed, LatestSeen(r))
  <1>1. t \notin Recorded /\ request' = [request EXCEPT ![t] = r]
    BY FreshIsUntouched
       DEF SubmitRejected, SubmitQueued, SubmitUnqueued, Accept, Untouched, Recorded
  <1>2. \A u \in Tasks : u # t =>
          (status'[u] # "absent" <=> u \in Recorded \ removed) /\ request'[u] = request[u]
    <2>1. \A u \in Tasks : u # t => status'[u] = StatusWithout(removed)[u]
      BY DEF SubmitRejected, SubmitQueued, SubmitUnqueued, StatusWithout
    <2> HIDE DEF removed
    <2> QED BY <1>1, <2>1 DEF StatusWithout, Recorded, TypeOK
  <1>3. ASSUME NEW k \in Keys
        PROVE  /\ kept[k] = RecordsOf(k) \ removed
               /\ \A u \in kept[k] : request[u].generation <= generations[k]
               /\ t \notin kept[k] /\ kept[k] \subseteq Tasks
    <2>1. /\ kept[k] = RecordsOf(k) \ removed
          /\ \A u \in kept[k] : request[u].generation <= generations[k]
      <3> HIDE DEF removed
      <3> QED BY SweepOnlyRaises, LatestSeenType, IndexAfterRemoval
    <2> QED BY <1>1, <2>1 DEF RecordsOf, Recorded
  <1>4. CASE SubmitRejected(c, t, r)
    <2>1. /\ taskIds' = kept /\ latest' = generations
          /\ status'[t] = "absent"
      BY <1>1, <1>4 DEF SubmitRejected, StatusWithout, Recorded, TypeOK
    <2> HIDE DEF removed, kept, generations
    <2> QED BY <1>1, <1>2, <1>3, <2>1 DEF WorkKeyIndexCoversRecords, RecordsOf, Recorded, TypeOK
  <1>5. CASE SubmitQueued(c, t, r) \/ SubmitUnqueued(c, t, r)
    <2>1. status'[t] # "absent"
      BY <1>5 DEF SubmitQueued, SubmitUnqueued, StatusWithout, TypeOK
    <2>2. /\ taskIds' = IF r.workKey = NoKey THEN kept
                        ELSE [kept EXCEPT ![r.workKey] = @ \cup {t}]
          /\ latest' = IF r.workKey = NoKey THEN generations
                       ELSE [generations EXCEPT ![r.workKey] = MaxGeneration(@, r.generation)]
      BY <1>5 DEF SubmitQueued, SubmitUnqueued, Accept
    <2>3. kept \in [Keys -> SUBSET Tasks] /\ generations \in [Keys -> Nat \cup {NoGeneration}]
      BY LatestSeenType, RemovalTypes
    <2>4. r.workKey \in Keys \cup {NoKey} /\ r.generation \in Int
      BY DEF NativeTaskRequest, NoGeneration
    <2> HIDE DEF removed, kept, generations
    <2>5. ASSUME NEW k \in Keys, k # r.workKey
          PROVE  /\ taskIds'[k] = RecordsOf(k)'
                 /\ \A u \in taskIds'[k] : request'[u].generation <= latest'[k]
      <3>1. taskIds'[k] = kept[k] /\ latest'[k] = generations[k] BY <2>2, <2>3, <2>5
      <3>2. request'[t].workKey # k BY <1>1, <2>5 DEF TypeOK
      <3> QED BY <1>2, <1>3, <3>1, <3>2 DEF RecordsOf, Recorded
    <2>6. ASSUME NEW k \in Keys, k = r.workKey
          PROVE  /\ taskIds'[k] = RecordsOf(k)'
                 /\ \A u \in taskIds'[k] : request'[u].generation <= latest'[k]
      <3>1. /\ taskIds'[k] = kept[k] \cup {t}
            /\ latest'[k] = MaxGeneration(generations[k], r.generation)
        BY <2>2, <2>3, <2>6, NoneAssumption
      <3>2. request'[t] = r BY <1>1 DEF TypeOK
      <3>3. taskIds'[k] = RecordsOf(k)'
        BY <1>2, <1>3, <2>1, <2>6, <3>1, <3>2 DEF RecordsOf, Recorded
      <3>4. generations[k] \in Int BY <2>3 DEF NoGeneration
      <3>5. generations[k] <= latest'[k] /\ r.generation <= latest'[k] /\ latest'[k] \in Int
        BY <2>4, <3>1, <3>4 DEF MaxGeneration
      <3>6. ASSUME NEW u \in kept[k] PROVE request'[u].generation <= latest'[k]
        <4>1. request'[u] = request[u] /\ u \in Recorded /\ u \in Tasks
          BY <1>2, <1>3 DEF RecordsOf, Recorded
        <4>2. request[u].generation \in Int
          BY <4>1 DEF Recorded, Placed, Untouched, NativeTaskRequest, NoGeneration
        <4> QED BY <1>3, <3>4, <3>5, <4>1, <4>2
      <3> QED BY <3>1, <3>2, <3>3, <3>5, <3>6
    <2> QED BY <2>5, <2>6 DEF WorkKeyIndexCoversRecords, RecordsOf
  <1> QED BY <1>4, <1>5

\* The records of S leave the map and the index together.
LEMMA IndexKept ==
  ASSUME TypeOK, Placed, WorkKeyIndexCoversRecords, NEW S, request' = request,
         taskIds' = TaskIdsWithout(S), latest' = GenerationsWithout(S, latest),
         \A t \in Tasks : status'[t] # "absent" <=> status[t] # "absent" /\ t \notin S
  PROVE  WorkKeyIndexCoversRecords'
  <1>1. \A k \in Keys : RecordsOf(k)' = RecordsOf(k) \ S BY DEF RecordsOf, Recorded
  <1>2. latest \in [Keys -> Nat \cup {NoGeneration}] BY DEF TypeOK
  <1>3. \A k \in Keys : latest[k] <= latest[k] BY DEF TypeOK, NoGeneration
  <1>4. \A k \in Keys :
          /\ taskIds'[k] = RecordsOf(k) \ S
          /\ \A t \in taskIds'[k] : request[t].generation <= latest'[k]
    BY <1>2, <1>3, IndexAfterRemoval
  <1> QED BY <1>1, <1>4 DEF WorkKeyIndexCoversRecords, RecordsOf

LEMMA IndexNext ==
  ASSUME TypeOK, Placed, QueueBounded, WorkKeyIndexCoversRecords, [Next]_vars
  PROVE  WorkKeyIndexCoversRecords'
  <1>1. ASSUME NEW c \in Callers, NEW S \in SUBSET Recorded, CancelTokens(c, S)
        PROVE  WorkKeyIndexCoversRecords'
    BY <1>1, IndexKept DEF CancelTokens, StatusWithout
  <1>2. ASSUME UNCHANGED <<request, taskIds, latest>>,
               \A t \in Tasks : status'[t] # "absent" <=> status[t] # "absent"
        PROVE  WorkKeyIndexCoversRecords'
    BY <1>2 DEF WorkKeyIndexCoversRecords, Recorded
  <1>3. ASSUME NEW c \in Callers, NEW t \in Tasks, CompleteQueuedCancelled(c, t)
        PROVE  WorkKeyIndexCoversRecords'
    BY <1>2, <1>3 DEF CompleteQueuedCancelled
  <1>4. ASSUME NEW th \in Callers \cup Tasks, Dispatch(th) PROVE WorkKeyIndexCoversRecords'
    <2>1. \A t \in Tasks : status'[t] # "absent" <=> status[t] # "absent"
      BY <1>4 DEF Dispatch, DispatchNext, DispatchDone, Placed, TypeOK
    <2> QED BY <1>2, <1>4, <2>1 DEF Dispatch, DispatchNext, DispatchDone
  <1>5. ASSUME NEW t \in Tasks, FinishRunningTask(t) PROVE WorkKeyIndexCoversRecords'
    BY <1>5, IndexKept DEF FinishRunningTask, StatusWithout
  <1>6. ASSUME NEW t \in Tasks, WorkerStep(t), ~FinishRunningTask(t)
        PROVE  WorkKeyIndexCoversRecords'
    BY <1>2, <1>6 DEF WorkerStep, WorkerStarts, WorkReturns, AsyncWorkPanics,
                      SendTaskResult, queueAndIndexes
  <1>7. CASE UNCHANGED vars BY <1>2, <1>7 DEF vars
  <1> QED BY StepKinds, IndexSubmit, <1>1, <1>3, <1>4, <1>5, <1>6, <1>7

LEMMA IndexInit == Init => WorkKeyIndexCoversRecords
  BY DEF Init, WorkKeyIndexCoversRecords, Recorded

-----------------------------------------------------------------------------
(* Steps that accept nothing: requests and numbers stay, records only leave, *)
(* index entries only shrink and tokens only get set.                        *)

OnlyLeaves ==
  /\ UNCHANGED <<request, sequence, nextSequence, ancestors>>
  /\ \A t \in Tasks : /\ status'[t] # "absent" => status[t] # "absent"
                      /\ cancelled[t] => cancelled'[t]
  /\ \A k \in Keys : /\ taskIds'[k] \subseteq taskIds[k]
                     /\ latest'[k] # NoGeneration => latest'[k] = latest[k]

LEMMA StepsOnlyLeave ==
  ASSUME TypeOK, Placed, [Next]_vars
  PROVE  \/ OnlyLeaves
         \/ \E c \in Callers, t \in Tasks, r \in NativeTaskRequest :
              SubmitRejected(c, t, r) \/ SubmitQueued(c, t, r) \/ SubmitUnqueued(c, t, r)
  <1>1. ASSUME NEW c \in Callers, NEW S \in SUBSET Recorded, CancelTokens(c, S)
        PROVE  OnlyLeaves
    BY <1>1 DEF CancelTokens, OnlyLeaves, StatusWithout, TokensAfter, TaskIdsWithout,
                GenerationsWithout
  <1>2. ASSUME NEW c \in Callers, NEW t \in Tasks, CompleteQueuedCancelled(c, t)
        PROVE  OnlyLeaves
    BY <1>2 DEF CompleteQueuedCancelled, OnlyLeaves
  <1>3. ASSUME NEW th \in Callers \cup Tasks, Dispatch(th) PROVE OnlyLeaves
    BY <1>3 DEF Dispatch, DispatchNext, DispatchDone, OnlyLeaves, Placed, TypeOK
  <1>4. ASSUME NEW t \in Tasks, WorkerStep(t) PROVE OnlyLeaves
    BY <1>4 DEF WorkerStep, WorkerStarts, WorkReturns, AsyncWorkPanics, SendTaskResult,
                FinishRunningTask, queueAndIndexes, OnlyLeaves, StatusWithout,
                TaskIdsWithout, GenerationsWithout
  <1>5. CASE UNCHANGED vars BY <1>5 DEF vars, OnlyLeaves
  <1> QED BY StepKinds, <1>1, <1>2, <1>3, <1>4, <1>5

\* What a submission does to the other tasks and, if accepted, says of its own.
LEMMA SubmissionAdds ==
  ASSUME TypeOK, Placed, Numbered,
         NEW c \in Callers, NEW t \in Tasks, NEW r \in NativeTaskRequest,
         SubmitRejected(c, t, r) \/ SubmitQueued(c, t, r) \/ SubmitUnqueued(c, t, r)
  PROVE  /\ request' = [request EXCEPT ![t] = r] /\ request[t] = NoRequest
         /\ status[t] = "absent" /\ sequence[t] = -1
         /\ cancelled' = TokensAfter(StaleTasks(r))
         /\ \A u \in Tasks : u # t =>
              /\ status'[u] # "absent" => status[u] # "absent"
              /\ sequence'[u] = sequence[u] /\ ancestors'[u] = ancestors[u]
         /\ \A k \in Keys : taskIds'[k] \subseteq taskIds[k] \cup {t}
         /\ \/ SubmitRejected(c, t, r) /\ status'[t] = "absent" /\ sequence'[t] = -1
               /\ \A k \in Keys : taskIds'[k] \subseteq taskIds[k]
            \/ ~SubmitRejected(c, t, r) /\ sequence'[t] = nextSequence
               /\ ancestors'[t] = AncestorsFor(r)
  <1>1. /\ request' = [request EXCEPT ![t] = r] /\ request[t] = NoRequest
        /\ status[t] = "absent" /\ sequence[t] = -1
        /\ cancelled' = TokensAfter(StaleTasks(r))
    BY FreshIsUntouched
       DEF SubmitRejected, SubmitQueued, SubmitUnqueued, Accept, Untouched, Numbered
  <1>2. CASE SubmitRejected(c, t, r)
    BY <1>1, <1>2 DEF SubmitRejected, StatusWithout, TaskIdsWithout
  <1>3. CASE ~SubmitRejected(c, t, r)
    <2>1. Accept(c, t, r) BY <1>3 DEF SubmitQueued, SubmitUnqueued
    <2>2. \A u \in Tasks : u # t =>
            /\ status'[u] # "absent" => status[u] # "absent"
            /\ sequence'[u] = sequence[u] /\ ancestors'[u] = ancestors[u]
      BY <1>3, <2>1 DEF SubmitQueued, SubmitUnqueued, Accept, StatusWithout, TypeOK
    <2>3. \A k \in Keys : taskIds'[k] \subseteq taskIds[k] \cup {t}
      BY <2>1 DEF Accept, TaskIdsWithout
    <2>4. sequence'[t] = nextSequence /\ ancestors'[t] = AncestorsFor(r)
      BY <2>1 DEF Accept, TypeOK
    <2> QED BY <1>1, <1>3, <2>2, <2>3, <2>4
  <1> QED BY <1>2, <1>3

-----------------------------------------------------------------------------
(* Ancestors.                                                              *)

\* A record names its parent, and what the parent named if that was still live.
AncestorsReach ==
  \A u \in Recorded :
     LET p == request[u].parent
     IN /\ p # NoTask => p \in ancestors[u]
        /\ p \in Recorded /\ sequence[p] < sequence[u] => ancestors[p] \subseteq ancestors[u]

LEMMA AncestorsReachNext ==
  ASSUME TypeOK, Placed, Numbered, AncestorsReach, [Next]_vars PROVE AncestorsReach'
  <1>1. CASE OnlyLeaves BY <1>1 DEF OnlyLeaves, AncestorsReach, Recorded
  <1>2. ASSUME NEW c \in Callers, NEW t \in Tasks, NEW r \in NativeTaskRequest,
               SubmitRejected(c, t, r) \/ SubmitQueued(c, t, r) \/ SubmitUnqueued(c, t, r)
        PROVE  AncestorsReach'
    <2> SUFFICES ASSUME NEW u \in Recorded'
                 PROVE  LET p == request'[u].parent
                        IN /\ p # NoTask => p \in ancestors'[u]
                           /\ p \in Recorded' /\ sequence'[p] < sequence'[u] =>
                                ancestors'[p] \subseteq ancestors'[u]
      BY DEF AncestorsReach
    <2> DEFINE p == request'[u].parent
    <2>1. u \in Tasks BY DEF Recorded
    <2>2. CASE u # t
      <3>1. /\ u \in Recorded /\ request'[u] = request[u] /\ ancestors'[u] = ancestors[u]
            /\ sequence'[u] = sequence[u]
        BY <1>2, <2>1, <2>2, SubmissionAdds DEF Recorded, TypeOK
      <3>2. p \in Recorded' /\ sequence'[p] < sequence'[u] =>
              p \in Recorded /\ sequence[p] < sequence[u] /\ ancestors'[p] = ancestors[p]
        <4>1. SUFFICES ASSUME p \in Recorded', sequence'[p] < sequence'[u]
                       PROVE  p \in Recorded /\ sequence[p] < sequence[u]
                              /\ ancestors'[p] = ancestors[p]
          OBVIOUS
        <4>2. p # t
          <5>1. SUFFICES ASSUME p = t PROVE FALSE OBVIOUS
          <5>2. sequence'[t] = nextSequence
            BY <1>2, <4>1, <5>1, SubmissionAdds DEF Recorded
          <5>3. sequence[u] < nextSequence BY <2>1 DEF Numbered
          <5> QED BY <2>1, <3>1, <4>1, <5>1, <5>2, <5>3 DEF TypeOK
        <4> QED BY <1>2, <3>1, <4>1, <4>2, SubmissionAdds DEF Recorded
      <3> QED BY <3>1, <3>2 DEF AncestorsReach
    <2>3. CASE u = t
      <3>1. request'[u] = r /\ ancestors'[u] = AncestorsFor(r)
        BY <1>2, <2>3, SubmissionAdds DEF Recorded, TypeOK
      <3>2. p # NoTask => p \in ancestors'[u] BY <3>1 DEF AncestorsFor
      <3>3. ASSUME p \in Recorded', sequence'[p] < sequence'[u]
            PROVE  ancestors'[p] \subseteq ancestors'[u]
        <4>1. p # t
          <5>1. sequence'[t] \in Int BY <1>2, SubmissionAdds DEF TypeOK
          <5> QED BY <2>3, <3>3, <5>1
        <4>2. p \in Recorded /\ ancestors'[p] = ancestors[p]
          BY <1>2, <3>3, <4>1, SubmissionAdds DEF Recorded
        <4>3. p # NoTask BY <4>2, NoneAssumption DEF Recorded
        <4> QED BY <3>1, <4>2, <4>3 DEF AncestorsFor
      <3> QED BY <3>2, <3>3
    <2> QED BY <2>2, <2>3
  <1> QED BY <1>1, <1>2, StepsOnlyLeave

LEMMA AncestorsReachInit == Init => AncestorsReach
  BY DEF Init, AncestorsReach, Recorded

-----------------------------------------------------------------------------
(* Generations.                                                            *)

\* The newest generation kept for a key was asked for by a task of the key.
LatestRequested ==
  \A k \in Keys : latest[k] # NoGeneration =>
    \E u \in Tasks : /\ request[u] # NoRequest /\ request[u].workKey = k
                     /\ request[u].generation = latest[k]

LEMMA LatestRequestedNext ==
  ASSUME TypeOK, Placed, Numbered, LatestRequested, [Next]_vars PROVE LatestRequested'
  <1>1. CASE OnlyLeaves BY <1>1 DEF OnlyLeaves, LatestRequested
  <1>2. ASSUME NEW c \in Callers, NEW t \in Tasks, NEW r \in NativeTaskRequest,
               SubmitRejected(c, t, r) \/ SubmitQueued(c, t, r) \/ SubmitUnqueued(c, t, r)
        PROVE  LatestRequested'
    <2> SUFFICES ASSUME NEW k \in Keys, latest'[k] # NoGeneration
                 PROVE  \E u \in Tasks : /\ request'[u] # NoRequest /\ request'[u].workKey = k
                                         /\ request'[u].generation = latest'[k]
      BY DEF LatestRequested
    <2>1. /\ request' = [request EXCEPT ![t] = r] /\ request[t] = NoRequest /\ r # NoRequest
      BY <1>2, SubmissionAdds, NoRequestIsNone
    <2>2. latest'[k] = latest[k] \/ (r.workKey = k /\ latest'[k] = r.generation)
      <3> DEFINE removed == RemovedBy(StaleTasks(r))
                 generations == GenerationsWithout(removed, LatestSeen(r))
      <3>1. /\ LatestSeen(r)[k] = latest[k] \/ (r.workKey = k /\ LatestSeen(r)[k] = r.generation)
        BY DEF LatestSeen, MaxGeneration, TypeOK
      <3>2. generations[k] = LatestSeen(r)[k] \/ generations[k] = NoGeneration
        BY DEF GenerationsWithout
      <3>3. generations \in [Keys -> Nat \cup {NoGeneration}]
        BY LatestSeenType, RemovalTypes
      <3>4. \/ latest' = generations
            \/ latest' = [generations EXCEPT ![r.workKey] = MaxGeneration(@, r.generation)]
        BY <1>2 DEF SubmitRejected, SubmitQueued, SubmitUnqueued, Accept
      <3> HIDE DEF generations
      <3> QED BY <3>1, <3>2, <3>3, <3>4 DEF MaxGeneration
    <2>3. CASE latest'[k] = latest[k]
      <3>1. PICK u \in Tasks : /\ request[u] # NoRequest /\ request[u].workKey = k
                               /\ request[u].generation = latest[k]
        BY <2>3 DEF LatestRequested
      <3>2. request'[u] = request[u] BY <2>1, <3>1
      <3> QED BY <2>3, <3>1, <3>2
    <2>4. CASE r.workKey = k /\ latest'[k] = r.generation
      <3>1. request'[t] = r BY <2>1 DEF TypeOK
      <3> QED BY <2>1, <2>4, <3>1
    <2> QED BY <2>2, <2>3, <2>4
  <1> QED BY <1>1, <1>2, StepsOnlyLeave

\* A submission of the strictly newest generation cancels all it finds in the index.
LEMMA NewestSweepsAll ==
  ASSUME TypeOK, Placed, WorkKeyIndexCoversRecords, LatestRequested,
         NEW t \in Tasks, NEW r \in NativeTaskRequest, request[t] = NoRequest, Sweeps(r),
         \A u \in Tasks \ {t} : \/ request[u] = NoRequest
                                \/ request[u].workKey # r.workKey
                                \/ MaxGeneration(request[u].generation, 0) < r.generation,
         NEW u \in taskIds[r.workKey]
  PROVE  TokensAfter(StaleTasks(r))[u]
  <1>1. r.workKey \in Keys /\ r.generation \in Nat
    BY DEF Sweeps, NativeTaskRequest, NoGeneration
  <1>2. r.generation > latest[r.workKey]
    <2>1. CASE latest[r.workKey] = NoGeneration BY <1>1, <2>1 DEF NoGeneration
    <2>2. CASE latest[r.workKey] # NoGeneration
      <3>1. PICK v \in Tasks : /\ request[v] # NoRequest /\ request[v].workKey = r.workKey
                               /\ request[v].generation = latest[r.workKey]
        BY <1>1, <2>2 DEF LatestRequested
      <3>2. MaxGeneration(request[v].generation, 0) < r.generation BY <3>1
      <3>3. latest[r.workKey] \in Int BY <1>1 DEF TypeOK, NoGeneration
      <3> QED BY <1>1, <3>1, <3>2, <3>3 DEF MaxGeneration
    <2> QED BY <2>1, <2>2
  <1>3. u \in Recorded /\ u \in Tasks /\ request[u].workKey = r.workKey
    BY <1>1 DEF WorkKeyIndexCoversRecords, Recorded
  <1>4. request[u] # NoRequest
    BY <1>3, NoRequestIsNone DEF Placed, Untouched, Recorded
  <1>5. MaxGeneration(request[u].generation, 0) < r.generation BY <1>3, <1>4
  <1>6. status[u] \in {"Queued", "Running"} BY <1>3 DEF Recorded, TypeOK
  <1>7. cancelled[u] \/ u \in StaleTasks(r) BY <1>2, <1>5, <1>6 DEF StaleTasks
  <1> QED BY <1>3, <1>7 DEF TokensAfter

LEMMA NewestGenerationNext ==
  ASSUME TypeOK, Placed, Numbered, WorkKeyIndexCoversRecords, LatestRequested,
         NewestGenerationWins, [Next]_vars
  PROVE  NewestGenerationWins'
  <1> SUFFICES ASSUME NEW t \in Accepted', Sweeps(request'[t]),
                      \A u \in Tasks \ {t} :
                         \/ request'[u] = NoRequest
                         \/ request'[u].workKey # request'[t].workKey
                         \/ MaxGeneration(request'[u].generation, 0) < request'[t].generation,
                      NEW u \in taskIds'[request'[t].workKey], sequence'[u] < sequence'[t]
               PROVE  cancelled'[u]
    <2>1. \A q : Sweeps(q)' <=> Sweeps(q) BY DEF Sweeps
    <2> QED BY <2>1 DEF NewestGenerationWins
  <1> DEFINE k == request'[t].workKey
  <1>1. t \in Tasks /\ sequence'[t] >= 0 BY DEF Accepted
  <1>2. TypeOK' BY TypeNext
  <1>3. k \in Keys /\ u \in Tasks
    <2>1. request'[t] # NoRequest
      <3>1. Numbered' BY NumberedNext
      <3> QED BY <1>1, <3>1 DEF Numbered
    <2>2. request'[t] \in NativeTaskRequest BY <1>1, <1>2, <2>1 DEF TypeOK
    <2>3. k \in Keys BY <2>2 DEF Sweeps, NativeTaskRequest
    <2> QED BY <1>2, <2>3 DEF TypeOK
  <1>4. CASE OnlyLeaves
    <2>1. t \in Accepted /\ u \in taskIds[k] /\ request' = request /\ sequence' = sequence
      BY <1>1, <1>3, <1>4 DEF OnlyLeaves, Accepted
    <2>2. cancelled[u] BY <2>1 DEF NewestGenerationWins
    <2> QED BY <1>3, <1>4, <2>2 DEF OnlyLeaves
  <1>5. ASSUME NEW c \in Callers, NEW s \in Tasks, NEW r \in NativeTaskRequest,
               SubmitRejected(c, s, r) \/ SubmitQueued(c, s, r) \/ SubmitUnqueued(c, s, r)
        PROVE  cancelled'[u]
    <2>1. /\ request' = [request EXCEPT ![s] = r] /\ request[s] = NoRequest
          /\ sequence[s] = -1 /\ cancelled' = TokensAfter(StaleTasks(r))
          /\ \A v \in Tasks : v # s => sequence'[v] = sequence[v]
          /\ taskIds'[k] \subseteq taskIds[k] \cup {s}
          /\ \/ sequence'[s] = -1 /\ taskIds'[k] \subseteq taskIds[k]
             \/ sequence'[s] = nextSequence
      BY <1>3, <1>5, SubmissionAdds
    <2>2. CASE t = s
      <3>1. request'[t] = r BY <2>1, <2>2 DEF TypeOK
      <3>2. \A v \in Tasks \ {t} : request'[v] = request[v] BY <2>1, <2>2
      <3>3. u # s
        <4>1. sequence'[s] \in Int BY <2>1 DEF TypeOK
        <4> QED BY <2>2, <4>1
      <3>4. u \in taskIds[r.workKey] BY <2>1, <3>1, <3>3
      <3> QED BY <2>1, <2>2, <3>1, <3>2, <3>4, NewestSweepsAll
    <2>3. CASE t # s
      <3>1. request'[t] = request[t] /\ sequence'[t] = sequence[t] /\ t \in Accepted
        BY <1>1, <2>1, <2>3 DEF Accepted
      <3>2. sequence[t] < nextSequence BY <1>1 DEF Numbered
      <3>3. status[s] = "absent" BY <1>5, SubmissionAdds
      <3>4. u \in taskIds[k] /\ u # s
        <4>1. s \notin taskIds[k] BY <1>3, <3>3 DEF WorkKeyIndexCoversRecords, Recorded
        <4>2. CASE u = s
          <5>1. sequence'[s] = nextSequence BY <2>1, <4>1, <4>2
          <5>2. sequence[t] \in Int /\ nextSequence \in Int BY <1>1 DEF TypeOK
          <5> QED BY <3>1, <3>2, <4>2, <5>1, <5>2
        <4> QED BY <2>1, <4>2
      <3>5. sequence[u] < sequence[t] BY <1>3, <2>1, <3>1, <3>4
      <3>6. \A v \in Tasks \ {t} :
              \/ request[v] = NoRequest
              \/ request[v].workKey # request[t].workKey
              \/ MaxGeneration(request[v].generation, 0) < request[t].generation
        BY <2>1, <3>1
      <3>7. cancelled[u] BY <3>1, <3>4, <3>5, <3>6 DEF NewestGenerationWins
      <3> QED BY <1>3, <2>1, <3>7 DEF TokensAfter
    <2> QED BY <2>2, <2>3
  <1> QED BY <1>4, <1>5, StepsOnlyLeave

LEMMA NewestGenerationInit == Init => LatestRequested /\ NewestGenerationWins
  BY DEF Init, LatestRequested, NewestGenerationWins, Accepted

-----------------------------------------------------------------------------
(* The order in which tasks start.                                         *)

\* Nothing waits in the queue when the policy is disabled.
Unqueued == Enabled \/ queue = {}

LEMMA UnqueuedNext == ASSUME TypeOK, Unqueued, [Next]_vars PROVE Unqueued'
  <1>1. queue' \subseteq queue \/ Enabled
    <2>1. ASSUME NEW t \in Tasks, WorkerStep(t) PROVE queue' = queue
      BY <2>1 DEF WorkerStep, WorkerStarts, WorkReturns, AsyncWorkPanics, SendTaskResult,
                  FinishRunningTask, queueAndIndexes
    <2> QED BY <2>1, StepKinds
            DEF SubmitRejected, SubmitQueued, SubmitUnqueued, CancelTokens,
                CompleteQueuedCancelled, Dispatch, DispatchNext, DispatchDone, vars
  <1> QED BY <1>1 DEF Unqueued

\* Steps after which nothing more is queued and no further worker exists.
LEMMA OvertakingKept ==
  ASSUME NoOvertakingInLane, UNCHANGED <<request, sequence>>, queue' \subseteq queue,
         \A t \in Tasks : worker'[t] # "none" => worker[t] # "none"
  PROVE  NoOvertakingInLane'
  BY DEF NoOvertakingInLane, Accepted, Lane

LEMMA OvertakingSubmit ==
  ASSUME TypeOK, Placed, Numbered, Unqueued, NoOvertakingInLane,
         NEW c \in Callers, NEW s \in Tasks, NEW r \in NativeTaskRequest,
         SubmitRejected(c, s, r) \/ SubmitQueued(c, s, r) \/ SubmitUnqueued(c, s, r)
  PROVE  NoOvertakingInLane'
  <1> SUFFICES ASSUME NEW t \in Accepted', NEW u \in Accepted', t \in queue',
                      Lane(t)' = Lane(u)', sequence'[t] < sequence'[u],
                      request'[t].priority <= request'[u].priority
               PROVE  worker'[u] = "none"
    BY DEF NoOvertakingInLane
  <1>1. t \in Tasks /\ u \in Tasks BY DEF Accepted
  <1>2. /\ request' = [request EXCEPT ![s] = r] /\ sequence[s] = -1
        /\ \A v \in Tasks : v # s => sequence'[v] = sequence[v]
        /\ sequence'[s] \in {-1, nextSequence}
    BY SubmissionAdds
  <1>3. CASE SubmitUnqueued(c, s, r) BY <1>3 DEF SubmitUnqueued, Unqueued
  <1>4. CASE SubmitRejected(c, s, r) \/ SubmitQueued(c, s, r)
    <2>1. worker' = worker /\ queue' \subseteq queue \cup {s}
      BY <1>4 DEF SubmitRejected, SubmitQueued
    <2>2. CASE u = s
      <3>1. request[s] = NoRequest BY SubmissionAdds
      <3> QED BY <2>1, <2>2, <3>1, FreshIsUntouched DEF Untouched
    <2>3. CASE u # s
      <3>1. sequence'[u] = sequence[u] /\ sequence[u] < nextSequence /\ sequence[u] \in Int
            /\ nextSequence \in Int
        BY <1>1, <1>2, <2>3 DEF Numbered, TypeOK
      <3>2. t # s
        <4>1. sequence'[t] >= 0 BY DEF Accepted
        <4> QED BY <1>2, <3>1, <4>1
      <3> QED BY <1>1, <1>2, <2>1, <2>3, <3>1, <3>2 DEF NoOvertakingInLane, Accepted, Lane
    <2> QED BY <2>2, <2>3
  <1> QED BY <1>3, <1>4

LEMMA OvertakingDispatch ==
  ASSUME TypeOK, Placed, NoOvertakingInLane, NEW th \in Callers \cup Tasks, Dispatch(th)
  PROVE  NoOvertakingInLane'
  <1>1. CASE DispatchDone(th) BY <1>1, OvertakingKept DEF DispatchDone
  <1>2. CASE DispatchNext(th)
    <2>1. PICK w \in queue : /\ PopNextReady(w) /\ queue' = queue \ {w}
                             /\ worker' = [worker EXCEPT ![w] = "spawned"]
      BY <1>2 DEF DispatchNext
    <2>2. UNCHANGED <<request, sequence>> BY <1>2 DEF DispatchNext
    <2> SUFFICES ASSUME NEW t \in Accepted, NEW u \in Accepted, t \in queue',
                        Lane(t) = Lane(u), sequence[t] < sequence[u],
                        request[t].priority <= request[u].priority
                 PROVE  worker'[u] = "none"
      BY <2>2 DEF NoOvertakingInLane, Accepted, Lane
    <2>3. t \in queue /\ u \in Tasks /\ t \in Tasks BY <2>1 DEF Accepted
    <2>4. worker[u] = "none" BY <2>3 DEF NoOvertakingInLane
    <2>5. u # w
      <3> SUFFICES ASSUME u = w PROVE FALSE OBVIOUS
      <3>1. t \in Ready /\ Precedes(u, t) BY <2>1, <2>3 DEF PopNextReady, Ready
      <3>2. request[t] \in NativeTaskRequest /\ request[u] \in NativeTaskRequest
        BY <2>3 DEF Placed, Untouched
      <3>3. request[t].priority \in Int /\ request[u].priority \in Int
        BY <3>2 DEF NativeTaskRequest, Priorities
      <3>4. sequence[t] \in Int /\ sequence[u] \in Int BY <2>3 DEF TypeOK
      <3> QED BY <3>1, <3>3, <3>4 DEF Precedes
    <2> QED BY <2>1, <2>3, <2>4, <2>5 DEF TypeOK
  <1> QED BY <1>1, <1>2 DEF Dispatch

LEMMA OvertakingNext ==
  ASSUME TypeOK, Placed, Numbered, Unqueued, NoOvertakingInLane, [Next]_vars
  PROVE  NoOvertakingInLane'
  <1>1. ASSUME NEW c \in Callers, NEW S \in SUBSET Recorded, CancelTokens(c, S)
        PROVE  NoOvertakingInLane'
    BY <1>1, OvertakingKept DEF CancelTokens
  <1>2. ASSUME NEW c \in Callers, NEW t \in Tasks, CompleteQueuedCancelled(c, t)
        PROVE  NoOvertakingInLane'
    BY <1>2, OvertakingKept DEF CompleteQueuedCancelled
  <1>3. ASSUME NEW t \in Tasks, WorkerStep(t) PROVE NoOvertakingInLane'
    <2>1. \A u \in Tasks : worker'[u] # "none" => worker[u] # "none"
      BY <1>3 DEF WorkerStep, WorkerStarts, WorkReturns, AsyncWorkPanics, SendTaskResult,
                  FinishRunningTask, TypeOK
    <2> QED BY <1>3, <2>1, OvertakingKept
            DEF WorkerStep, WorkerStarts, WorkReturns, AsyncWorkPanics, SendTaskResult,
                FinishRunningTask, queueAndIndexes
  <1>4. CASE UNCHANGED vars BY <1>4, OvertakingKept DEF vars
  <1> QED BY StepKinds, OvertakingSubmit, OvertakingDispatch, <1>1, <1>2, <1>3, <1>4

LEMMA OvertakingInit == Init => Unqueued /\ NoOvertakingInLane
  BY DEF Init, Unqueued, NoOvertakingInLane, Accepted

-----------------------------------------------------------------------------
(* The counters.                                                           *)

Running == {t \in Tasks : status[t] = "Running"}
Done == telemetry["ok"] + telemetry["failed"] + telemetry["cancelled"]
Balance == telemetry["queued"] = Cardinality(queue) + Cardinality(Running) + Done

LEMMA BalanceTypes ==
  ASSUME TypeOK
  PROVE  /\ IsFiniteSet(queue) /\ Cardinality(queue) \in Nat
         /\ IsFiniteSet(Running) /\ Cardinality(Running) \in Nat
         /\ Done \in Nat /\ telemetry["queued"] \in Nat
         /\ Balance => TelemetryBalances
  <1>1. /\ IsFiniteSet(queue) /\ Cardinality(queue) \in Nat
        /\ IsFiniteSet(Running) /\ Cardinality(Running) \in Nat
    BY TaskSetsAreFinite DEF TypeOK, Running
  <1>2. /\ telemetry["ok"] \in Nat /\ telemetry["failed"] \in Nat
        /\ telemetry["cancelled"] \in Nat /\ telemetry["queued"] \in Nat
    BY DEF TypeOK, Counters, Results
  <1>3. Done \in Nat BY <1>2 DEF Done
  <1>4. Balance => TelemetryBalances
    BY <1>1, <1>2 DEF Balance, TelemetryBalances, Running, Done
  <1> QED BY <1>1, <1>2, <1>3, <1>4

\* Removing tasks from the queue makes it smaller by as many.
LEMMA QueueShrinks ==
  ASSUME TypeOK, NEW S
  PROVE  /\ IsFiniteSet(queue \ RemovedBy(S)) /\ Cardinality(RemovedBy(S)) \in Nat
         /\ Cardinality(queue \ RemovedBy(S)) = Cardinality(queue) - Cardinality(RemovedBy(S))
  <1>1. RemovedBy(S) \subseteq Tasks /\ queue \cap RemovedBy(S) = RemovedBy(S)
    BY RemovedFromQueue DEF TypeOK
  <1>2. IsFiniteSet(queue \ RemovedBy(S)) /\ Cardinality(RemovedBy(S)) \in Nat
    BY <1>1, BalanceTypes, TaskSetsAreFinite, FS_Difference
  <1>3. Cardinality(queue \ RemovedBy(S)) = Cardinality(queue) - Cardinality(queue \cap RemovedBy(S))
    BY BalanceTypes, FS_Difference
  <1> QED BY <1>1, <1>2, <1>3

LEMMA BalanceSubmit ==
  ASSUME TypeOK, Placed, QueueBounded, Balance,
         NEW c \in Callers, NEW t \in Tasks, NEW r \in NativeTaskRequest,
         SubmitRejected(c, t, r) \/ SubmitQueued(c, t, r) \/ SubmitUnqueued(c, t, r)
  PROVE  Balance'
  <1> DEFINE removed == RemovedBy(StaleTasks(r))
  <1>1. status[t] = "absent" /\ t \notin queue /\ t \notin Running
    BY FreshIsUntouched
       DEF SubmitRejected, SubmitQueued, SubmitUnqueued, Untouched, Placed, Running
  <1>2. /\ IsFiniteSet(queue \ removed) /\ Cardinality(removed) \in Nat
        /\ Cardinality(queue \ removed) = Cardinality(queue) - Cardinality(removed)
    BY QueueShrinks
  <1>3. \A u \in removed : status[u] = "Queued" BY DEF RemovedBy, Placed, TypeOK
  <1>4. CASE SubmitRejected(c, t, r)
    <2>1. removed = {} BY <1>4, RejectionRemovesNothing DEF SubmitRejected
    <2>2. queue' = queue /\ Running' = Running
      BY <1>4, <2>1 DEF SubmitRejected, StatusWithout, Running, TypeOK
    <2>3. telemetry' = [telemetry EXCEPT !["rejected"] = @ + 1,
                                         !["stale"] = @ + Cardinality(StaleTasks(r)),
                                         !["cancelled"] = @ + Cardinality(removed)]
      BY <1>4 DEF SubmitRejected
    <2>4. Cardinality(removed) = 0 BY <2>1, FS_EmptySet
    <2> HIDE DEF removed
    <2>5. telemetry'["queued"] = telemetry["queued"] /\ Done' = Done
      BY <2>3, <2>4 DEF Done, TypeOK, Counters, Results
    <2> QED BY <2>2, <2>5 DEF Balance
  <1>5. ASSUME Accept(c, t, r)
        PROVE  telemetry'["queued"] = telemetry["queued"] + 1 /\ Done' = Done + Cardinality(removed)
    <2>1. telemetry' = [telemetry EXCEPT !["queued"] = @ + 1,
                                         !["stale"] = @ + Cardinality(StaleTasks(r)),
                                         !["cancelled"] = @ + Cardinality(removed)]
      BY <1>5 DEF Accept
    <2> HIDE DEF removed
    <2> QED BY <1>2, <2>1 DEF Done, TypeOK, Counters, Results
  <1>6. CASE SubmitQueued(c, t, r)
    <2>1. /\ queue' = (queue \ removed) \cup {t}
          /\ status' = [StatusWithout(removed) EXCEPT ![t] = "Queued"]
          /\ Accept(c, t, r)
      BY <1>6 DEF SubmitQueued
    <2> HIDE DEF removed
    <2>2. Running' = Running BY <1>1, <1>3, <2>1 DEF StatusWithout, Running, TypeOK
    <2>3. Cardinality(queue') = Cardinality(queue \ removed) + 1
      BY <1>1, <1>2, <2>1, FS_AddElement
    <2> QED BY <1>2, <1>5, <2>1, <2>2, <2>3, BalanceTypes DEF Balance
  <1>7. CASE SubmitUnqueued(c, t, r)
    <2>1. /\ queue' = queue \ removed
          /\ status' = [StatusWithout(removed) EXCEPT ![t] = "Running"]
          /\ Accept(c, t, r)
      BY <1>7 DEF SubmitUnqueued
    <2> HIDE DEF removed
    <2>2. Running' = Running \cup {t}
      BY <1>1, <1>3, <2>1 DEF StatusWithout, Running, TypeOK
    <2>3. Cardinality(Running') = Cardinality(Running) + 1
      BY <1>1, <2>2, FS_AddElement, BalanceTypes
    <2> QED BY <1>2, <1>5, <2>1, <2>3, BalanceTypes DEF Balance
  <1> QED BY <1>4, <1>6, <1>7

LEMMA BalanceCancel ==
  ASSUME TypeOK, Placed, Balance, NEW c \in Callers, NEW S, CancelTokens(c, S)
  PROVE  Balance'
  <1> DEFINE removed == RemovedBy(S)
  <1>1. \A u \in removed : status[u] = "Queued" BY DEF RemovedBy, Placed, TypeOK
  <1>2. /\ queue' = queue \ removed /\ status' = StatusWithout(removed)
        /\ telemetry' = [telemetry EXCEPT !["cancelled"] = @ + Cardinality(removed)]
    BY DEF CancelTokens
  <1>3. /\ Cardinality(removed) \in Nat
        /\ Cardinality(queue \ removed) = Cardinality(queue) - Cardinality(removed)
    BY QueueShrinks
  <1> HIDE DEF removed
  <1>4. Running' = Running BY <1>1, <1>2 DEF StatusWithout, Running, TypeOK
  <1>5. telemetry'["queued"] = telemetry["queued"] /\ Done' = Done + Cardinality(removed)
    BY <1>2, <1>3 DEF Done, TypeOK, Counters, Results
  <1> QED BY <1>2, <1>3, <1>4, <1>5, BalanceTypes DEF Balance

LEMMA BalanceDispatch ==
  ASSUME TypeOK, Placed, Balance, NEW th \in Callers \cup Tasks, Dispatch(th)
  PROVE  Balance'
  <1>1. CASE DispatchDone(th) BY <1>1 DEF DispatchDone, Balance, Running, Done
  <1>2. CASE DispatchNext(th)
    <2>1. PICK t \in queue : /\ queue' = queue \ {t}
                             /\ status' = [status EXCEPT ![t] = "Running"]
      BY <1>2 DEF DispatchNext
    <2>2. t \in Tasks /\ t \notin Running BY DEF Placed, Running, TypeOK
    <2>3. Running' = Running \cup {t} BY <2>1, <2>2 DEF Running, TypeOK
    <2>4. Cardinality(Running') = Cardinality(Running) + 1
      BY <2>2, <2>3, FS_AddElement, BalanceTypes
    <2>5. Cardinality(queue') = Cardinality(queue) - 1
      BY <2>1, FS_RemoveElement, BalanceTypes
    <2>6. telemetry' = telemetry BY <1>2 DEF DispatchNext
    <2>7. telemetry'["queued"] = telemetry["queued"] /\ Done' = Done BY <2>6 DEF Done
    <2> QED BY <2>4, <2>5, <2>7, BalanceTypes DEF Balance
  <1> QED BY <1>1, <1>2 DEF Dispatch

\* A finished task leaves the running ones and enters one counter.
LEMMA BalanceFinish ==
  ASSUME TypeOK, Placed, Owned, Balance, NEW t \in Tasks, FinishRunningTask(t)
  PROVE  Balance'
  <1>1. /\ worker[t] = "sent" /\ status' = StatusWithout({t}) /\ queue' = queue
        /\ telemetry' = [telemetry EXCEPT ![outcome[t]] = @ + 1]
    BY DEF FinishRunningTask
  <1>2. outcome[t] \in Results /\ t \in Running
    BY <1>1 DEF Owned, Placed, Occupying, Running
  <1>3. Running' = Running \ {t} BY <1>1, <1>2 DEF StatusWithout, Running, TypeOK
  <1>4. Cardinality(Running') = Cardinality(Running) - 1
    BY <1>2, <1>3, FS_RemoveElement, BalanceTypes
  <1>5. telemetry'["queued"] = telemetry["queued"] /\ Done' = Done + 1
    BY <1>1, <1>2 DEF Done, TypeOK, Counters, Results
  <1> QED BY <1>1, <1>4, <1>5, BalanceTypes DEF Balance

LEMMA BalanceNext ==
  ASSUME TypeOK, Placed, QueueBounded, Owned, Balance, [Next]_vars PROVE Balance'
  <1>1. ASSUME UNCHANGED <<status, queue, telemetry>> PROVE Balance'
    BY <1>1 DEF Balance, Running, Done
  <1>2. ASSUME NEW c \in Callers, NEW t \in Tasks, CompleteQueuedCancelled(c, t) PROVE Balance'
    BY <1>1, <1>2 DEF CompleteQueuedCancelled
  <1>3. ASSUME NEW t \in Tasks, WorkerStep(t), ~FinishRunningTask(t) PROVE Balance'
    BY <1>1, <1>3 DEF WorkerStep, WorkerStarts, WorkReturns, AsyncWorkPanics,
                      SendTaskResult, queueAndIndexes
  <1>4. CASE UNCHANGED vars BY <1>1, <1>4 DEF vars
  <1> QED BY StepKinds, BalanceSubmit, BalanceCancel, BalanceDispatch, BalanceFinish,
             <1>2, <1>3, <1>4

LEMMA BalanceInit == Init => Balance
  <1> SUFFICES ASSUME Init PROVE Balance OBVIOUS
  <1>1. queue = {} /\ Running = {} BY DEF Init, Running
  <1>2. telemetry["queued"] = 0 /\ Done = 0 BY DEF Init, Counters, Results, Done
  <1>3. Cardinality({}) = 0 BY FS_EmptySet
  <1> QED BY <1>1, <1>2, <1>3 DEF Balance

-----------------------------------------------------------------------------
(* Theorems.                                                               *)

LifeInv == /\ IInv /\ Numbered /\ Owned /\ WorkKeyIndexCoversRecords /\ AncestorsReach
           /\ LatestRequested /\ NewestGenerationWins
           /\ Unqueued /\ NoOvertakingInLane /\ Balance

THEOREM LifeInvariance == Spec => []LifeInv
  <1>1. Init => LifeInv
    BY IInvInit, NumberedInit, OwnedInit, IndexInit, AncestorsReachInit,
       NewestGenerationInit, OvertakingInit, BalanceInit DEF LifeInv
  <1>2. LifeInv /\ [Next]_vars => LifeInv'
    <2> SUFFICES ASSUME LifeInv, [Next]_vars PROVE LifeInv' OBVIOUS
    <2>1. IInv' BY IInvNext DEF LifeInv
    <2>2. TypeOK /\ Placed /\ QueueBounded BY DEF LifeInv, IInv
    <2> QED BY <2>1, <2>2, NumberedNext, OwnedNext, IndexNext, AncestorsReachNext,
               LatestRequestedNext, NewestGenerationNext, UnqueuedNext, OvertakingNext,
               BalanceNext
            DEF LifeInv
  <1> QED BY <1>1, <1>2, PTL DEF Spec

\* An accepted task has exactly one party left to answer it, until it is answered.
THEOREM WaiterHasOneOwnerCorrect == Spec => []WaiterHasOneOwner
  <1>1. LifeInv => WaiterHasOneOwner BY OwnedMeansOneOwner DEF LifeInv, IInv
  <1> QED BY <1>1, LifeInvariance, PTL

\* The work-key index lists the live tasks of each key and no newer generation
\* than it says.
THEOREM WorkKeyIndexCorrect == Spec => []WorkKeyIndexCoversRecords
  <1>1. LifeInv => WorkKeyIndexCoversRecords BY DEF LifeInv
  <1> QED BY <1>1, LifeInvariance, PTL

\* A sweep of the newest generation leaves no older task of its key uncancelled.
THEOREM NewestGenerationCorrect == Spec => []NewestGenerationWins
  <1>1. LifeInv => NewestGenerationWins BY DEF LifeInv
  <1> QED BY <1>1, LifeInvariance, PTL

\* Within a lane no task starts before an older one at least as urgent.
THEOREM NoOvertakingCorrect == Spec => []NoOvertakingInLane
  <1>1. LifeInv => NoOvertakingInLane BY DEF LifeInv
  <1> QED BY <1>1, LifeInvariance, PTL

\* Every accepted task is counted once: queued, running or in one result counter.
THEOREM TelemetryCorrect == Spec => []TelemetryBalances
  <1>1. LifeInv => TelemetryBalances BY BalanceTypes DEF LifeInv, IInv
  <1> QED BY <1>1, LifeInvariance, PTL

\* A job cancelled before it returned never succeeds.
THEOREM CancelledWorkCorrect == Spec => CancelledWorkNeverSucceeds
  <1> DEFINE NoSuccess ==
               \A t \in Tasks : cancelled[t] /\ outcome[t] = "none" => outcome'[t] # "ok"
  <1>1. TypeOK /\ [Next]_vars => [NoSuccess]_vars
    <2> SUFFICES ASSUME TypeOK, [Next]_vars,
                        NEW t \in Tasks, cancelled[t], outcome[t] = "none"
                 PROVE  outcome'[t] # "ok"
      OBVIOUS
    <2>1. ASSUME NEW u \in Tasks, WorkerStep(u) PROVE outcome'[t] # "ok"
      BY <2>1 DEF WorkerStep, WorkerStarts, WorkReturns, AsyncWorkPanics, SendTaskResult,
                  FinishRunningTask, ResultAfterToken, TypeOK
    <2>2. CASE outcome' = outcome BY <2>2
    <2> QED BY <2>1, <2>2, StepKinds
            DEF SubmitRejected, SubmitQueued, SubmitUnqueued, Accept, CancelTokens,
                CompleteQueuedCancelled, Dispatch, DispatchNext, DispatchDone, vars
  <1> QED BY <1>1, TypeCorrect, PTL DEF Spec, CancelledWorkNeverSucceeds

\* Cancelling a task reaches its live children and their live children, whether
\* or not the task is still alive.
THEOREM CancelReachesSubtreeCorrect == Spec => CancelReachesSubtree
  <1> DEFINE Reaches ==
               \A c \in Callers, g \in Tasks : Cancel(c, g) =>
                 \A u \in Recorded :
                    LET p == request[u].parent
                    IN (\/ p = g
                        \/ p \in Recorded /\ sequence[p] < sequence[u] /\ request[p].parent = g)
                       => cancelled'[u]
  <1>1. LifeInv => Reaches
    <2> SUFFICES ASSUME LifeInv, NEW c \in Callers, NEW g \in Tasks, Cancel(c, g),
                        NEW u \in Recorded,
                        \/ request[u].parent = g
                        \/ /\ request[u].parent \in Recorded
                           /\ sequence[request[u].parent] < sequence[u]
                           /\ request[request[u].parent].parent = g
                 PROVE  cancelled'[u]
      OBVIOUS
    <2>1. u \in RelatedTo(g)
      <3>1. AncestorsReach /\ g # NoTask BY NoneAssumption DEF LifeInv
      <3>2. CASE request[u].parent = g BY <3>2 DEF RelatedTo
      <3>3. CASE request[u].parent # g
        <4>1. g \in ancestors[request[u].parent] BY <3>1, <3>3 DEF AncestorsReach
        <4>2. g \in ancestors[u] BY <3>1, <3>3, <4>1 DEF AncestorsReach
        <4> QED BY <4>2 DEF RelatedTo
      <3> QED BY <3>2, <3>3
    <2> QED BY <2>1 DEF Cancel, CancelTokens, TokensAfter, Recorded
  <1>2. LifeInv /\ [Next]_vars => [Reaches]_vars BY <1>1
  <1> QED BY <1>2, LifeInvariance, PTL DEF Spec, CancelReachesSubtree
=============================================================================
