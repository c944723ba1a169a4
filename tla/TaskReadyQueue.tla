--------------------------- MODULE TaskReadyQueue ---------------------------
(***************************************************************************)
(* What the queue of the native task graph promises, without its buckets:  *)
(* the waiting tasks are a set, and a pop takes the most urgent, oldest    *)
(* task among those whose lane has a free slot.  NativeTaskGraph uses this *)
(* view (Ready, Precedes, PopNextReady); NativeTaskPriorityQueues shows    *)
(* that the buckets of the code implement it.                              *)
(***************************************************************************)
EXTENDS Naturals, FiniteSets

CONSTANTS Tasks, Lanes, Lane, Priority, LaneConcurrency

VARIABLES waiting, sequence, cancelled, active

vars == <<waiting, sequence, cancelled, active>>

Init ==
  /\ waiting = {}
  /\ sequence = [t \in Tasks |-> 0]
  /\ cancelled = {}
  /\ active = [l \in Lanes |-> 0]

Ready == {t \in waiting : active[Lane[t]] < LaneConcurrency[Lane[t]]}

MoreUrgent(t, u) ==
  \/ Priority[t] < Priority[u]
  \/ Priority[t] = Priority[u] /\ sequence[t] < sequence[u]

\* A task never queued before joins behind every task queued so far.
Push(t) ==
  /\ sequence[t] = 0
  /\ sequence' = [sequence EXCEPT ![t] = 1 + Cardinality({u \in Tasks : sequence[u] # 0})]
  /\ waiting' = waiting \cup {t}
  /\ UNCHANGED <<cancelled, active>>

Pop(t) ==
  /\ t \in Ready
  /\ \A u \in Ready \ {t} : MoreUrgent(t, u)
  /\ waiting' = waiting \ {t}
  /\ active' = [active EXCEPT ![Lane[t]] = @ + 1]
  /\ UNCHANGED <<sequence, cancelled>>

\* Tasks are cancelled, and every cancelled one leaves the queue.
Cancel(S) ==
  /\ cancelled' = cancelled \cup S
  /\ waiting' = waiting \ cancelled'
  /\ UNCHANGED <<sequence, active>>

Finish(l) ==
  /\ active[l] > 0
  /\ active' = [active EXCEPT ![l] = @ - 1]
  /\ UNCHANGED <<waiting, sequence, cancelled>>

Next ==
  \/ \E t \in Tasks : Push(t) \/ Pop(t)
  \/ \E S \in SUBSET Tasks : Cancel(S)
  \/ \E l \in Lanes : Finish(l)

Spec == Init /\ [][Next]_vars
=============================================================================
