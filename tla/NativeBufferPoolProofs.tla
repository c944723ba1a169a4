---------------------- MODULE NativeBufferPoolProofs ----------------------
(* Theorems about NativeBufferPool, for every set of requests and records,   *)
(* every limit and every delay.                                              *)
EXTENDS NativeBufferPool, InductionOnData, FiniteSetTheorems, TLAPS

\* The number of records a predicate selects is a number.
LEMMA BufferSetsAreFinite ==
  ASSUME NEW S, S \subseteq Buffers
  PROVE  IsFiniteSet(S) /\ Cardinality(S) \in Nat
  BY BuffersAssumption, FS_Subset, FS_CardinalityType

LEMMA InFlightType == ASSUME NEW st PROVE InFlight(st) \in Nat
  <1>1. {b \in Buffers : st[b] \in {"LeasedNative", "PostedToJs"}} \subseteq Buffers
    OBVIOUS
  <1> QED BY <1>1, BufferSetsAreFinite DEF InFlight

LEMMA UpdateType ==
  ASSUME NEW t \in [Counters -> Nat], NEW st
  PROVE  UpdateMaxInFlight(t, st) \in [Counters -> Nat]
  <1>1. \E n \in Nat : UpdateMaxInFlight(t, st) = [t EXCEPT !["maxInFlight"] = Larger(@, n)]
    BY InFlightType DEF UpdateMaxInFlight
  <1> QED BY <1>1 DEF Larger, Counters

\* What transition leaves is well typed.
LEMMA TransitionType ==
  ASSUME TypeOK, NEW r \in Requests, NEW old, NEW new \in BufferStates,
         Transition(r, old, new)
  PROVE  /\ state' \in [Buffers -> BufferStates]
         /\ age' \in [Buffers -> 0..StaleAfter]
         /\ telemetry' \in [Counters -> Nat]
  <1>1. telemetry' \in [Counters -> Nat]
    BY UpdateType, SMTT(30) DEF Transition, TypeOK
  <1>2. state' \in [Buffers -> BufferStates] /\ age' \in [Buffers -> 0..StaleAfter]
    <2>1. CASE Current(r) /\ state[lease[r].id] = old
      <3>1. 0 \in 0..StaleAfter BY LimitsAssumption
      <3>2. /\ state' = [state EXCEPT ![lease[r].id] = new]
            /\ age' = [age EXCEPT ![lease[r].id] = 0]
        BY <2>1 DEF Transition
      <3> QED BY <3>1, <3>2 DEF TypeOK
    <2>2. CASE ~(Current(r) /\ state[lease[r].id] = old)
      BY <2>2 DEF Transition, TypeOK
    <2> QED BY <2>1, <2>2
  <1> QED BY <1>1, <1>2

LEMMA TypeLease ==
  ASSUME TypeOK, NEW r \in Requests, LeaseReused(r) \/ LeaseNew(r) \/ LeaseWaits(r) \/ LeaseFails(r)
  PROVE  TypeOK'
  <1>1. CASE LeaseReused(r)
    <2> DEFINE t == [telemetry EXCEPT !["reuse"] = @ + 1]
    <2>1. PICK b \in Reusable(ShelfOf(r)) :
            /\ generation' = NextGeneration(b)
            /\ state' = [Freed(StalePosted(ShelfOf(r))) EXCEPT ![b] = "LeasedNative"]
            /\ age' = [a \in Buffers |-> IF a = b \/ a \in StalePosted(ShelfOf(r)) THEN 0 ELSE age[a]]
            /\ telemetry' = UpdateMaxInFlight(t, state')
            /\ lease' = [lease EXCEPT ![r] = [id |-> b, generation |-> generation'[b]]]
      BY <1>1 DEF LeaseReused
    <2>2. b \in Buffers BY DEF Reusable, OnShelf, StalePosted
    <2>3. t \in [Counters -> Nat] BY DEF TypeOK, Counters
    <2>4. telemetry' \in [Counters -> Nat]
      <3> HIDE DEF t
      <3> QED BY <2>1, <2>3, UpdateType
    <2>5. generation' \in [Buffers -> Nat] BY <2>1, <2>2 DEF NextGeneration, TypeOK
    <2>6. state' \in [Buffers -> BufferStates] BY <2>1, <2>2 DEF Freed, BufferStates, TypeOK
    <2>7. age' \in [Buffers -> 0..StaleAfter] BY <2>1, LimitsAssumption DEF TypeOK
    <2>8. lease' \in [Requests -> [id : Buffers \cup {NoBuffer}, generation : Nat]]
      BY <2>1, <2>2, <2>5 DEF TypeOK
    <2>9. phase' \in [Requests -> Phases] BY <1>1 DEF LeaseReused, Phases, TypeOK
    <2> QED BY <1>1, <2>4, <2>5, <2>6, <2>7, <2>8, <2>9 DEF LeaseReused, pageVars, TypeOK
  <1>2. CASE LeaseNew(r)
    <2>1. telemetry' \in [Counters -> Nat] BY <1>2, UpdateType DEF LeaseNew, TypeOK
    <2>2. /\ shelf' \in [Buffers -> {NoShelf} \cup {ShelfOf(q) : q \in Requests}]
          /\ state' \in [Buffers -> BufferStates]
          /\ lease' \in [Requests -> [id : Buffers \cup {NoBuffer}, generation : Nat]]
          /\ phase' \in [Requests -> Phases]
      BY <1>2 DEF LeaseNew, TypeOK, BufferStates, Phases
    <2> QED BY <1>2, <2>1, <2>2 DEF LeaseNew, pageVars, TypeOK
  <1>3. CASE LeaseWaits(r) \/ LeaseFails(r)
    BY <1>3 DEF LeaseWaits, LeaseFails, recordVars, pageVars, TypeOK, Phases
  <1> QED BY <1>1, <1>2, <1>3

LEMMA TypePost ==
  ASSUME TypeOK, NEW r \in Requests,
         PlatformView(r) \/ MarkPosted(r) \/ Schedule(r) \/ ScheduleFails(r)
  PROVE  TypeOK'
  <1>1. CASE PlatformView(r)
    <2>1. view' \in [Requests -> Requests \cup {NoMemory}]
      <3>1. CASE Current(r)
        <4>1. platform[lease[r].id] \in Requests \cup {NoMemory}
          BY <3>1 DEF Current, Names, TypeOK
        <4> QED BY <1>1, <3>1, <4>1 DEF PlatformView, TypeOK
      <3>2. CASE ~Current(r) BY <1>1, <3>2 DEF PlatformView, TypeOK
      <3> QED BY <3>1, <3>2
    <2>2. phase' \in [Requests -> Phases] BY <1>1, ZenonT(60) DEF PlatformView, TypeOK, Phases
    <2> QED BY <1>1, <2>1, <2>2 DEF PlatformView, recordVars, pageVars, TypeOK
  <1>2. CASE MarkPosted(r)
    <2>1. /\ state' \in [Buffers -> BufferStates]
          /\ age' \in [Buffers -> 0..StaleAfter]
          /\ telemetry' \in [Counters -> Nat]
      BY <1>2, TransitionType DEF MarkPosted, BufferStates
    <2> QED BY <1>2, <2>1 DEF MarkPosted, pageVars, TypeOK, Phases
  <1>3. CASE Schedule(r)
    <2>1. uiQueue' \in Seq(Requests) BY <1>3 DEF Schedule, TypeOK
    <2> QED BY <1>3, <2>1 DEF Schedule, recordVars, pageVars, TypeOK, Phases
  <1>4. CASE ScheduleFails(r)
    <2>1. /\ state' \in [Buffers -> BufferStates]
          /\ age' \in [Buffers -> 0..StaleAfter]
          /\ telemetry' \in [Counters -> Nat]
      BY <1>4, TransitionType DEF ScheduleFails, ReclaimAfterPostFailure, BufferStates
    <2> QED BY <1>4, <2>1 DEF ScheduleFails, pageVars, TypeOK, Phases
  <1> QED BY <1>1, <1>2, <1>3, <1>4

LEMMA TypeReceive ==
  ASSUME TypeOK, NEW r \in Requests,
         ReceiveTimesOut(r) \/ ReceiveReused(r) \/ ReceiveAllocated(r) \/ ReceiveFailure(r)
  PROVE  TypeOK'
  <1>1. CASE ReceiveTimesOut(r) \/ ReceiveReused(r)
    BY <1>1 DEF ReceiveTimesOut, ReceiveReused, recordVars, pageVars, TypeOK, Phases
  <1>2. CASE ReceiveAllocated(r)
    <2>1. CASE Current(r)
      <3>1. lease[r].id \in Buffers BY <2>1 DEF Current, Names
      <3>2. telemetry' \in [Counters -> Nat]
        BY <1>2, <2>1 DEF ReceiveAllocated, TypeOK, Counters
      <3> QED BY <1>2, <2>1, <3>1, <3>2 DEF ReceiveAllocated, pageVars, TypeOK, Phases
    <2>2. CASE ~Current(r)
      <3>1. /\ state' \in [Buffers -> BufferStates]
            /\ age' \in [Buffers -> 0..StaleAfter]
            /\ telemetry' \in [Counters -> Nat]
        BY <1>2, <2>2, TransitionType DEF ReceiveAllocated, ReclaimAfterPostFailure, BufferStates
      <3> QED BY <1>2, <2>2, <3>1 DEF ReceiveAllocated, pageVars, TypeOK, Phases
    <2> QED BY <2>1, <2>2
  <1>3. CASE ReceiveFailure(r)
    <2>1. /\ state' \in [Buffers -> BufferStates]
          /\ age' \in [Buffers -> 0..StaleAfter]
          /\ telemetry' \in [Counters -> Nat]
      BY <1>3, TransitionType DEF ReceiveFailure, ReclaimAfterPostFailure, BufferStates
    <2> QED BY <1>3, <2>1 DEF ReceiveFailure, pageVars, TypeOK, Phases
  <1> QED BY <1>1, <1>2, <1>3

\* The closure at the head of the queue is a request, and so is the owner of its memory.
LEMMA TargetType ==
  ASSUME TypeOK, uiQueue # <<>>
  PROVE  /\ Head(uiQueue) \in Requests
         /\ Target(Head(uiQueue)) \in Requests
         /\ Tail(uiQueue) \in Seq(Requests)
  <1>1. Head(uiQueue) \in Requests /\ Tail(uiQueue) \in Seq(Requests) BY DEF TypeOK
  <1> QED BY <1>1 DEF Target, TypeOK

LEMMA TypeUi == ASSUME TypeOK, UiStep PROVE TypeOK'
  <1>1. uiQueue # <<>> BY DEF UiStep, RunClosure, ClosureFails, ClosureDropped
  <1> DEFINE r == Head(uiQueue)
  <1>2. r \in Requests /\ Target(r) \in Requests /\ Tail(uiQueue) \in Seq(Requests)
    BY <1>1, TargetType
  <1>3. CASE RunClosure
    <2>1. /\ memory' = [memory EXCEPT ![Target(r)] = r]
          /\ posted' = posted \cup {r}
          /\ channel' = [channel EXCEPT ![r] = IF view[r] = NoMemory THEN "allocated" ELSE "reused"]
          /\ uiQueue' = Tail(uiQueue)
      BY <1>3 DEF RunClosure
    <2>2. UNCHANGED <<recordVars, phase, lease, view, decoded, releases>>
      BY <1>3 DEF RunClosure
    <2> HIDE DEF r
    <2> QED BY <1>2, <2>1, <2>2 DEF recordVars, TypeOK, Sent
  <1>4. CASE ClosureFails
    <2>1. /\ memory' \in {memory, [memory EXCEPT ![Target(r)] = r]}
          /\ channel' = [channel EXCEPT ![r] = "failed"]
          /\ uiQueue' = Tail(uiQueue)
      BY <1>4 DEF ClosureFails
    <2>2. UNCHANGED <<recordVars, phase, lease, view, posted, decoded, releases>>
      BY <1>4 DEF ClosureFails
    <2> HIDE DEF r
    <2>3. memory' \in [Requests -> Requests \cup {NoMemory}]
      <3>1. CASE memory' = memory BY <3>1 DEF TypeOK
      <3>2. CASE memory' = [memory EXCEPT ![Target(r)] = r] BY <1>2, <3>2 DEF TypeOK
      <3> QED BY <2>1, <3>1, <3>2
    <2>4. channel' \in [Requests -> Sent] BY <2>1 DEF TypeOK, Sent
    <2> QED BY <1>2, <2>1, <2>2, <2>3, <2>4 DEF recordVars, TypeOK
  <1>5. CASE ClosureDropped
    BY <1>2, <1>5 DEF ClosureDropped, recordVars, threadVars, pageVars, TypeOK
  <1> QED BY <1>3, <1>4, <1>5 DEF UiStep

LEMMA TypePage == ASSUME TypeOK, NEW r \in Requests, PageStep(r) PROVE TypeOK'
  <1>1. Target(r) \in Requests BY DEF Target, TypeOK
  <1> QED BY <1>1 DEF PageStep, PageDecodes, PageReleasesLate, PageMisses,
                      recordVars, threadVars, TypeOK

LEMMA TypeRelease ==
  ASSUME TypeOK, NEW S \in SUBSET releases, ReleaseMany(S) PROVE TypeOK'
  <1> DEFINE t == [telemetry EXCEPT
                     !["release"] = @ + Cardinality(ReleasedBy(S)),
                     !["mismatch"] = @ + Cardinality({r \in S : ~Current(r)})]
  <1>1. Cardinality(ReleasedBy(S)) \in Nat BY BufferSetsAreFinite DEF ReleasedBy
  <1>2. Cardinality({r \in S : ~Current(r)}) \in Nat
    <2>1. {r \in S : ~Current(r)} \subseteq Requests BY DEF TypeOK
    <2> QED BY <2>1, RequestsAssumption, FS_Subset, FS_CardinalityType
  <1>3. t \in [Counters -> Nat]
    <2>1. \E m, n \in Nat : t = [telemetry EXCEPT !["release"] = @ + m, !["mismatch"] = @ + n]
      BY <1>1, <1>2
    <2> HIDE DEF t
    <2>2. telemetry \in [Counters -> Nat] BY DEF TypeOK
    <2> QED BY <2>1, <2>2 DEF Counters
  <1>4. telemetry' = UpdateMaxInFlight(t, state') BY DEF ReleaseMany
  <1>5. telemetry' \in [Counters -> Nat]
    <2> HIDE DEF t
    <2> QED BY <1>3, <1>4, UpdateType
  <1>6. state' \in [Buffers -> BufferStates] /\ age' \in [Buffers -> 0..StaleAfter]
    BY LimitsAssumption DEF ReleaseMany, Freed, BufferStates, TypeOK
  <1> QED BY <1>5, <1>6 DEF ReleaseMany, threadVars, TypeOK

LEMMA TypeTick == ASSUME TypeOK, Tick PROVE TypeOK'
  <1>1. age' \in [Buffers -> 0..StaleAfter] BY LimitsAssumption DEF Tick, TypeOK
  <1> QED BY <1>1 DEF Tick, threadVars, pageVars, TypeOK

\* Every step keeps the types.
LEMMA TypeNext == TypeOK /\ [Next]_vars => TypeOK'
  <1> SUFFICES ASSUME TypeOK, [Next]_vars PROVE TypeOK' OBVIOUS
  <1>1. ASSUME NEW r \in Requests, ThreadStep(r) PROVE TypeOK'
    BY <1>1, TypeLease, TypePost, TypeReceive DEF ThreadStep
  <1>2. ASSUME NEW r \in Requests, PageStep(r) PROVE TypeOK' BY <1>2, TypePage
  <1>3. ASSUME UiStep PROVE TypeOK' BY <1>3, TypeUi
  <1>4. ASSUME NEW S \in SUBSET releases, ReleaseMany(S) PROVE TypeOK' BY <1>4, TypeRelease
  <1>5. ASSUME Tick PROVE TypeOK' BY <1>5, TypeTick
  <1>6. CASE UNCHANGED vars
    BY <1>6 DEF vars, recordVars, threadVars, pageVars, TypeOK
  <1> QED BY <1>1, <1>2, <1>3, <1>4, <1>5, <1>6 DEF Next

LEMMA TypeInit == Init => TypeOK
  BY LimitsAssumption DEF Init, TypeOK, NoLease, BufferStates, Counters, Phases, Sent

\* The state of the pool, its threads, the UI queue and the page is well typed.
THEOREM TypeCorrect == Spec => []TypeOK
  BY TypeInit, TypeNext, PTL DEF Spec

-----------------------------------------------------------------------------
\* Steps that leave the leases alone keep them different.
LEMMA LeasesKept ==
  ASSUME LeasesDiffer, UNCHANGED <<shelf, generation, lease>>,
         \A r \in Requests : phase'[r] \in Leasing => phase[r] \in Leasing,
         \A b \in Buffers : shelf[b] = NoShelf => state'[b] \in {state[b], "Free"}
  PROVE  LeasesDiffer'
  <1>1. \A b \in Buffers : shelf'[b] = NoShelf => generation'[b] = 0 /\ state'[b] = "Free"
    BY DEF LeasesDiffer
  <1>2. \A r \in Requests : phase'[r] \in Leasing => lease'[r] = NoLease
    BY DEF LeasesDiffer
  <1> QED BY <1>1, <1>2 DEF LeasesDiffer

LEMMA ShelfIsNamed == ASSUME NEW r PROVE ShelfOf(r) # NoShelf
  BY DEF ShelfOf, NoShelf

\* A lease takes a generation nobody has had: the next of its record, or the first.
LEMMA LeasesDifferLease ==
  ASSUME TypeOK, LeasesDiffer, NEW r \in Requests, LeaseReused(r) \/ LeaseNew(r)
  PROVE  LeasesDiffer'
  <1>1. CASE LeaseReused(r)
    <2>1. PICK b \in Reusable(ShelfOf(r)) :
            /\ generation' = NextGeneration(b)
            /\ state' = [Freed(StalePosted(ShelfOf(r))) EXCEPT ![b] = "LeasedNative"]
            /\ lease' = [lease EXCEPT ![r] = [id |-> b, generation |-> generation'[b]]]
      BY <1>1 DEF LeaseReused
    <2>2. b \in Buffers /\ shelf[b] = ShelfOf(r)
      BY DEF Reusable, OnShelf, StalePosted
    <2>3. shelf' = shelf /\ phase' = [phase EXCEPT ![r] = "leased"]
      BY <1>1 DEF LeaseReused
    <2>4. /\ generation'[b] = generation[b] + 1
          /\ \A a \in Buffers : a # b => generation'[a] = generation[a]
      BY <2>1, <2>2 DEF NextGeneration, TypeOK
    <2>5. /\ lease'[r] = [id |-> b, generation |-> generation[b] + 1]
          /\ \A q \in Requests : q # r => lease'[q] = lease[q]
      BY <2>1, <2>4 DEF TypeOK
    <2>6. \A q \in Requests : lease[q].generation \in Nat BY DEF TypeOK
    <2>7. \A a \in Buffers : generation[a] \in Nat BY DEF TypeOK
    <2>8. \A q \in Requests : phase'[q] \in Leasing => lease'[q] = NoLease
      BY <2>3, <2>5 DEF LeasesDiffer, Leasing, TypeOK
    <2>9. \A q \in Requests, a \in Buffers :
            lease'[q].id = a => shelf'[a] = ShelfOf(q) /\ lease'[q].generation <= generation'[a]
      <3> TAKE q \in Requests, a \in Buffers
      <3>1. CASE q = r BY <3>1, <2>2, <2>3, <2>4, <2>5, <2>7
      <3>2. CASE q # r
        <4>1. lease[q].id = a => shelf[a] = ShelfOf(q) /\ lease[q].generation <= generation[a]
          BY DEF LeasesDiffer
        <4> QED BY <3>2, <4>1, <2>3, <2>4, <2>5, <2>6, <2>7
      <3> QED BY <3>1, <3>2
    <2>10. \A q, s \in Requests :
             q # s /\ lease'[q].id = lease'[s].id /\ lease'[q].id # NoBuffer =>
               lease'[q].generation # lease'[s].generation
      <3>1. \A q \in Requests : q # r /\ lease[q].id = b => lease[q].generation # generation[b] + 1
        BY <2>2, <2>6, <2>7 DEF LeasesDiffer
      <3>2. \A q, s \in Requests :
              q # s /\ lease[q].id = lease[s].id /\ lease[q].id # NoBuffer =>
                lease[q].generation # lease[s].generation
        BY DEF LeasesDiffer
      <3> QED BY <3>1, <3>2, <2>5
    <2>11. \A a \in Buffers : shelf'[a] = NoShelf => generation'[a] = 0 /\ state'[a] = "Free"
      BY <2>1, <2>2, <2>3, <2>4, ShelfIsNamed DEF LeasesDiffer, Freed
    <2> QED BY <2>8, <2>9, <2>10, <2>11 DEF LeasesDiffer
  <1>2. CASE LeaseNew(r)
    <2>1. PICK b \in Buffers :
            /\ shelf[b] = NoShelf
            /\ shelf' = [shelf EXCEPT ![b] = ShelfOf(r)]
            /\ state' = [state EXCEPT ![b] = "LeasedNative"]
            /\ lease' = [lease EXCEPT ![r] = [id |-> b, generation |-> 0]]
      BY <1>2 DEF LeaseNew, Fresh
    <2>2. generation' = generation /\ phase' = [phase EXCEPT ![r] = "leased"]
      BY <1>2 DEF LeaseNew
    <2>3. \A q \in Requests : lease[q].id # b
      BY <2>1, ShelfIsNamed DEF LeasesDiffer
    <2>4. /\ lease'[r] = [id |-> b, generation |-> 0]
          /\ \A q \in Requests : q # r => lease'[q] = lease[q]
      BY <2>1 DEF TypeOK
    <2>5. \A q \in Requests : phase'[q] \in Leasing => lease'[q] = NoLease
      BY <2>2, <2>4 DEF LeasesDiffer, Leasing, TypeOK
    <2>6. \A q \in Requests, a \in Buffers :
            lease'[q].id = a => shelf'[a] = ShelfOf(q) /\ lease'[q].generation <= generation'[a]
      <3>1. shelf'[b] = ShelfOf(r) /\ generation[b] = 0
        BY <2>1 DEF TypeOK, LeasesDiffer
      <3>2. \A a \in Buffers : a # b => shelf'[a] = shelf[a] BY <2>1 DEF TypeOK
      <3>3. \A q \in Requests, a \in Buffers :
              lease[q].id = a => shelf[a] = ShelfOf(q) /\ lease[q].generation <= generation[a]
        BY DEF LeasesDiffer
      <3> QED BY <2>2, <2>3, <2>4, <3>1, <3>2, <3>3
    <2>7. \A q, s \in Requests :
            q # s /\ lease'[q].id = lease'[s].id /\ lease'[q].id # NoBuffer =>
              lease'[q].generation # lease'[s].generation
      BY <2>3, <2>4 DEF LeasesDiffer
    <2>8. \A a \in Buffers : shelf'[a] = NoShelf => generation'[a] = 0 /\ state'[a] = "Free"
      BY <2>1, <2>2, ShelfIsNamed DEF LeasesDiffer, TypeOK
    <2> QED BY <2>5, <2>6, <2>7, <2>8 DEF LeasesDiffer
  <1> QED BY <1>1, <1>2

\* A transition changes the state of the record the request leased, if any.
LEMMA TransitionAt ==
  ASSUME TypeOK, NEW r \in Requests, NEW old, NEW new, Transition(r, old, new)
  PROVE  \A b \in Buffers :
           /\ state'[b] # state[b] \/ age'[b] # age[b] =>
                Names(r, b) /\ state[b] = old /\ state'[b] = new
           /\ Names(r, b) /\ state[b] = old => state'[b] = new /\ age'[b] = 0
  <1>1. CASE Current(r) /\ state[lease[r].id] = old
    <2>1. PICK b \in Buffers : Names(r, b) BY <1>1 DEF Current
    <2>2. lease[r].id = b BY <2>1 DEF Names
    <2>3. state' = [state EXCEPT ![b] = new] /\ age' = [age EXCEPT ![b] = 0]
      BY <1>1, <2>2 DEF Transition
    <2> QED BY <1>1, <2>1, <2>2, <2>3 DEF Names, TypeOK
  <1>2. CASE ~(Current(r) /\ state[lease[r].id] = old)
    <2>1. state' = state /\ age' = age BY <1>2 DEF Transition
    <2>2. \A b \in Buffers : ~(Names(r, b) /\ state[b] = old)
      BY <1>2 DEF Current, Names
    <2> QED BY <2>1, <2>2
  <1> QED BY <1>1, <1>2

LEMMA TransitionOnShelf ==
  ASSUME TypeOK, LeasesDiffer, NEW r \in Requests, NEW old, NEW new, Transition(r, old, new)
  PROVE  \A b \in Buffers : shelf[b] = NoShelf => state'[b] = state[b]
  BY TransitionAt, ShelfIsNamed DEF LeasesDiffer, Names

LEMMA LeasesDifferNext ==
  ASSUME TypeOK, LeasesDiffer, [Next]_vars PROVE LeasesDiffer'
  <1>1. ASSUME NEW r \in Requests, LeaseWaits(r) \/ LeaseFails(r) PROVE LeasesDiffer'
    BY <1>1, LeasesKept DEF LeaseWaits, LeaseFails, Leasing, recordVars, Leasing, TypeOK
  <1>2. ASSUME NEW r \in Requests, PlatformView(r) \/ Schedule(r) PROVE LeasesDiffer'
    BY <1>2, LeasesKept DEF PlatformView, Schedule, recordVars, Leasing, TypeOK
  <1>3. ASSUME NEW r \in Requests, MarkPosted(r) PROVE LeasesDiffer'
    <2>1. \A b \in Buffers : shelf[b] = NoShelf => state'[b] = state[b]
      BY <1>3, TransitionOnShelf DEF MarkPosted
    <2> QED BY <1>3, <2>1, LeasesKept DEF MarkPosted, Leasing, TypeOK
  <1>4. ASSUME NEW r \in Requests, ScheduleFails(r) PROVE LeasesDiffer'
    <2>1. \A b \in Buffers : shelf[b] = NoShelf => state'[b] = state[b]
      BY <1>4, TransitionOnShelf DEF ScheduleFails, ReclaimAfterPostFailure
    <2> QED BY <1>4, <2>1, LeasesKept DEF ScheduleFails, Leasing, TypeOK
  <1>5. ASSUME NEW r \in Requests, ReceiveTimesOut(r) \/ ReceiveReused(r) PROVE LeasesDiffer'
    BY <1>5, LeasesKept DEF ReceiveTimesOut, ReceiveReused, recordVars, Leasing, TypeOK
  <1>6. ASSUME NEW r \in Requests, ReceiveAllocated(r) PROVE LeasesDiffer'
    <2>1. \A b \in Buffers : shelf[b] = NoShelf => state'[b] = state[b]
      BY <1>6, TransitionOnShelf DEF ReceiveAllocated, ReclaimAfterPostFailure
    <2>2. \A q \in Requests : phase'[q] \in Leasing => phase[q] \in Leasing
      BY <1>6 DEF ReceiveAllocated, Leasing, TypeOK
    <2> QED BY <1>6, <2>1, <2>2, LeasesKept DEF ReceiveAllocated
  <1>7. ASSUME NEW r \in Requests, ReceiveFailure(r) PROVE LeasesDiffer'
    <2>1. \A b \in Buffers : shelf[b] = NoShelf => state'[b] = state[b]
      BY <1>7, TransitionOnShelf DEF ReceiveFailure, ReclaimAfterPostFailure
    <2> QED BY <1>7, <2>1, LeasesKept DEF ReceiveFailure, Leasing, TypeOK
  <1>8. ASSUME NEW r \in Requests, PageStep(r) PROVE LeasesDiffer'
    BY <1>8, LeasesKept DEF PageStep, PageDecodes, PageReleasesLate, PageMisses,
                            recordVars, threadVars
  <1>9. ASSUME UiStep PROVE LeasesDiffer'
    BY <1>9, LeasesKept DEF UiStep, RunClosure, ClosureFails, ClosureDropped, recordVars, threadVars, pageVars
  <1>10. ASSUME NEW S \in SUBSET releases, ReleaseMany(S) PROVE LeasesDiffer'
    <2>1. \A b \in Buffers : state'[b] \in {state[b], "Free"}
      BY <1>10 DEF ReleaseMany, Freed
    <2> QED BY <1>10, <2>1, LeasesKept DEF ReleaseMany, threadVars
  <1>11. ASSUME Tick PROVE LeasesDiffer'
    BY <1>11, LeasesKept DEF Tick, threadVars
  <1>12. CASE UNCHANGED vars
    BY <1>12, LeasesKept DEF vars, recordVars, threadVars
  <1> QED BY LeasesDifferLease, <1>1, <1>2, <1>3, <1>4, <1>5, <1>6, <1>7, <1>8, <1>9,
             <1>10, <1>11, <1>12 DEF Next, ThreadStep

LEMMA LeasesDifferInit == Init => LeasesDiffer
  BY BuffersAssumption DEF Init, LeasesDiffer, NoLease, NoShelf

LEMMA LeasedOnce == ASSUME LeasesDiffer PROVE IdentityLeasedOnce
  <1> SUFFICES ASSUME NEW r \in Requests, NEW s \in Requests, NEW b \in Buffers,
                      Names(r, b), Names(s, b)
               PROVE  r = s
    BY DEF IdentityLeasedOnce
  <1>1. lease[r].id = lease[s].id /\ lease[r].id # NoBuffer
        /\ lease[r].generation = lease[s].generation
    BY BuffersAssumption DEF Names
  <1> QED BY <1>1 DEF LeasesDiffer

\* An identity is leased once, whatever the delays: the generation of a record never
\* comes back, so an operation that arrives late is recognised.
THEOREM IdentityLeasedOnceCorrect == Spec => []IdentityLeasedOnce
  <1>1. TypeOK /\ LeasesDiffer => IdentityLeasedOnce BY LeasedOnce
  <1>2. Spec => [](TypeOK /\ LeasesDiffer)
    <2>1. Init => TypeOK /\ LeasesDiffer BY TypeInit, LeasesDifferInit
    <2>2. TypeOK /\ LeasesDiffer /\ [Next]_vars => (TypeOK /\ LeasesDiffer)'
      BY TypeNext, LeasesDifferNext
    <2> QED BY <2>1, <2>2, PTL DEF Spec
  <1> QED BY <1>1, <1>2, PTL

-----------------------------------------------------------------------------
\* What a queue without repetitions holds after an append, and after a pop.
LEMMA AppendHolds ==
  ASSUME NEW T, NEW q \in Seq(T), NEW x \in T, NEW p, p = Append(q, x)
  PROVE  /\ {p[i] : i \in 1..Len(p)} = {q[i] : i \in 1..Len(q)} \cup {x}
         /\ /\ x \notin {q[i] : i \in 1..Len(q)}
            /\ \A i, j \in 1..Len(q) : q[i] = q[j] => i = j
            => \A i, j \in 1..Len(p) : p[i] = p[j] => i = j
  <1>1. /\ Len(p) = Len(q) + 1 /\ Len(q) \in Nat
        /\ \A i \in 1..Len(q) : p[i] = q[i]
        /\ p[Len(q) + 1] = x
    OBVIOUS
  <1>2. 1..Len(p) = (1..Len(q)) \cup {Len(q) + 1} BY <1>1
  <1> QED BY <1>1, <1>2

LEMMA TailHolds ==
  ASSUME NEW T, NEW q \in Seq(T), q # <<>>,
         \A i, j \in 1..Len(q) : q[i] = q[j] => i = j
  PROVE  /\ {Tail(q)[i] : i \in 1..Len(Tail(q))} = {q[i] : i \in 1..Len(q)} \ {Head(q)}
         /\ Head(q) \in {q[i] : i \in 1..Len(q)}
         /\ \A i, j \in 1..Len(Tail(q)) : Tail(q)[i] = Tail(q)[j] => i = j
  <1> DEFINE p == Tail(q)
  <1>1. /\ Len(q) \in Nat /\ Len(q) > 0 /\ Len(p) = Len(q) - 1
        /\ \A i \in 1..Len(p) : p[i] = q[i + 1]
        /\ Head(q) = q[1]
    OBVIOUS
  <1> HIDE DEF p
  <1>2. \A i \in 1..Len(p) : i + 1 \in 1..Len(q) /\ i + 1 # 1 BY <1>1
  <1>3. \A i, j \in 1..Len(p) : p[i] = p[j] => i = j BY <1>1, <1>2
  <1>4. \A i \in 1..Len(p) : p[i] \in {q[k] : k \in 1..Len(q)} \ {Head(q)}
    BY <1>1, <1>2
  <1>5. \A k \in 1..Len(q) : q[k] # Head(q) => q[k] \in {p[i] : i \in 1..Len(p)}
    <2> TAKE k \in 1..Len(q)
    <2> HAVE q[k] # Head(q)
    <2>1. k - 1 \in 1..Len(p) /\ p[k - 1] = q[k] BY <1>1
    <2> QED BY <2>1
  <1>6. 1 \in 1..Len(q) BY <1>1
  <1>7. {p[i] : i \in 1..Len(p)} = {q[i] : i \in 1..Len(q)} \ {Head(q)}
    BY <1>4, <1>5
  <1>8. Head(q) \in {q[i] : i \in 1..Len(q)}
    BY <1>1, <1>6
  <1> QED BY <1>3, <1>7, <1>8 DEF p

\* Steps that leave the queue and the page alone keep every packet in one place.
LEMMA PlacesKept ==
  ASSUME OnePlace, UNCHANGED <<channel, uiQueue, posted, releases>>,
         \A r \in Requests :
           phase'[r] \in Leasing \cup {"leased", "viewed", "marked"} =>
             phase[r] \in Leasing \cup {"leased", "viewed", "marked"}
  PROVE  OnePlace'
  BY DEF OnePlace, Queued

LEMMA OnePlaceThread ==
  ASSUME TypeOK, OnePlace, NEW r \in Requests, ThreadStep(r) PROVE OnePlace'
  <1>1. CASE Schedule(r)
    <2>1. r \notin Queued \cup posted \cup releases /\ channel[r] = "nothing"
      BY <1>1 DEF Schedule, OnePlace
    <2>2. /\ uiQueue' = Append(uiQueue, r) /\ uiQueue \in Seq(Requests)
          /\ phase' = [phase EXCEPT ![r] = "receiving"]
          /\ UNCHANGED <<channel, posted, releases>>
      BY <1>1 DEF Schedule, pageVars, TypeOK
    <2>3. Queued' = Queued \cup {r} BY <2>2, AppendHolds DEF Queued
    <2>4. \A i, j \in 1..Len(uiQueue') : uiQueue'[i] = uiQueue'[j] => i = j
      BY <2>1, <2>2, AppendHolds DEF Queued, OnePlace
    <2>5. \A q \in Requests :
            phase'[q] \in Leasing \cup {"leased", "viewed", "marked"} =>
              channel'[q] = "nothing" /\ q \notin Queued' \cup posted' \cup releases'
      BY <2>2, <2>3 DEF OnePlace, Leasing, TypeOK
    <2>6. \A q \in Queued' : channel'[q] = "nothing" /\ q \notin posted' \cup releases'
      BY <2>1, <2>2, <2>3 DEF OnePlace
    <2>7. \A q \in posted' : channel'[q] \in {"reused", "allocated"} /\ q \notin releases'
      BY <2>2 DEF OnePlace
    <2> QED BY <2>4, <2>5, <2>6, <2>7 DEF OnePlace
  <1>2. CASE LeaseReused(r) \/ LeaseNew(r) \/ LeaseWaits(r) \/ LeaseFails(r)
    BY <1>2, PlacesKept
       DEF LeaseReused, LeaseNew, LeaseWaits, LeaseFails, Leasing, pageVars, TypeOK
  <1>3. CASE PlatformView(r)
    BY <1>3, PlacesKept DEF PlatformView, Leasing, pageVars, TypeOK
  <1>4. CASE MarkPosted(r) \/ ScheduleFails(r)
    BY <1>4, PlacesKept DEF MarkPosted, ScheduleFails, Leasing, pageVars, TypeOK
  <1>5. CASE ReceiveTimesOut(r) \/ ReceiveReused(r) \/ ReceiveFailure(r)
    BY <1>5, PlacesKept
       DEF ReceiveTimesOut, ReceiveReused, ReceiveFailure, Leasing, pageVars, TypeOK
  <1>6. CASE ReceiveAllocated(r)
    BY <1>6, PlacesKept DEF ReceiveAllocated, Leasing, pageVars, TypeOK
  <1> QED BY <1>1, <1>2, <1>3, <1>4, <1>5, <1>6 DEF ThreadStep

LEMMA OnePlaceUi == ASSUME TypeOK, OnePlace, UiStep PROVE OnePlace'
  <1> DEFINE r == Head(uiQueue)
  <1>1. uiQueue # <<>> /\ uiQueue' = Tail(uiQueue) /\ uiQueue \in Seq(Requests)
        /\ UNCHANGED <<phase, releases>>
    BY DEF UiStep, RunClosure, ClosureFails, ClosureDropped, threadVars, pageVars, TypeOK
  <1>2. /\ Queued' = Queued \ {r} /\ r \in Queued
        /\ \A i, j \in 1..Len(uiQueue') : uiQueue'[i] = uiQueue'[j] => i = j
    <2>1. \A i, j \in 1..Len(uiQueue) : uiQueue[i] = uiQueue[j] => i = j BY DEF OnePlace
    <2> DEFINE q == Tail(uiQueue)
    <2>2. /\ {q[i] : i \in 1..Len(q)} = {uiQueue[i] : i \in 1..Len(uiQueue)} \ {r}
          /\ r \in {uiQueue[i] : i \in 1..Len(uiQueue)}
          /\ \A i, j \in 1..Len(q) : q[i] = q[j] => i = j
      BY <1>1, <2>1, TailHolds
    <2>3. uiQueue' = q BY <1>1
    <2> HIDE DEF q, r
    <2> QED BY <2>2, <2>3, ZenonT(60) DEF Queued
  <1>3. r \in Requests BY <1>1, TargetType
  <1>4. \/ /\ posted' = posted \cup {r}
           /\ channel' = [channel EXCEPT ![r] = IF view[r] = NoMemory THEN "allocated" ELSE "reused"]
        \/ posted' = posted /\ channel' = [channel EXCEPT ![r] = "failed"]
        \/ posted' = posted /\ channel' = channel
    BY DEF UiStep, RunClosure, ClosureFails, ClosureDropped, threadVars, pageVars
  <1>5. /\ posted' # posted => channel'[r] \in {"allocated", "reused"}
        /\ \A q \in Requests : q # r => channel'[q] = channel[q]
        /\ posted' \subseteq posted \cup {r}
    <2> HIDE DEF r
    <2> QED BY <1>3, <1>4 DEF TypeOK
  <1>6. r \notin posted \cup releases BY <1>2 DEF OnePlace
  <1>7. posted \subseteq Requests /\ Queued \subseteq Requests BY <1>1 DEF TypeOK, Queued
  <1> HIDE DEF r
  <1>8. \A q \in Requests :
          phase'[q] \in Leasing \cup {"leased", "viewed", "marked"} =>
            channel'[q] = "nothing" /\ q \notin Queued' \cup posted' \cup releases'
    BY <1>1, <1>2, <1>5 DEF OnePlace
  <1>9. \A q \in Queued' : channel'[q] = "nothing" /\ q \notin posted' \cup releases'
    BY <1>1, <1>2, <1>5, <1>7 DEF OnePlace
  <1>10. \A q \in posted' : channel'[q] \in {"reused", "allocated"} /\ q \notin releases'
    BY <1>1, <1>5, <1>6, <1>7 DEF OnePlace
  <1> QED BY <1>2, <1>8, <1>9, <1>10 DEF OnePlace

LEMMA OnePlaceNext == ASSUME TypeOK, OnePlace, [Next]_vars PROVE OnePlace'
  <1>1. ASSUME NEW r \in Requests, PageStep(r) PROVE OnePlace'
    <2>1. /\ UNCHANGED <<phase, channel, uiQueue>> /\ r \in posted
          /\ posted' = posted \ {r}
          /\ releases' \in {releases, releases \cup {r}}
      BY <1>1 DEF PageStep, PageDecodes, PageReleasesLate, PageMisses, threadVars
    <2>2. Queued' = Queued BY <2>1 DEF Queued
    <2> QED BY <2>1, <2>2 DEF OnePlace
  <1>2. ASSUME NEW S \in SUBSET releases, ReleaseMany(S) PROVE OnePlace'
    <2>1. /\ UNCHANGED <<phase, channel, uiQueue, posted>>
          /\ releases' \subseteq releases
      BY <1>2 DEF ReleaseMany, threadVars
    <2>2. Queued' = Queued BY <2>1 DEF Queued
    <2> QED BY <2>1, <2>2 DEF OnePlace
  <1>3. ASSUME Tick PROVE OnePlace'
    BY <1>3, PlacesKept DEF Tick, threadVars, pageVars
  <1>4. CASE UNCHANGED vars BY <1>4, PlacesKept DEF vars, threadVars, pageVars
  <1> QED BY OnePlaceThread, OnePlaceUi, <1>1, <1>2, <1>3, <1>4 DEF Next

LEMMA OnePlaceInit == Init => OnePlace
  BY DEF Init, OnePlace, Queued

\* The part of the invariant that needs no bound on the delays.
AnyDelay == TypeOK /\ LeasesDiffer /\ OnePlace

THEOREM AnyDelayInvariance == Spec => []AnyDelay
  <1>1. Init => AnyDelay BY TypeInit, LeasesDifferInit, OnePlaceInit DEF AnyDelay
  <1>2. AnyDelay /\ [Next]_vars => AnyDelay'
    BY TypeNext, LeasesDifferNext, OnePlaceNext DEF AnyDelay
  <1> QED BY <1>1, <1>2, PTL DEF Spec

\* A release frees the record of its own lease only, however late it arrives: never
\* one whose packet the page has still to read.
THEOREM ReleaseHitsItsOwnLeaseCorrect == Spec => ReleaseHitsItsOwnLease
  <1> DEFINE Freeing == \A b \in Buffers :
               releases' # releases /\ state[b] = "PostedToJs" /\ state'[b] = "Free" =>
                 \A r \in Requests : ~(Pending(r) /\ Names(r, b))
  <1>1. AnyDelay /\ [Next]_vars => [Freeing]_vars
    <2> SUFFICES ASSUME AnyDelay, [Next]_vars, releases' # releases,
                        NEW b \in Buffers, state[b] = "PostedToJs", state'[b] = "Free",
                        NEW r \in Requests, Pending(r), Names(r, b)
                 PROVE  FALSE
      OBVIOUS
    <2>1. ASSUME NEW q \in Requests, ThreadStep(q) PROVE releases' = releases
      BY <2>1 DEF ThreadStep, LeaseReused, LeaseNew, LeaseWaits, LeaseFails, PlatformView, MarkPosted,
                  Schedule, ScheduleFails, ReceiveTimesOut, ReceiveReused,
                  ReceiveAllocated, ReceiveFailure, pageVars
    <2>2. ASSUME NEW q \in Requests, PageStep(q) PROVE state' = state
      BY <2>2 DEF PageStep, PageDecodes, PageReleasesLate, PageMisses, recordVars
    <2>3. ASSUME UiStep PROVE releases' = releases
      BY <2>3 DEF UiStep, RunClosure, ClosureFails, ClosureDropped, threadVars, pageVars
    <2>4. ASSUME NEW S \in SUBSET releases, ReleaseMany(S) PROVE FALSE
      <3>1. b \in ReleasedBy(S) BY <2>4 DEF ReleaseMany, Freed
      <3>2. PICK s \in S : Names(s, b) BY <3>1 DEF ReleasedBy
      <3>3. s \in Requests /\ s \in releases BY DEF AnyDelay, TypeOK
      <3>4. s = r BY <3>2, <3>3, LeasedOnce DEF AnyDelay, IdentityLeasedOnce
      <3>5. ~Pending(s) BY <3>3 DEF Pending, AnyDelay, OnePlace
      <3> QED BY <3>4, <3>5
    <2>5. ASSUME Tick \/ UNCHANGED vars PROVE releases' = releases
      BY <2>5 DEF Tick, vars, pageVars
    <2> QED BY <2>1, <2>2, <2>3, <2>4, <2>5 DEF Next
  <1> QED BY <1>1, AnyDelayInvariance, PTL DEF Spec, ReleaseHitsItsOwnLease

-----------------------------------------------------------------------------
(* From here on packets are handled before their record counts as stale:     *)
(* DeliveryWithin <= StaleAfter.                                             *)

Early == {"leased", "viewed"}

\* Steps that leave records and leases alone keep the owners.
LEMMA OwnersKept ==
  ASSUME Owners, UNCHANGED <<generation, state, age, lease>>,
         \A q \in Requests : phase'[q] \in Early => phase[q] \in Early,
         \A q \in Requests : Pending(q)' => Pending(q)
  PROVE  Owners'
  BY DEF Owners, Names, Early

\* A transition of r leaves the records other requests lease alone.
LEMMA OthersKeep ==
  ASSUME TypeOK, LeasesDiffer, NEW r \in Requests, NEW old, NEW new,
         Transition(r, old, new), UNCHANGED <<generation, lease>>,
         NEW q \in Requests, q # r, NEW b \in Buffers, Names(q, b)
  PROVE  Names(q, b)' /\ state'[b] = state[b] /\ age'[b] = age[b]
  <1>1. ~Names(r, b) BY LeasedOnce DEF IdentityLeasedOnce
  <1> QED BY <1>1, TransitionAt DEF Names

\* A transition of r keeps the owners when it gives r what its new phase calls for.
LEMMA OwnersTransition ==
  ASSUME TypeOK, LeasesDiffer, Owners, NEW r \in Requests, NEW old, NEW new,
         Transition(r, old, new), UNCHANGED <<generation, lease, uiQueue, posted>>,
         \A q \in Requests : q # r => phase'[q] = phase[q],
         phase'[r] \notin Early,
         Pending(r)' => \E b \in Buffers :
           Names(r, b)' /\ state'[b] = "PostedToJs" /\ age'[b] < DeliveryWithin
  PROVE  Owners'
  <1>1. \A q \in Requests : q # r => (Pending(q)' => Pending(q)) BY DEF Pending, Queued
  <1>2. ASSUME NEW q \in Requests, phase'[q] \in Early
        PROVE  \E b \in Buffers : Names(q, b)' /\ state'[b] = "LeasedNative"
    <2>1. q # r /\ phase[q] \in Early BY <1>2
    <2>2. PICK b \in Buffers : Names(q, b) /\ state[b] = "LeasedNative"
      BY <2>1 DEF Owners, Early
    <2> QED BY <2>1, <2>2, OthersKeep
  <1>3. ASSUME NEW q \in Requests, Pending(q)'
        PROVE  \E b \in Buffers :
                 Names(q, b)' /\ state'[b] = "PostedToJs" /\ age'[b] < DeliveryWithin
    <2>1. CASE q = r BY <1>3, <2>1
    <2>2. CASE q # r
      <3>1. PICK b \in Buffers :
              Names(q, b) /\ state[b] = "PostedToJs" /\ age[b] < DeliveryWithin
        BY <1>1, <1>3, <2>2 DEF Owners
      <3> QED BY <2>2, <3>1, OthersKeep
    <2> QED BY <2>1, <2>2
  <1> QED BY <1>2, <1>3 DEF Owners, Early

\* A lease takes no record that belongs to a request.
LEMMA OwnersLease ==
  ASSUME DeliveryWithin <= StaleAfter, AnyDelay, Owners, NEW r \in Requests,
         LeaseReused(r) \/ LeaseNew(r)
  PROVE  Owners'
  <1> USE DEF AnyDelay
  <1>1. /\ phase' = [phase EXCEPT ![r] = "leased"] /\ phase[r] \in Leasing
        /\ UNCHANGED <<uiQueue, posted>>
    BY DEF LeaseReused, LeaseNew, pageVars
  <1>2. /\ ~Pending(r)'
        /\ \A q \in Requests : q # r => (Pending(q)' => Pending(q))
        /\ \A q \in Requests : q # r => phase'[q] = phase[q]
    <2>1. /\ phase'[r] = "leased"
          /\ \A q \in Requests : q # r => phase'[q] = phase[q]
      BY <1>1 DEF TypeOK
    <2>2. r \notin Queued /\ r \notin posted BY <1>1 DEF OnePlace
    <2>3. Queued' = Queued /\ posted' = posted BY <1>1 DEF Queued
    <2> QED BY <2>1, <2>2, <2>3 DEF Pending
  <1>3. PICK b \in Buffers :
          /\ lease'[r].id = b /\ lease'[r].generation = generation'[b]
          /\ state'[b] = "LeasedNative"
          /\ \A q \in Requests : q # r => lease'[q] = lease[q]
          /\ \A a \in Buffers : a # b => generation'[a] = generation[a]
          /\ \/ state[b] = "Free"
             \/ state[b] = "PostedToJs" /\ age[b] >= StaleAfter
          /\ \A a \in Buffers : a # b /\ ~(state[a] = "PostedToJs" /\ age[a] >= StaleAfter) =>
               state'[a] = state[a] /\ age'[a] = age[a]
    <2>1. CASE LeaseReused(r)
      <3>1. PICK b \in Reusable(ShelfOf(r)) :
              /\ generation' = NextGeneration(b)
              /\ state' = [Freed(StalePosted(ShelfOf(r))) EXCEPT ![b] = "LeasedNative"]
              /\ age' = [a \in Buffers |-> IF a = b \/ a \in StalePosted(ShelfOf(r)) THEN 0 ELSE age[a]]
              /\ lease' = [lease EXCEPT ![r] = [id |-> b, generation |-> generation'[b]]]
        BY <2>1 DEF LeaseReused
      <3>2. b \in Buffers /\ (state[b] = "Free" \/ (state[b] = "PostedToJs" /\ age[b] >= StaleAfter))
        BY DEF Reusable, OnShelf, StalePosted
      <3>3. \A a \in Buffers : a # b => generation'[a] = generation[a]
        BY <3>1, <3>2 DEF NextGeneration, TypeOK
      <3>4. \A a \in Buffers : a # b /\ ~(state[a] = "PostedToJs" /\ age[a] >= StaleAfter) =>
               state'[a] = state[a] /\ age'[a] = age[a]
        BY <3>1, <3>2 DEF Freed, StalePosted
      <3>5. state'[b] = "LeasedNative" BY <3>1, <3>2 DEF Freed
      <3>6. lease'[r] = [id |-> b, generation |-> generation'[b]]
            /\ \A q \in Requests : q # r => lease'[q] = lease[q]
        BY <3>1 DEF TypeOK
      <3> QED BY <3>2, <3>3, <3>4, <3>5, <3>6
    <2>2. CASE LeaseNew(r)
      <3>1. PICK b \in Buffers :
              /\ shelf[b] = NoShelf
              /\ state' = [state EXCEPT ![b] = "LeasedNative"]
              /\ lease' = [lease EXCEPT ![r] = [id |-> b, generation |-> 0]]
        BY <2>2 DEF LeaseNew, Fresh
      <3>2. generation' = generation /\ age' = age BY <2>2 DEF LeaseNew
      <3>3. state[b] = "Free" /\ generation[b] = 0 BY <3>1 DEF LeasesDiffer
      <3>4. state'[b] = "LeasedNative" /\ \A a \in Buffers : a # b => state'[a] = state[a]
        BY <3>1 DEF TypeOK
      <3>5. lease'[r] = [id |-> b, generation |-> 0]
            /\ \A q \in Requests : q # r => lease'[q] = lease[q]
        BY <3>1 DEF TypeOK
      <3> QED BY <3>2, <3>3, <3>4, <3>5
    <2> QED BY <2>1, <2>2
  <1>4. ASSUME NEW q \in Requests, phase'[q] \in Early
        PROVE  \E a \in Buffers : Names(q, a)' /\ state'[a] = "LeasedNative"
    <2>1. CASE q = r BY <1>3, <2>1 DEF Names
    <2>2. CASE q # r
      <3>1. PICK a \in Buffers : Names(q, a) /\ state[a] = "LeasedNative"
        BY <1>2, <1>4, <2>2 DEF Owners, Early
      <3>2. a # b BY <1>3, <3>1
      <3> QED BY <1>3, <2>2, <3>1, <3>2 DEF Names
    <2> QED BY <2>1, <2>2
  <1>5. ASSUME NEW q \in Requests, Pending(q)'
        PROVE  \E a \in Buffers :
                 Names(q, a)' /\ state'[a] = "PostedToJs" /\ age'[a] < DeliveryWithin
    <2>1. q # r /\ Pending(q) BY <1>2, <1>5
    <2>2. PICK a \in Buffers :
            Names(q, a) /\ state[a] = "PostedToJs" /\ age[a] < DeliveryWithin
      BY <2>1 DEF Owners
    <2>3. ~(age[a] >= StaleAfter)
      <3>1. age[a] \in Int BY DEF TypeOK
      <3> QED BY <2>2, <3>1, LimitsAssumption
    <2>4. a # b BY <1>3, <2>2, <2>3
    <2> QED BY <1>3, <2>1, <2>2, <2>3, <2>4 DEF Names
  <1> QED BY <1>4, <1>5 DEF Owners, Early

LEMMA OwnersThread ==
  ASSUME DeliveryWithin <= StaleAfter, AnyDelay, Owners, NEW r \in Requests, ThreadStep(r)
  PROVE  Owners'
  <1> USE DEF AnyDelay
  <1>1. CASE LeaseReused(r) \/ LeaseNew(r) BY <1>1, OwnersLease
  <1>2. CASE LeaseWaits(r) \/ LeaseFails(r) \/ PlatformView(r) \/ ReceiveTimesOut(r) \/ ReceiveReused(r)
    <2>1. UNCHANGED <<generation, state, age, lease, uiQueue, posted>>
      BY <1>2 DEF LeaseWaits, LeaseFails, PlatformView, ReceiveTimesOut, ReceiveReused, recordVars, pageVars
    <2>2. \A q \in Requests : phase'[q] \in Early => phase[q] \in Early
      BY <1>2 DEF LeaseWaits, LeaseFails, PlatformView, ReceiveTimesOut, ReceiveReused, TypeOK, Early
    <2>3. \A q \in Requests : phase'[q] = "marked" => phase[q] = "marked"
      BY <1>2 DEF LeaseWaits, LeaseFails, PlatformView, ReceiveTimesOut, ReceiveReused, TypeOK
    <2>4. \A q \in Requests : Pending(q)' => Pending(q) BY <2>1, <2>3 DEF Pending, Queued
    <2> QED BY <2>1, <2>2, <2>4, OwnersKept
  <1>3. CASE MarkPosted(r)
    <2>1. PICK b \in Buffers : Names(r, b) /\ state[b] = "LeasedNative"
      BY <1>3 DEF MarkPosted, Owners
    <2>2. /\ Transition(r, "LeasedNative", "PostedToJs")
          /\ UNCHANGED <<generation, lease, uiQueue, posted>>
          /\ \A q \in Requests : q # r => phase'[q] = phase[q]
          /\ phase'[r] \notin Early
      BY <1>3 DEF MarkPosted, pageVars, TypeOK, Early
    <2>3. Names(r, b)' /\ state'[b] = "PostedToJs" /\ age'[b] < DeliveryWithin
      BY <2>1, <2>2, TransitionAt, LimitsAssumption DEF Names
    <2> QED BY <2>2, <2>3, OwnersTransition
  <1>4. CASE Schedule(r)
    <2>1. UNCHANGED <<generation, state, age, lease, posted>>
      BY <1>4 DEF Schedule, recordVars, pageVars
    <2>2. Queued' = Queued \cup {r}
      <3>1. uiQueue \in Seq(Requests) /\ uiQueue' = Append(uiQueue, r)
        BY <1>4 DEF Schedule, TypeOK
      <3> QED BY <3>1, AppendHolds DEF Queued
    <2>3. \A q \in Requests : phase'[q] \in Early => phase[q] \in Early
      BY <1>4 DEF Schedule, TypeOK, Early
    <2>4. \A q \in Requests : Pending(q)' => Pending(q)
      BY <1>4, <2>1, <2>2 DEF Schedule, Pending, TypeOK
    <2> QED BY <2>1, <2>3, <2>4, OwnersKept
  <1>5. CASE ScheduleFails(r) \/ ReceiveFailure(r)
    <2>1. /\ Transition(r, "PostedToJs", "Free")
          /\ UNCHANGED <<generation, lease, uiQueue, posted>>
          /\ phase' = [phase EXCEPT ![r] = "error"]
      BY <1>5 DEF ScheduleFails, ReceiveFailure, ReclaimAfterPostFailure, pageVars
    <2>2. r \notin Queued \cup posted
      BY <1>5 DEF ScheduleFails, ReceiveFailure, OnePlace
    <2>3. ~Pending(r)' BY <2>1, <2>2 DEF Pending, Queued, TypeOK
    <2>4. phase'[r] \notin Early /\ \A q \in Requests : q # r => phase'[q] = phase[q]
      BY <2>1 DEF TypeOK, Early
    <2> QED BY <2>1, <2>3, <2>4, OwnersTransition
  <1>6. CASE ReceiveAllocated(r)
    <2>1. UNCHANGED <<generation, state, age, lease, uiQueue, posted>>
      BY <1>6 DEF ReceiveAllocated, ReclaimAfterPostFailure, Transition, pageVars
    <2>2. \A q \in Requests : /\ phase'[q] \in Early => phase[q] \in Early
                              /\ phase'[q] = "marked" => phase[q] = "marked"
      BY <1>6 DEF ReceiveAllocated, TypeOK, Early
    <2>3. \A q \in Requests : Pending(q)' => Pending(q) BY <2>1, <2>2 DEF Pending, Queued
    <2> QED BY <2>1, <2>2, <2>3, OwnersKept
  <1> QED BY <1>1, <1>2, <1>3, <1>4, <1>5, <1>6 DEF ThreadStep

\* The closure takes its request off the queue and passes it to the page at most.
LEMMA UiPops ==
  ASSUME TypeOK, OnePlace, UiStep
  PROVE  /\ Head(uiQueue) \in Queued /\ Head(uiQueue) \notin posted
         /\ Queued' = Queued \ {Head(uiQueue)}
         /\ posted' \subseteq posted \cup {Head(uiQueue)}
  <1>1. uiQueue # <<>> /\ uiQueue' = Tail(uiQueue) /\ uiQueue \in Seq(Requests)
        /\ posted' \subseteq posted \cup {Head(uiQueue)}
    BY DEF UiStep, RunClosure, ClosureFails, ClosureDropped, threadVars, pageVars, TypeOK
  <1>2. \A i, j \in 1..Len(uiQueue) : uiQueue[i] = uiQueue[j] => i = j BY DEF OnePlace
  <1> DEFINE q == Tail(uiQueue)
             r == Head(uiQueue)
  <1>3. /\ {q[i] : i \in 1..Len(q)} = {uiQueue[i] : i \in 1..Len(uiQueue)} \ {r}
        /\ r \in {uiQueue[i] : i \in 1..Len(uiQueue)}
    BY <1>1, <1>2, TailHolds
  <1>4. uiQueue' = q BY <1>1
  <1> HIDE DEF q, r
  <1>5. Queued' = Queued \ {r} /\ r \in Queued BY <1>3, <1>4 DEF Queued
  <1>6. r \notin posted BY <1>5 DEF OnePlace
  <1> QED BY <1>1, <1>5, <1>6 DEF r

LEMMA OwnersNext ==
  ASSUME DeliveryWithin <= StaleAfter, AnyDelay, Owners, [Next]_vars PROVE Owners'
  <1> USE DEF AnyDelay
  <1>1. ASSUME NEW r \in Requests, ThreadStep(r) PROVE Owners' BY <1>1, OwnersThread
  <1>2. ASSUME NEW r \in Requests, PageStep(r) PROVE Owners'
    <2>1. /\ UNCHANGED <<generation, state, age, lease, phase, uiQueue>>
          /\ posted' \subseteq posted
      BY <1>2 DEF PageStep, PageDecodes, PageReleasesLate, PageMisses, recordVars, threadVars
    <2>2. \A q \in Requests : Pending(q)' => Pending(q) BY <2>1 DEF Pending, Queued
    <2> QED BY <2>1, <2>2, OwnersKept
  <1>3. ASSUME UiStep PROVE Owners'
    <2>1. UNCHANGED <<generation, state, age, lease, phase>>
      BY <1>3 DEF UiStep, RunClosure, ClosureFails, ClosureDropped, recordVars, threadVars, pageVars
    <2>2. \A q \in Requests : Pending(q)' => Pending(q)
      BY <1>3, <2>1, UiPops DEF Pending
    <2> QED BY <2>1, <2>2, OwnersKept
  <1>4. ASSUME NEW S \in SUBSET releases, ReleaseMany(S) PROVE Owners'
    <2>1. /\ UNCHANGED <<generation, lease, phase, uiQueue, posted>>
          /\ state' = Freed(ReleasedBy(S))
          /\ age' = [b \in Buffers |-> IF b \in ReleasedBy(S) THEN 0 ELSE age[b]]
      BY <1>4 DEF ReleaseMany, threadVars
    <2>2. \A b \in Buffers : b \notin ReleasedBy(S) => state'[b] = state[b] /\ age'[b] = age[b]
      BY <2>1 DEF Freed
    <2>3. ASSUME NEW r \in Requests, NEW b \in Buffers, Names(r, b), Pending(r)
          PROVE  b \notin ReleasedBy(S)
      <3>1. SUFFICES ASSUME NEW s \in S, Names(s, b) PROVE FALSE BY DEF ReleasedBy
      <3>2. s \in Requests /\ s \in releases BY DEF TypeOK
      <3>3. s = r BY <2>3, <3>1, <3>2, LeasedOnce DEF IdentityLeasedOnce
      <3> QED BY <2>3, <3>2, <3>3 DEF Pending, OnePlace
    <2>4. ASSUME NEW r \in Requests, phase'[r] \in {"leased", "viewed"}
          PROVE  \E b \in Buffers : Names(r, b)' /\ state'[b] = "LeasedNative"
      <3>1. PICK b \in Buffers : Names(r, b) /\ state[b] = "LeasedNative"
        BY <2>1, <2>4 DEF Owners
      <3>2. b \notin ReleasedBy(S) BY <3>1 DEF ReleasedBy
      <3> QED BY <2>1, <2>2, <3>1, <3>2 DEF Names
    <2>5. ASSUME NEW r \in Requests, Pending(r)'
          PROVE  \E b \in Buffers :
                   Names(r, b)' /\ state'[b] = "PostedToJs" /\ age'[b] < DeliveryWithin
      <3>1. Pending(r) BY <2>1, <2>5 DEF Pending, Queued
      <3>2. PICK b \in Buffers :
              Names(r, b) /\ state[b] = "PostedToJs" /\ age[b] < DeliveryWithin
        BY <3>1 DEF Owners
      <3> QED BY <2>1, <2>2, <2>3, <3>1, <3>2 DEF Names
    <2> QED BY <2>4, <2>5 DEF Owners
  <1>5. ASSUME Tick PROVE Owners'
    <2>1. UNCHANGED <<generation, state, lease, phase, uiQueue, posted>>
      BY <1>5 DEF Tick, threadVars, pageVars
    <2>2. \A r \in Requests, b \in Buffers :
            Pending(r) /\ Names(r, b) => age'[b] < DeliveryWithin
      <3> SUFFICES ASSUME NEW r \in Requests, NEW b \in Buffers, Pending(r), Names(r, b)
                   PROVE  age'[b] < DeliveryWithin
        OBVIOUS
      <3>1. age[b] + 1 < DeliveryWithin BY <1>5 DEF Tick
      <3>2. age'[b] \in {age[b] + 1, age[b]} BY <1>5 DEF Tick
      <3>3. age[b] \in Int BY DEF TypeOK
      <3> QED BY <3>1, <3>2, <3>3, LimitsAssumption
    <2>3. \A r \in Requests : (Pending(r)' <=> Pending(r)) BY <2>1 DEF Pending, Queued
    <2> QED BY <2>1, <2>2, <2>3 DEF Owners, Names
  <1>6. CASE UNCHANGED vars
    <2>1. UNCHANGED <<generation, state, age, lease, phase, uiQueue, posted>>
      BY <1>6 DEF vars, recordVars, threadVars, pageVars
    <2>2. \A q \in Requests : Pending(q)' => Pending(q) BY <2>1 DEF Pending, Queued
    <2> QED BY <2>1, <2>2, OwnersKept
  <1> QED BY <1>1, <1>2, <1>3, <1>4, <1>5, <1>6 DEF Next

-----------------------------------------------------------------------------
LEMMA MemoryPlacesKept ==
  ASSUME MemoryPlaces, UNCHANGED <<platform, lease, channel, view>> PROVE MemoryPlaces'
  BY DEF MemoryPlaces

LEMMA MemoryPlacesThread ==
  ASSUME AnyDelay, MemoryPlaces, NEW r \in Requests, ThreadStep(r) PROVE MemoryPlaces'
  <1> USE DEF AnyDelay
  <1>1. CASE LeaseReused(r) \/ LeaseNew(r)
    <2>1. /\ phase[r] \in Leasing /\ UNCHANGED <<platform, channel, view>>
          /\ \A q \in Requests : q # r => lease'[q] = lease[q]
      BY <1>1 DEF LeaseReused, LeaseNew, TypeOK
    <2>2. channel[r] = "nothing" /\ lease[r].id \notin Buffers
      BY <2>1, BuffersAssumption DEF OnePlace, LeasesDiffer, Leasing, NoLease
    <2>3. \A b \in Buffers : platform[b] # r
      BY <2>2, RequestsAssumption DEF MemoryPlaces
    <2>4. view[r] = NoMemory BY <2>2 DEF MemoryPlaces
    <2>5. platform \in [Buffers -> Requests \cup {NoMemory}] BY DEF TypeOK
    <2> QED BY <2>1, <2>3, <2>4, <2>5 DEF MemoryPlaces
  <1>2. CASE PlatformView(r)
    <2>1. UNCHANGED <<platform, lease, channel>>
      BY <1>2 DEF PlatformView, recordVars
    <2>2. CASE Current(r)
      <3>1. view' = [view EXCEPT ![r] = platform[lease[r].id]]
        BY <1>2, <2>2 DEF PlatformView
      <3>2. lease[r].id \in Buffers BY <2>2 DEF Current, Names
      <3> QED BY <2>1, <3>1, <3>2 DEF MemoryPlaces, TypeOK
    <2>3. CASE ~Current(r)
      BY <1>2, <2>1, <2>3, MemoryPlacesKept DEF PlatformView
    <2> QED BY <2>2, <2>3
  <1>3. CASE ReceiveAllocated(r)
    <2>1. /\ channel[r] = "allocated" /\ UNCHANGED <<lease, channel, view>>
      BY <1>3 DEF ReceiveAllocated
    <2>2. CASE platform' = platform BY <2>1, <2>2, MemoryPlacesKept
    <2>3. CASE platform' # platform
      <3>1. /\ Current(r) /\ platform[lease[r].id] = NoMemory
            /\ platform' = [platform EXCEPT ![lease[r].id] = r]
        BY <1>3, <2>3 DEF ReceiveAllocated
      <3>2. lease[r].id \in Buffers BY <3>1 DEF Current, Names
      <3>3. platform \in [Buffers -> Requests \cup {NoMemory}] BY DEF TypeOK
      <3> QED BY <2>1, <3>1, <3>2, <3>3 DEF MemoryPlaces
    <2> QED BY <2>2, <2>3
  <1>4. CASE LeaseWaits(r) \/ LeaseFails(r) \/ MarkPosted(r) \/ Schedule(r) \/ ScheduleFails(r)
             \/ ReceiveTimesOut(r) \/ ReceiveReused(r) \/ ReceiveFailure(r)
    BY <1>4, MemoryPlacesKept
       DEF LeaseWaits, LeaseFails, MarkPosted, Schedule, ScheduleFails, ReceiveTimesOut, ReceiveReused,
           ReceiveFailure, recordVars
  <1> QED BY <1>1, <1>2, <1>3, <1>4 DEF ThreadStep

LEMMA MemoryPlacesNext == ASSUME AnyDelay, MemoryPlaces, [Next]_vars PROVE MemoryPlaces'
  <1> USE DEF AnyDelay
  <1>1. ASSUME UiStep PROVE MemoryPlaces'
    <2> DEFINE r == Head(uiQueue)
    <2>1. UNCHANGED <<platform, lease, view>>
      BY <1>1 DEF UiStep, RunClosure, ClosureFails, ClosureDropped, recordVars, threadVars, pageVars
    <2>2. r \in Queued BY <1>1, UiPops
    <2>3. channel[r] = "nothing" BY <2>2 DEF OnePlace
    <2>4. channel' = channel \/ \E c : channel' = [channel EXCEPT ![r] = c]
      BY <1>1 DEF UiStep, RunClosure, ClosureFails, ClosureDropped, threadVars, pageVars
    <2> HIDE DEF r
    <2>5. \A q \in Requests : q # r => channel'[q] = channel[q] BY <2>4 DEF TypeOK
    <2>6. \A b \in Buffers : platform[b] # NoMemory => platform[b] # r /\ platform[b] \in Requests
      BY <2>3 DEF MemoryPlaces, TypeOK
    <2> QED BY <2>1, <2>5, <2>6 DEF MemoryPlaces
  <1>2. ASSUME NEW r \in Requests, PageStep(r) PROVE MemoryPlaces'
    BY <1>2, MemoryPlacesKept
       DEF PageStep, PageDecodes, PageReleasesLate, PageMisses, recordVars, threadVars
  <1>3. ASSUME NEW S \in SUBSET releases, ReleaseMany(S) PROVE MemoryPlaces'
    BY <1>3, MemoryPlacesKept DEF ReleaseMany, threadVars
  <1>4. CASE Tick \/ UNCHANGED vars
    BY <1>4, MemoryPlacesKept DEF Tick, vars, recordVars, threadVars
  <1> QED BY MemoryPlacesThread, <1>1, <1>2, <1>3, <1>4 DEF Next

\* Two pending packets never share a memory: the memory installed in a record was
\* allocated for that record, and the two requests own different records.
LEMMA TargetsDiffer ==
  ASSUME AnyDelay, Owners, MemoryPlaces,
         NEW q \in Requests, NEW r \in Requests, Pending(q), Pending(r), q # r
  PROVE  Target(q) # Target(r)
  <1> USE DEF AnyDelay
  <1>1. PICK a \in Buffers : Names(q, a) BY DEF Owners
  <1>2. PICK b \in Buffers : Names(r, b) BY DEF Owners
  <1>3. a # b BY <1>1, <1>2, LeasedOnce DEF IdentityLeasedOnce
  <1>4. lease[q].id = a /\ lease[r].id = b BY <1>1, <1>2 DEF Names
  <1>5. view[q] # NoMemory => lease[view[q]].id = a BY <1>4 DEF MemoryPlaces
  <1>6. view[r] # NoMemory => lease[view[r]].id = b BY <1>4 DEF MemoryPlaces
  <1> QED BY <1>3, <1>4, <1>5, <1>6 DEF Target

LEMMA PacketIntactNext ==
  ASSUME AnyDelay, Owners, MemoryPlaces, PacketIntact, [Next]_vars PROVE PacketIntact'
  <1> USE DEF AnyDelay
  <1>1. ASSUME UNCHANGED <<view, memory>>, posted' \subseteq posted PROVE PacketIntact'
    BY <1>1 DEF PacketIntact, Target
  <1>2. ASSUME NEW r \in Requests, PlatformView(r) PROVE PacketIntact'
    <2>1. r \notin posted /\ UNCHANGED <<memory, posted>>
      BY <1>2 DEF PlatformView, OnePlace, pageVars
    <2>2. \A q \in Requests : q # r => view'[q] = view[q]
      BY <1>2 DEF PlatformView, TypeOK
    <2>3. posted \subseteq Requests BY DEF TypeOK
    <2> QED BY <2>1, <2>2, <2>3 DEF PacketIntact, Target
  <1>3. ASSUME NEW r \in Requests, ThreadStep(r) PROVE PacketIntact'
    BY <1>1, <1>2, <1>3
       DEF ThreadStep, LeaseReused, LeaseNew, LeaseWaits, LeaseFails, MarkPosted, Schedule, ScheduleFails,
           ReceiveTimesOut, ReceiveReused, ReceiveAllocated, ReceiveFailure, pageVars
  <1>4. ASSUME NEW r \in Requests, PageStep(r) PROVE PacketIntact'
    BY <1>1, <1>4 DEF PageStep, PageDecodes, PageReleasesLate, PageMisses, threadVars
  <1>5. ASSUME UiStep PROVE PacketIntact'
    <2> DEFINE r == Head(uiQueue)
    <2>1. /\ view' = view
          /\ \/ memory' = memory /\ posted' = posted
             \/ memory' = [memory EXCEPT ![Target(r)] = r]
      BY <1>5 DEF UiStep, RunClosure, ClosureFails, ClosureDropped, threadVars, pageVars
    <2>2. r \in Queued /\ r \notin posted /\ posted' \subseteq posted \cup {r}
      BY <1>5, UiPops
    <2>3. r \in Requests /\ Target(r) \in Requests
      BY <1>5, TargetType DEF UiStep, RunClosure, ClosureFails, ClosureDropped, threadVars, pageVars
    <2> HIDE DEF r
    <2>4. CASE memory' = memory /\ posted' = posted BY <1>1, <2>1, <2>4
    <2>5. CASE memory' = [memory EXCEPT ![Target(r)] = r]
      <3>1. memory'[Target(r)] = r /\ \A m \in Requests : m # Target(r) => memory'[m] = memory[m]
        BY <2>3, <2>5 DEF TypeOK
      <3>2. \A q \in posted :
              /\ Target(q) # Target(r) /\ memory[Target(q)] = q
              /\ Target(q) \in Requests
        <4> TAKE q \in posted
        <4>1. q \in Requests /\ q # r /\ Pending(q) /\ Pending(r)
          BY <2>2 DEF Pending, TypeOK
        <4> QED BY <2>3, <4>1, TargetsDiffer DEF PacketIntact, Target, TypeOK
      <3>3. \A q : Target(q)' = Target(q) BY <2>1 DEF Target
      <3> QED BY <2>2, <3>1, <3>2, <3>3 DEF PacketIntact
    <2> QED BY <2>1, <2>4, <2>5
  <1>6. ASSUME NEW S \in SUBSET releases, ReleaseMany(S) PROVE PacketIntact'
    BY <1>1, <1>6 DEF ReleaseMany, threadVars
  <1>7. CASE Tick \/ UNCHANGED vars
    BY <1>1, <1>7 DEF Tick, vars, threadVars, pageVars
  <1> QED BY <1>3, <1>4, <1>5, <1>6, <1>7 DEF Next

LEMMA PacketsInit == Init => Owners /\ MemoryPlaces /\ PacketIntact
  <1> SUFFICES ASSUME Init PROVE Owners /\ MemoryPlaces /\ PacketIntact OBVIOUS
  <1>1. \A r \in Requests : ~Pending(r) /\ phase[r] = "idle"
    BY DEF Init, Pending, Queued
  <1> QED BY <1>1 DEF Init, Owners, MemoryPlaces, PacketIntact

\* The inductive invariant when packets are handled before their record is stale.
InTime == AnyDelay /\ Owners /\ MemoryPlaces /\ PacketIntact

LEMMA InTimeInvariance ==
  ASSUME DeliveryWithin <= StaleAfter PROVE Spec => []InTime
  <1>1. Init => InTime
    BY TypeInit, LeasesDifferInit, OnePlaceInit, PacketsInit DEF AnyDelay, InTime
  <1>2. InTime /\ [Next]_vars => InTime'
    <2> SUFFICES ASSUME InTime, [Next]_vars PROVE InTime' OBVIOUS
    <2> USE DEF InTime
    <2>1. AnyDelay' BY TypeNext, LeasesDifferNext, OnePlaceNext DEF AnyDelay
    <2> QED BY <2>1, OwnersNext, MemoryPlacesNext, PacketIntactNext
  <1> QED BY <1>1, <1>2, PTL DEF Spec

\* No record changes hands between the lease of a request and the page, provided
\* packets are handled before the record counts as stale.
THEOREM RequestKeepsRecordCorrect ==
  ASSUME DeliveryWithin <= StaleAfter PROVE Spec => []RequestKeepsRecord
  <1>1. InTime => RequestKeepsRecord BY DEF InTime, Owners, RequestKeepsRecord
  <1> QED BY <1>1, InTimeInvariance, PTL

\* The bytes of a packet are not overwritten before the page has read them, under
\* the same proviso.
THEOREM PacketIntactCorrect ==
  ASSUME DeliveryWithin <= StaleAfter PROVE Spec => []PacketIntact
  <1>1. InTime => PacketIntact BY DEF InTime
  <1> QED BY <1>1, InTimeInvariance, PTL

-----------------------------------------------------------------------------
(* Shelves and sizes, whatever the delays.                                 *)

\* One more record on a shelf with room is within the cap.
LEMMA ShelfBoundedNext == ASSUME TypeOK, ShelfBounded, [Next]_vars PROVE ShelfBounded'
  <1>1. CASE shelf' = shelf
    BY <1>1 DEF ShelfBounded, OnShelf
  <1>2. CASE \E r \in Requests : LeaseNew(r)
    <2> PICK r \in Requests : LeaseNew(r) BY <1>2
    <2>1. PICK b \in Buffers : shelf[b] = NoShelf /\ shelf' = [shelf EXCEPT ![b] = ShelfOf(r)]
      BY DEF LeaseNew, Fresh
    <2>2. HasRoom(ShelfOf(r)) BY DEF LeaseNew
    <2> SUFFICES ASSUME NEW q \in Requests
                 PROVE  Cardinality(OnShelf(ShelfOf(q)))' <= MaxBuffersPerSizeClass
      BY DEF ShelfBounded
    <2>3. CASE ShelfOf(q) = ShelfOf(r)
      <3>1. OnShelf(ShelfOf(q))' = OnShelf(ShelfOf(r)) \cup {b}
        BY <2>1, <2>3 DEF OnShelf, TypeOK
      <3>2. OnShelf(ShelfOf(r)) \subseteq Buffers BY DEF OnShelf
      <3>3. /\ IsFiniteSet(OnShelf(ShelfOf(r))) /\ Cardinality(OnShelf(ShelfOf(r))) \in Nat
        BY <3>2, BufferSetsAreFinite
      <3>4. b \notin OnShelf(ShelfOf(r)) BY <2>1, ShelfIsNamed DEF OnShelf
      <3>5. Cardinality(OnShelf(ShelfOf(r)) \cup {b}) = Cardinality(OnShelf(ShelfOf(r))) + 1
        BY <3>3, <3>4, FS_AddElement
      <3> QED BY <2>2, <3>1, <3>3, <3>5, LimitsAssumption DEF HasRoom
    <2>4. CASE ShelfOf(q) # ShelfOf(r)
      <3>1. OnShelf(ShelfOf(q))' = OnShelf(ShelfOf(q))
        BY <2>1, <2>4, ShelfIsNamed DEF OnShelf, TypeOK
      <3> QED BY <3>1 DEF ShelfBounded
    <2> QED BY <2>3, <2>4
  <1>3. shelf' = shelf \/ \E r \in Requests : LeaseNew(r)
    BY DEF Next, ThreadStep, PageStep, UiStep, LeaseReused, LeaseWaits, LeaseFails, PlatformView,
           MarkPosted, Schedule, ScheduleFails, ReceiveTimesOut, ReceiveReused, ReceiveAllocated,
           ReceiveFailure, RunClosure, ClosureFails, ClosureDropped, PageDecodes,
           PageReleasesLate, PageMisses, ReleaseMany, Tick, vars, recordVars
  <1> QED BY <1>1, <1>2, <1>3

\* A webview never has more records of a size class than the cap allows.
THEOREM ShelfBoundedCorrect == Spec => []ShelfBounded
  <1>1. Init => ShelfBounded
    <2> SUFFICES ASSUME Init, NEW r \in Requests
                 PROVE  Cardinality(OnShelf(ShelfOf(r))) <= MaxBuffersPerSizeClass
      BY DEF ShelfBounded
    <2>1. OnShelf(ShelfOf(r)) = {} BY ShelfIsNamed DEF Init, OnShelf
    <2> QED BY <2>1, FS_EmptySet, LimitsAssumption
  <1>2. TypeOK /\ ShelfBounded /\ [Next]_vars => ShelfBounded' BY ShelfBoundedNext
  <1> QED BY <1>1, <1>2, TypeCorrect, PTL DEF Spec

\* A length the pool accepts fits into its size class.
LEMMA ClassHoldsLength ==
  ASSUME NEW r \in Requests, Accepted(r)
  PROVE  Bytes[r] <= SizeClassFor(Bytes[r])
  <1> DEFINE n == Larger(Bytes[r], MinSizeClass)
             fitting == {p \in PowersOfTwo : p >= n}
  <1>1. n \in Nat /\ Bytes[r] \in Nat /\ Bytes[r] <= n /\ Bytes[r] <= MaxSizeClass
        /\ n <= MaxSizeClass
    BY BytesAssumption, ClassesAssumption DEF Accepted, Larger
  <1>2. PowersOfTwo \subseteq Nat
    BY DEF PowersOfTwo
  <1>3. 2^22 \in fitting
    <2>1. 22 \in 0..22 OBVIOUS
    <2>2. 2^22 \in PowersOfTwo BY <2>1 DEF PowersOfTwo
    <2> QED BY <1>1, <1>2, <2>2, BytesAssumption, ClassesAssumption
  <1>4. \E p \in fitting : \A q \in fitting : p <= q BY <1>2, <1>3, SmallestNumber
  <1>5. NextPowerOfTwo(n) \in PowersOfTwo /\ NextPowerOfTwo(n) >= n
    BY <1>4 DEF NextPowerOfTwo
  <1>6. SizeClassFor(Bytes[r]) = Smaller(NextPowerOfTwo(n), MaxSizeClass)
    BY DEF SizeClassFor
  <1> HIDE DEF n
  <1>7. NextPowerOfTwo(n) \in Nat BY <1>2, <1>5
  <1> QED BY <1>1, <1>5, <1>6, <1>7, BytesAssumption DEF Smaller

\* A call that got past its lease had a length the pool accepts.
LeasedAccepted ==
  \A r \in Requests : phase[r] \in {"leased", "viewed", "marked", "receiving"} => Accepted(r)

LEMMA LeasedAcceptedNext == ASSUME TypeOK, LeasedAccepted, [Next]_vars PROVE LeasedAccepted'
  <1>1. ASSUME NEW r \in Requests, ThreadStep(r) PROVE LeasedAccepted'
    <2>1. CASE LeaseReused(r) \/ LeaseNew(r)
      BY <2>1 DEF LeaseReused, LeaseNew, LeasedAccepted, Accepted, TypeOK
    <2>2. CASE LeaseWaits(r) \/ LeaseFails(r)
      BY <2>2 DEF LeaseWaits, LeaseFails, LeasedAccepted, Accepted, TypeOK
    <2>3. CASE PlatformView(r) \/ MarkPosted(r) \/ Schedule(r) \/ ScheduleFails(r)
      BY <2>3 DEF PlatformView, MarkPosted, Schedule, ScheduleFails,
                  LeasedAccepted, Accepted, TypeOK
    <2>4. CASE \/ ReceiveTimesOut(r) \/ ReceiveReused(r)
               \/ ReceiveAllocated(r) \/ ReceiveFailure(r)
      BY <2>4 DEF ReceiveTimesOut, ReceiveReused, ReceiveAllocated, ReceiveFailure,
                  LeasedAccepted, Accepted, TypeOK
    <2> QED BY <1>1, <2>1, <2>2, <2>3, <2>4 DEF ThreadStep
  <1>2. CASE phase' = phase BY <1>2 DEF LeasedAccepted, Accepted
  <1>3. (\E r \in Requests : ThreadStep(r)) \/ phase' = phase
    BY DEF Next, UiStep, RunClosure, ClosureFails, ClosureDropped, PageStep, PageDecodes,
           PageReleasesLate, PageMisses, ReleaseMany, Tick, vars, threadVars
  <1> QED BY <1>1, <1>2, <1>3

\* The view a call writes into was allocated for a record of its own shelf.
LEMMA TargetOnShelf ==
  ASSUME TypeOK, LeasesDiffer, MemoryPlaces, NEW r \in Requests
  PROVE  ShelfOf(Target(r)) = ShelfOf(r)
  <1>1. CASE view[r] = NoMemory BY <1>1 DEF Target
  <1>2. CASE view[r] # NoMemory
    <2> DEFINE b == lease[r].id
               m == view[r]
    <2>1. b \in Buffers /\ platform[b] = m /\ m \in Requests
      BY <1>2 DEF MemoryPlaces, TypeOK
    <2>2. lease[m].id = b BY <1>2, <2>1 DEF MemoryPlaces
    <2>3. shelf[b] = ShelfOf(r) /\ shelf[b] = ShelfOf(m) BY <2>1, <2>2 DEF LeasesDiffer
    <2> QED BY <1>2, <2>3 DEF Target
  <1> QED BY <1>1, <1>2

AnyDelaySized == AnyDelay /\ MemoryPlaces /\ LeasedAccepted

\* A payload is written into a view of its own webview that is large enough for
\* it, however the posts and the releases are delayed.
THEOREM PayloadFitsCorrect == Spec => []PayloadFits
  <1>1. Init => AnyDelaySized
    <2>1. Init => LeasedAccepted BY DEF Init, LeasedAccepted
    <2> QED BY <2>1, TypeInit, LeasesDifferInit, OnePlaceInit, PacketsInit
            DEF AnyDelaySized, AnyDelay
  <1>2. AnyDelaySized /\ [Next]_vars => AnyDelaySized'
    <2> SUFFICES ASSUME AnyDelaySized, [Next]_vars PROVE AnyDelaySized' OBVIOUS
    <2> USE DEF AnyDelaySized
    <2>1. AnyDelay' BY TypeNext, LeasesDifferNext, OnePlaceNext DEF AnyDelay
    <2>2. LeasedAccepted' BY LeasedAcceptedNext DEF AnyDelay
    <2> QED BY <2>1, <2>2, MemoryPlacesNext
  <1>3. AnyDelaySized => PayloadFits
    <2> SUFFICES ASSUME AnyDelaySized, NEW r \in Requests,
                        phase[r] \in {"viewed", "marked", "receiving"}
                 PROVE  /\ Webview[Target(r)] = Webview[r]
                        /\ Bytes[r] <= SizeClassFor(Bytes[Target(r)])
      BY DEF PayloadFits
    <2>1. ShelfOf(Target(r)) = ShelfOf(r) BY TargetOnShelf DEF AnyDelaySized, AnyDelay
    <2>2. /\ Webview[Target(r)] = Webview[r]
          /\ SizeClassFor(Bytes[Target(r)]) = SizeClassFor(Bytes[r])
      BY <2>1 DEF ShelfOf
    <2>3. Accepted(r) BY DEF AnyDelaySized, LeasedAccepted
    <2> QED BY <2>2, <2>3, ClassHoldsLength
  <1> QED BY <1>1, <1>2, <1>3, PTL DEF Spec

-----------------------------------------------------------------------------
(* Sums.  SumFunction adds the values of a function in the order CHOOSE gives *)
(* its domain; the same order for two functions on the same domain.           *)

Pick(S) == CHOOSE x \in S : TRUE
SumStep(f, sum, S) == IF S = {} THEN 0 ELSE f[Pick(S)] + sum[S \ {Pick(S)}]
IsSum(sum, f, SS) == sum = [S \in SS |-> SumStep(f, sum, S)]

\* A set without the element picked from it is smaller by one.
LEMMA PickedOut ==
  ASSUME NEW T, IsFiniteSet(T), NEW n \in Nat, NEW S \in SmallSets(T, n + 1), S # {}
  PROVE  Pick(S) \in S /\ S \ {Pick(S)} \in SmallSets(T, n)
  <1>1. Pick(S) \in S BY DEF Pick
  <1> QED BY <1>1, OneLess

LEMMA SumDefined ==
  ASSUME NEW T, IsFiniteSet(T), NEW f
  PROVE  \E sum : IsSum(sum, f, SUBSET T)
  <1> DEFINE N == {n \in Nat : \E sum : IsSum(sum, f, SmallSets(T, n))}
  <1>1. 0 \in N
    <2> DEFINE sum == [S \in SmallSets(T, 0) |-> 0]
    <2>1. \A S \in SmallSets(T, 0) : SumStep(f, sum, S) = 0 BY EmptyOnly DEF SumStep
    <2>2. IsSum(sum, f, SmallSets(T, 0)) BY <2>1 DEF IsSum
    <2> HIDE DEF sum
    <2> QED BY <2>2
  <1>2. ASSUME NEW n \in Nat, n \in N PROVE n + 1 \in N
    <2>1. PICK less : IsSum(less, f, SmallSets(T, n)) BY <1>2
    <2> DEFINE sum == [S \in SmallSets(T, n + 1) |-> SumStep(f, less, S)]
    <2>2. \A S \in SmallSets(T, n) : S \in SmallSets(T, n + 1)
      <3> SUFFICES ASSUME NEW S \in SmallSets(T, n) PROVE Cardinality(S) <= n + 1
        BY DEF SmallSets
      <3>1. S \in SUBSET T /\ Cardinality(S) <= n BY DEF SmallSets
      <3>2. Cardinality(S) \in Nat BY <3>1, FS_Subset, FS_CardinalityType
      <3> QED BY <3>1, <3>2
    <2>3. \A S \in SmallSets(T, n) : sum[S] = less[S]
      <3> SUFFICES ASSUME NEW S \in SmallSets(T, n) PROVE sum[S] = less[S] OBVIOUS
      <3>1. sum[S] = SumStep(f, less, S) BY <2>2
      <3> QED BY <2>1, <3>1 DEF IsSum
    <2>4. ASSUME NEW S \in SmallSets(T, n + 1) PROVE SumStep(f, less, S) = SumStep(f, sum, S)
      <3> HIDE DEF sum
      <3>1. CASE S = {} BY <3>1 DEF SumStep
      <3>2. CASE S # {}
        <4>1. S \ {Pick(S)} \in SmallSets(T, n) BY <3>2, PickedOut
        <4>2. sum[S \ {Pick(S)}] = less[S \ {Pick(S)}] BY <2>3, <4>1
        <4> QED BY <3>2, <4>2 DEF SumStep
      <3> QED BY <3>1, <3>2
    <2>5. IsSum(sum, f, SmallSets(T, n + 1)) BY <2>4 DEF IsSum
    <2> HIDE DEF sum
    <2> QED BY <2>5
  <1> HIDE DEF N
  <1>3. \A n \in Nat : n \in N BY <1>1, <1>2, AllNumbers
  <1>4. Cardinality(T) \in N BY <1>3, AllSmall
  <1> QED BY <1>4, AllSmall DEF N

TheSum(f, T) == CHOOSE sum : IsSum(sum, f, SUBSET T)

LEMMA SumUnfolds ==
  ASSUME NEW T, IsFiniteSet(T), NEW f, DOMAIN f = T
  PROVE  /\ SumFunction(f) = TheSum(f, T)[T]
         /\ \A S \in SUBSET T : TheSum(f, T)[S] = SumStep(f, TheSum(f, T), S)
  <1>1. SumFunction(f) = TheSum(f, T)[T]
    BY DEF SumFunction, SumFunctionOnSet, FoldFunctionOnSet, MapThenFoldSet, TheSum, IsSum,
           SumStep, Pick
  <1>2. IsSum(TheSum(f, T), f, SUBSET T) BY SumDefined DEF TheSum
  <1>3. \A S \in SUBSET T : TheSum(f, T)[S] = SumStep(f, TheSum(f, T), S)
    <2> DEFINE sum == TheSum(f, T)
    <2>1. sum = [S \in SUBSET T |-> SumStep(f, sum, S)] BY <1>2 DEF IsSum
    <2> HIDE DEF sum
    <2>2. \A S \in SUBSET T : sum[S] = SumStep(f, sum, S) BY <2>1
    <2> QED BY <2>2 DEF sum
  <1> QED BY <1>1, <1>3

LEMMA SumOfZeros ==
  ASSUME NEW T, IsFiniteSet(T)
  PROVE  SumFunction([x \in T |-> 0]) = 0
  <1> DEFINE f == [x \in T |-> 0]
             sum == TheSum(f, T)
             N == {n \in Nat : \A S \in SmallSets(T, n) : sum[S] = 0}
  <1>1. /\ SumFunction(f) = sum[T]
        /\ \A S \in SUBSET T : sum[S] = SumStep(f, sum, S)
    BY SumUnfolds
  <1>2. \A x \in T : f[x] = 0 OBVIOUS
  <1> HIDE DEF f, sum
  <1>3. 0 \in N BY <1>1, EmptyOnly DEF SumStep, SmallSets
  <1>4. ASSUME NEW n \in Nat, n \in N PROVE n + 1 \in N
    <2>1. ASSUME NEW S \in SmallSets(T, n + 1) PROVE sum[S] = 0
      <3>1. S \in SUBSET T BY DEF SmallSets
      <3>2. CASE S = {} BY <1>1, <3>1, <3>2 DEF SumStep
      <3>3. CASE S # {}
        <4>1. Pick(S) \in S /\ S \ {Pick(S)} \in SmallSets(T, n) BY <3>3, PickedOut
        <4>2. sum[S \ {Pick(S)}] = 0 /\ f[Pick(S)] = 0 BY <1>2, <1>4, <3>1, <4>1
        <4> QED BY <1>1, <3>1, <3>3, <4>2 DEF SumStep
      <3> QED BY <3>2, <3>3
    <2> QED BY <2>1
  <1> HIDE DEF N
  <1>5. \A n \in Nat : n \in N BY <1>3, <1>4, AllNumbers
  <1>6. Cardinality(T) \in N BY <1>5, AllSmall
  <1>7. sum[T] = 0 BY <1>6, AllSmall DEF N
  <1> QED BY <1>1, <1>7 DEF f

\* One more at one place is one more in the sum.
LEMMA SumOfOneMore ==
  ASSUME NEW T, IsFiniteSet(T), NEW f \in [T -> Nat], NEW b \in T
  PROVE  SumFunction([f EXCEPT ![b] = @ + 1]) = SumFunction(f) + 1
  <1> DEFINE g == [f EXCEPT ![b] = @ + 1]
             sum == TheSum(f, T)
             more == TheSum(g, T)
             N == {n \in Nat : \A S \in SmallSets(T, n) :
                     sum[S] \in Nat /\ more[S] = IF b \in S THEN sum[S] + 1 ELSE sum[S]}
  <1>1. /\ SumFunction(f) = sum[T]
        /\ \A S \in SUBSET T : sum[S] = SumStep(f, sum, S)
    BY SumUnfolds
  <1>2. /\ SumFunction(g) = more[T]
        /\ \A S \in SUBSET T : more[S] = SumStep(g, more, S)
    <2>1. DOMAIN g = T OBVIOUS
    <2> HIDE DEF g
    <2> QED BY <2>1, SumUnfolds
  <1>3. \A x \in T : f[x] \in Nat /\ g[x] = IF x = b THEN f[x] + 1 ELSE f[x] OBVIOUS
  <1> HIDE DEF g, sum, more
  <1>4. sum[{}] = 0 /\ more[{}] = 0
    <2>1. {} \in SUBSET T OBVIOUS
    <2>2. sum[{}] = SumStep(f, sum, {}) /\ more[{}] = SumStep(g, more, {}) BY <1>1, <1>2, <2>1
    <2> QED BY <2>2 DEF SumStep
  <1>5. 0 \in N
    <2>1. ASSUME NEW S \in SmallSets(T, 0)
          PROVE  sum[S] \in Nat /\ more[S] = IF b \in S THEN sum[S] + 1 ELSE sum[S]
      <3>1. S = {} BY EmptyOnly
      <3>2. b \notin S BY <3>1
      <3> QED BY <1>4, <3>1, <3>2
    <2> QED BY <2>1
  <1>6. ASSUME NEW n \in Nat, n \in N PROVE n + 1 \in N
    <2>1. ASSUME NEW S \in SmallSets(T, n + 1)
          PROVE  sum[S] \in Nat /\ more[S] = IF b \in S THEN sum[S] + 1 ELSE sum[S]
      <3>1. S \in SUBSET T BY DEF SmallSets
      <3>2. CASE S = {}
        <4>1. b \notin S BY <3>2
        <4> QED BY <1>4, <3>2, <4>1
      <3>3. CASE S # {}
        <4> DEFINE x == Pick(S)
                   R == S \ {x}
        <4>1. x \in S /\ R \in SmallSets(T, n) BY <3>3, PickedOut
        <4>2. /\ sum[R] \in Nat
              /\ more[R] = IF b \in R THEN sum[R] + 1 ELSE sum[R]
          BY <1>6, <4>1
        <4>3. sum[S] = f[x] + sum[R] /\ more[S] = g[x] + more[R]
          BY <1>1, <1>2, <3>1, <3>3 DEF SumStep
        <4>4. f[x] \in Nat /\ g[x] = IF x = b THEN f[x] + 1 ELSE f[x]
          <5>1. x \in T BY <3>1, <4>1
          <5> HIDE DEF x
          <5> QED BY <1>3, <5>1
        <4>5. b \in R <=> b \in S /\ x # b OBVIOUS
        <4> HIDE DEF x, R
        <4> QED BY <4>1, <4>2, <4>3, <4>4, <4>5
      <3> QED BY <3>2, <3>3
    <2> QED BY <2>1
  <1> HIDE DEF N
  <1>7. \A n \in Nat : n \in N BY <1>5, <1>6, AllNumbers
  <1>8. Cardinality(T) \in N BY <1>7, AllSmall
  <1>9. more[T] = sum[T] + 1 BY <1>8, AllSmall DEF N
  <1> QED BY <1>1, <1>2, <1>9 DEF g

-----------------------------------------------------------------------------
(* Counters.                                                                  *)

Installed == {b \in Buffers : platform[b] # NoMemory}

\* Raising the high-water mark touches no other counter.
LEMMA HighWater ==
  ASSUME NEW t \in [Counters -> Nat], NEW st
  PROVE  /\ UpdateMaxInFlight(t, st)["maxInFlight"] >= InFlight(st)
         /\ \A n \in Counters \ {"maxInFlight"} : UpdateMaxInFlight(t, st)[n] = t[n]
  <1>1. UpdateMaxInFlight(t, st) = [t EXCEPT !["maxInFlight"] = Larger(t["maxInFlight"], InFlight(st))]
    BY DEF UpdateMaxInFlight
  <1>2. "maxInFlight" \in Counters BY DEF Counters
  <1>3. InFlight(st) \in Nat BY InFlightType
  <1> DEFINE n == InFlight(st)
  <1> HIDE DEF n
  <1>4. Larger(t["maxInFlight"], n) >= n BY <1>2, <1>3 DEF Larger, n
  <1> QED BY <1>1, <1>2, <1>4 DEF n

\* A step that leaves the generations and the installed memories alone keeps the
\* counters in agreement when it counts neither and raises the mark with the states.
LEMMA CountersKept ==
  ASSUME TypeOK, CountersAgree, NEW t \in [Counters -> Nat],
         t["reuse"] = telemetry["reuse"], t["allocation"] = telemetry["allocation"],
         telemetry' = UpdateMaxInFlight(t, state'),
         UNCHANGED <<generation, platform>>
  PROVE  CountersAgree'
  <1>1. /\ telemetry'["maxInFlight"] >= InFlight(state')
        /\ \A n \in Counters \ {"maxInFlight"} : telemetry'[n] = t[n]
    BY HighWater
  <1>2. "reuse" \in Counters \ {"maxInFlight"} /\ "allocation" \in Counters \ {"maxInFlight"}
    BY DEF Counters
  <1>3. telemetry'["reuse"] = telemetry["reuse"] /\ telemetry'["allocation"] = telemetry["allocation"]
    BY <1>1, <1>2
  <1> QED BY <1>1, <1>3 DEF CountersAgree

LEMMA CountersTransition ==
  ASSUME TypeOK, CountersAgree, NEW r, NEW old, NEW new, Transition(r, old, new),
         UNCHANGED <<generation, platform>>
  PROVE  CountersAgree'
  <1>1. CASE Current(r) /\ state[lease[r].id] = old
    <2>1. telemetry' = UpdateMaxInFlight(telemetry, state') BY <1>1 DEF Transition
    <2>2. telemetry \in [Counters -> Nat] BY DEF TypeOK
    <2> QED BY <2>1, <2>2, CountersKept
  <1>2. CASE ~(Current(r) /\ state[lease[r].id] = old)
    <2>1. UNCHANGED <<state, telemetry>> BY <1>2 DEF Transition
    <2> QED BY <2>1 DEF CountersAgree
  <1> QED BY <1>1, <1>2

LEMMA CountersLeaseReused ==
  ASSUME TypeOK, CountersAgree, NEW r \in Requests, LeaseReused(r)
  PROVE  CountersAgree'
  <1> DEFINE t == [telemetry EXCEPT !["reuse"] = @ + 1]
  <1>1. PICK b \in Reusable(ShelfOf(r)) :
          generation' = NextGeneration(b) /\ telemetry' = UpdateMaxInFlight(t, state')
    BY DEF LeaseReused
  <1>2. b \in Buffers BY DEF Reusable, OnShelf, StalePosted
  <1>3. UNCHANGED platform BY DEF LeaseReused
  <1>4. "reuse" \in Counters \ {"maxInFlight"} /\ "allocation" \in Counters \ {"maxInFlight"}
    BY DEF Counters
  <1>5. /\ t \in [Counters -> Nat]
        /\ t["reuse"] = telemetry["reuse"] + 1 /\ t["allocation"] = telemetry["allocation"]
    BY <1>4 DEF TypeOK
  <1>6. SumFunction(generation') = SumFunction(generation) + 1
    <2>1. generation \in [Buffers -> Nat] BY DEF TypeOK
    <2>2. generation' = [generation EXCEPT ![b] = @ + 1] BY <1>1 DEF NextGeneration
    <2> QED BY <1>2, <2>1, <2>2, BuffersAssumption, SumOfOneMore
  <1> HIDE DEF t
  <1>7. /\ telemetry'["maxInFlight"] >= InFlight(state')
        /\ \A n \in Counters \ {"maxInFlight"} : telemetry'[n] = t[n]
    BY <1>1, <1>5, HighWater
  <1>8. telemetry'["reuse"] = telemetry["reuse"] + 1 /\ telemetry'["allocation"] = telemetry["allocation"]
    BY <1>4, <1>5, <1>7
  <1> QED BY <1>3, <1>6, <1>7, <1>8 DEF CountersAgree

LEMMA CountersReceiveAllocated ==
  ASSUME TypeOK, CountersAgree, NEW r \in Requests, ReceiveAllocated(r)
  PROVE  CountersAgree'
  <1>1. UNCHANGED generation BY DEF ReceiveAllocated
  <1>2. CASE ~Current(r)
    <2>1. Transition(r, "PostedToJs", "Free") /\ UNCHANGED platform
      BY <1>2 DEF ReceiveAllocated, ReclaimAfterPostFailure
    <2> QED BY <1>1, <2>1, CountersTransition
  <1>3. CASE Current(r) /\ platform[lease[r].id] # NoMemory
    BY <1>1, <1>3 DEF ReceiveAllocated, CountersAgree
  <1>4. CASE Current(r) /\ platform[lease[r].id] = NoMemory
    <2>1. PICK b \in Buffers : lease[r].id = b BY <1>4 DEF Current, Names
    <2>2. /\ platform' = [platform EXCEPT ![b] = r]
          /\ telemetry' = [telemetry EXCEPT !["allocation"] = @ + 1]
          /\ UNCHANGED state
      BY <1>4, <2>1 DEF ReceiveAllocated
    <2>3. /\ telemetry'["reuse"] = telemetry["reuse"]
          /\ telemetry'["allocation"] = telemetry["allocation"] + 1
          /\ telemetry'["maxInFlight"] = telemetry["maxInFlight"]
      BY <2>2 DEF TypeOK, Counters
    <2>4. r # NoMemory BY RequestsAssumption
    <2>5. Installed' = Installed \cup {b} /\ b \notin Installed
      BY <1>4, <2>1, <2>2, <2>4 DEF Installed, TypeOK
    <2>6. Cardinality(Installed \cup {b}) = Cardinality(Installed) + 1
      <3>1. Installed \subseteq Buffers BY DEF Installed
      <3>2. IsFiniteSet(Installed) BY <3>1, BufferSetsAreFinite
      <3> QED BY <2>5, <3>2, FS_AddElement
    <2>7. telemetry'["allocation"] = Cardinality(Installed')
      BY <2>3, <2>5, <2>6 DEF CountersAgree, Installed
    <2> QED BY <1>1, <2>2, <2>3, <2>7 DEF CountersAgree, Installed
  <1> QED BY <1>2, <1>3, <1>4

LEMMA CountersNext == ASSUME TypeOK, CountersAgree, [Next]_vars PROVE CountersAgree'
  <1>1. telemetry \in [Counters -> Nat] BY DEF TypeOK
  <1>2. ASSUME NEW r \in Requests, ThreadStep(r) PROVE CountersAgree'
    <2>1. CASE LeaseReused(r) BY <2>1, CountersLeaseReused
    <2>2. CASE LeaseNew(r)
      <3>1. telemetry' = UpdateMaxInFlight(telemetry, state') /\ UNCHANGED <<generation, platform>>
        BY <2>2 DEF LeaseNew
      <3> QED BY <1>1, <3>1, CountersKept
    <2>3. CASE MarkPosted(r)
      <3>1. Transition(r, "LeasedNative", "PostedToJs") /\ UNCHANGED <<generation, platform>>
        BY <2>3 DEF MarkPosted
      <3> QED BY <3>1, CountersTransition
    <2>4. CASE ScheduleFails(r) \/ ReceiveFailure(r)
      <3>1. Transition(r, "PostedToJs", "Free") /\ UNCHANGED <<generation, platform>>
        BY <2>4 DEF ScheduleFails, ReceiveFailure, ReclaimAfterPostFailure
      <3> QED BY <3>1, CountersTransition
    <2>5. CASE ReceiveAllocated(r) BY <2>5, CountersReceiveAllocated
    <2>6. CASE \/ LeaseWaits(r) \/ LeaseFails(r) \/ PlatformView(r) \/ Schedule(r)
               \/ ReceiveTimesOut(r) \/ ReceiveReused(r)
      <3>1. UNCHANGED recordVars
        BY <2>6 DEF LeaseWaits, LeaseFails, PlatformView, Schedule, ReceiveTimesOut, ReceiveReused
      <3> QED BY <3>1 DEF recordVars, CountersAgree
    <2> QED BY <1>2, <2>1, <2>2, <2>3, <2>4, <2>5, <2>6 DEF ThreadStep
  <1>3. CASE UiStep \/ \E r \in Requests : PageStep(r)
    <2>1. UNCHANGED recordVars
      BY <1>3 DEF UiStep, PageStep, RunClosure, ClosureFails, ClosureDropped, PageDecodes,
                  PageReleasesLate, PageMisses
    <2> QED BY <2>1 DEF recordVars, CountersAgree
  <1>4. ASSUME NEW S \in SUBSET releases, ReleaseMany(S) PROVE CountersAgree'
    <2> DEFINE freed == Cardinality(ReleasedBy(S))
               refused == Cardinality({r \in S : ~Current(r)})
               t == [telemetry EXCEPT !["release"] = @ + freed, !["mismatch"] = @ + refused]
    <2>1. telemetry' = UpdateMaxInFlight(t, state') /\ UNCHANGED <<generation, platform>>
      BY <1>4 DEF ReleaseMany
    <2>2. freed \in Nat
      <3>1. ReleasedBy(S) \subseteq Buffers BY DEF ReleasedBy
      <3> QED BY <3>1, BufferSetsAreFinite
    <2>3. refused \in Nat
      <3>1. {r \in S : ~Current(r)} \subseteq Requests BY DEF TypeOK
      <3> QED BY <3>1, RequestsAssumption, FS_Subset, FS_CardinalityType
    <2> HIDE DEF freed, refused
    <2>4. /\ t \in [Counters -> Nat]
          /\ t["reuse"] = telemetry["reuse"] /\ t["allocation"] = telemetry["allocation"]
      BY <1>1, <2>2, <2>3 DEF Counters
    <2> HIDE DEF t
    <2> QED BY <2>1, <2>4, CountersKept
  <1>5. CASE Tick BY <1>5 DEF Tick, CountersAgree
  <1>6. CASE UNCHANGED vars BY <1>6 DEF vars, recordVars, CountersAgree
  <1> QED BY <1>2, <1>3, <1>4, <1>5, <1>6 DEF Next

\* The counters agree with the records, whatever the posts and releases do: every
\* generation handed out is counted as one reuse, every installed memory as one
\* allocation, and no more records are in flight than the high-water mark says.
THEOREM CountersAgreeCorrect == Spec => []CountersAgree
  <1>1. Init => CountersAgree
    <2> SUFFICES ASSUME Init PROVE CountersAgree OBVIOUS
    <2>1. SumFunction(generation) = 0 BY BuffersAssumption, SumOfZeros DEF Init
    <2>2. {b \in Buffers : platform[b] # NoMemory} = {} BY DEF Init
    <2>3. {b \in Buffers : state[b] \in {"LeasedNative", "PostedToJs"}} = {} BY DEF Init
    <2>4. \A n \in Counters : telemetry[n] = 0 BY DEF Init
    <2> QED BY <2>1, <2>2, <2>3, <2>4, FS_EmptySet DEF CountersAgree, InFlight, Counters
  <1>2. TypeOK /\ CountersAgree /\ [Next]_vars => CountersAgree' BY CountersNext
  <1> QED BY <1>1, <1>2, TypeCorrect, PTL DEF Spec
=============================================================================
