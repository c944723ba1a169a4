------------------- MODULE NativeTaskPriorityQueuesProofs -------------------
(* Theorems about NativeTaskPriorityQueues, for every set of tasks and lanes: *)
(* its buckets stay in order and implement TaskReadyQueue.                    *)
EXTENDS NativeTaskPriorityQueues, InductionOnData, FiniteSetTheorems, SequenceTheorems

-----------------------------------------------------------------------------
(* The loop of remove_cancelled.                                              *)

\* One turn of the loop: what the first n tasks leave, given what the n - 1 before left.
Turn(q, dropped, left, n) ==
  IF n = 0 THEN <<>>
  ELSE IF q[n] \in dropped THEN left[n - 1]
  ELSE Append(left[n - 1], q[n])

IsLoop(f, q, dropped, m) == f = [n \in 0..m |-> Turn(q, dropped, f, n)]

\* The recursive function of the loop exists on every prefix.
LEMMA LoopDefined ==
  ASSUME NEW q, NEW dropped, NEW m \in Nat
  PROVE  \E f : IsLoop(f, q, dropped, m)
  <1> DEFINE S == {k \in Nat : \E f : IsLoop(f, q, dropped, k)}
  <1>1. 0 \in S
    <2> DEFINE f == [n \in 0..0 |-> <<>>]
    <2>1. IsLoop(f, q, dropped, 0) BY DEF IsLoop, Turn
    <2> HIDE DEF f
    <2> QED BY <2>1
  <1>2. ASSUME NEW k \in Nat, k \in S PROVE k + 1 \in S
    <2>1. PICK g : IsLoop(g, q, dropped, k) BY <1>2
    <2> DEFINE f == [n \in 0..k + 1 |-> IF n = k + 1 THEN Turn(q, dropped, g, n) ELSE g[n]]
    <2>2. ASSUME NEW n \in 0..k + 1 PROVE f[n] = Turn(q, dropped, f, n)
      <3>1. n # 0 => n - 1 \in 0..k /\ f[n - 1] = g[n - 1] OBVIOUS
      <3>2. Turn(q, dropped, f, n) = Turn(q, dropped, g, n)
        <4> HIDE DEF f
        <4> QED BY <3>1 DEF Turn
      <3>3. CASE n = k + 1 BY <3>2, <3>3
      <3>4. CASE n # k + 1
        <4>1. n \in 0..k BY <3>4
        <4>2. f[n] = g[n] BY <3>4
        <4> HIDE DEF f
        <4>3. g[n] = Turn(q, dropped, g, n) BY <2>1, <4>1 DEF IsLoop
        <4> QED BY <3>2, <4>2, <4>3
      <3> QED BY <3>3, <3>4
    <2>3. IsLoop(f, q, dropped, k + 1)
      <3>1. f = [n \in 0..k + 1 |-> f[n]] OBVIOUS
      <3> HIDE DEF f
      <3> QED BY <2>2, <3>1 DEF IsLoop
    <2> HIDE DEF f
    <2> QED BY <2>3
  <1> HIDE DEF S
  <1>3. m \in S BY <1>1, <1>2, AllNumbers
  <1> QED BY <1>3 DEF S

LEMMA LoopTurns ==
  ASSUME NEW q \in Seq(Tasks), NEW dropped
  PROVE  IsLoop(RetainedOf(q, dropped), q, dropped, Len(q))
  <1>1. RetainedOf(q, dropped) = CHOOSE f : IsLoop(f, q, dropped, Len(q))
    BY DEF RetainedOf, Turn, IsLoop
  <1>2. Len(q) \in Nat BY LenProperties
  <1>3. \E f : IsLoop(f, q, dropped, Len(q)) BY <1>2, LoopDefined
  <1> QED BY <1>1, <1>3

\* Tasks that come one behind the other are taken in that order from the first n of q.
KeepsOrder(left, q, n) ==
  \A i, j \in 1..Len(left) :
    i < j => \E a, b \in 1..n : a < b /\ left[i] = q[a] /\ left[j] = q[b]

\* What the first n turns leave: the tasks of the prefix that are not dropped, in
\* the order they had.
Left(q, dropped, left, n) ==
  /\ left \in Seq(Tasks)
  /\ \A t : (\E i \in 1..Len(left) : left[i] = t)
              <=> (t \notin dropped /\ \E i \in 1..n : q[i] = t)
  /\ KeepsOrder(left, q, n)

LEMMA OneTurnLeaves ==
  ASSUME NEW q \in Seq(Tasks), NEW dropped, NEW n \in 1..Len(q), NEW left,
         Left(q, dropped, left, n - 1)
  PROVE  Left(q, dropped, IF q[n] \in dropped THEN left ELSE Append(left, q[n]), n)
  <1>1. Len(q) \in Nat /\ n \in Nat /\ n # 0 /\ q[n] \in Tasks
    BY LenProperties, ElementOfSeq
  <1>2. 1..n = (1..n - 1) \cup {n} BY <1>1
  <1>3. CASE q[n] \in dropped
    <2>1. \A t : t \notin dropped =>
            ((\E i \in 1..n : q[i] = t) <=> (\E i \in 1..n - 1 : q[i] = t))
      BY <1>2, <1>3
    <2>2. KeepsOrder(left, q, n)
      <3> SUFFICES ASSUME NEW i \in 1..Len(left), NEW j \in 1..Len(left), i < j
                   PROVE  \E a, b \in 1..n : a < b /\ left[i] = q[a] /\ left[j] = q[b]
        BY DEF KeepsOrder
      <3>1. PICK a \in 1..n - 1, b \in 1..n - 1 : a < b /\ left[i] = q[a] /\ left[j] = q[b]
        BY DEF Left, KeepsOrder
      <3> QED BY <1>2, <3>1
    <2>3. Left(q, dropped, left, n) BY <2>1, <2>2 DEF Left
    <2> QED BY <1>3, <2>3
  <1>4. CASE q[n] \notin dropped
    <2> DEFINE more == Append(left, q[n])
    <2>1. left \in Seq(Tasks) /\ Len(left) \in Nat BY LenProperties DEF Left
    <2>2. /\ more \in Seq(Tasks) /\ Len(more) = Len(left) + 1
          /\ \A i \in 1..Len(left) : more[i] = left[i]
          /\ more[Len(left) + 1] = q[n]
      BY <1>1, <2>1, AppendProperties
    <2> HIDE DEF more
    <2>3. 1..Len(more) = (1..Len(left)) \cup {Len(left) + 1} BY <2>1, <2>2
    <2>4. \A t : (\E i \in 1..Len(more) : more[i] = t)
                   <=> (\E i \in 1..Len(left) : left[i] = t) \/ t = q[n]
      BY <2>2, <2>3
    <2>5. \A t : (\E i \in 1..n : q[i] = t) <=> (\E i \in 1..n - 1 : q[i] = t) \/ t = q[n]
      BY <1>2
    <2>6. \A t : (\E i \in 1..Len(more) : more[i] = t)
                   <=> (t \notin dropped /\ \E i \in 1..n : q[i] = t)
      BY <1>4, <2>4, <2>5 DEF Left
    <2>7. ASSUME NEW i \in 1..Len(more), NEW j \in 1..Len(more), i < j
          PROVE  \E a, b \in 1..n : a < b /\ more[i] = q[a] /\ more[j] = q[b]
      <3>1. i \in 1..Len(left) BY <2>1, <2>2, <2>7
      <3>2. CASE j \in 1..Len(left)
        <4>1. PICK a \in 1..n - 1, b \in 1..n - 1 : a < b /\ left[i] = q[a] /\ left[j] = q[b]
          BY <2>7, <3>1, <3>2 DEF Left, KeepsOrder
        <4> QED BY <1>2, <2>2, <3>1, <3>2, <4>1
      <3>3. CASE j = Len(left) + 1
        <4>1. PICK a \in 1..n - 1 : left[i] = q[a] BY <3>1 DEF Left
        <4>2. a \in 1..n /\ n \in 1..n /\ a < n BY <1>1, <1>2, <4>1
        <4> QED BY <2>2, <3>1, <3>3, <4>1, <4>2
      <3> QED BY <2>3, <3>2, <3>3
    <2>8. Left(q, dropped, more, n) BY <2>2, <2>6, <2>7 DEF Left, KeepsOrder
    <2> QED BY <1>4, <2>8 DEF more
  <1> QED BY <1>3, <1>4

\* A bucket after the sweep: exactly the tasks not dropped, in the order they had.
LEMMA RetainedKeeps ==
  ASSUME NEW q \in Seq(Tasks), NEW dropped
  PROVE  Left(q, dropped, Retained(q, dropped), Len(q))
  <1> DEFINE f == RetainedOf(q, dropped)
             S == {n \in 0..Len(q) : Left(q, dropped, f[n], n)}
  <1>1. Len(q) \in Nat BY LenProperties
  <1>2. \A n \in 0..Len(q) : f[n] = Turn(q, dropped, f, n) BY LoopTurns DEF IsLoop
  <1>3. f[0] = <<>> /\ \A n \in 1..Len(q) :
          f[n] = IF q[n] \in dropped THEN f[n - 1] ELSE Append(f[n - 1], q[n])
    <2> HIDE DEF f
    <2> QED BY <1>1, <1>2 DEF Turn
  <1> HIDE DEF f
  <1>4. 0 \in S
    <2>1. <<>> \in Seq(Tasks) /\ Len(<<>>) = 0 BY EmptySeq
    <2>2. Left(q, dropped, <<>>, 0) BY <2>1 DEF Left, KeepsOrder
    <2> QED BY <1>1, <1>3, <2>2
  <1>5. ASSUME NEW n \in 1..Len(q), n - 1 \in S PROVE n \in S
    BY <1>1, <1>3, <1>5, OneTurnLeaves
  <1> HIDE DEF S
  <1>6. \A n \in 0..Len(q) : n \in S BY <1>1, <1>4, <1>5, AllNumbersUpTo
  <1>7. Left(q, dropped, f[Len(q)], Len(q)) BY <1>1, <1>6 DEF S
  <1> QED BY <1>7 DEF Retained, f

-----------------------------------------------------------------------------
(* The invariant.                                                             *)

Queued == {t \in Tasks : sequence[t] # 0}

\* Sequence numbers are handed out once each, in the order of the pushes, and only a
\* task that got one is in a bucket.
Numbered ==
  /\ \A t \in Tasks : sequence[t] <= Cardinality(Queued)
  /\ \A t, u \in Queued : sequence[t] = sequence[u] => t = u
  /\ \A p \in Priorities, l \in Lanes : InBucket(p, l) \subseteq Queued

QueuesInv == TypeOK /\ BucketsInOrder /\ Numbered

LEMMA QueuedIsFinite ==
  IsFiniteSet(Queued) /\ Cardinality(Queued) \in Nat /\ Cardinality(Queued) <= Cardinality(Tasks)
  <1>1. Queued \in SUBSET Tasks BY DEF Queued
  <1> QED BY <1>1, QueuesAssumption, FS_Subset, FS_CardinalityType

LEMMA BucketType ==
  ASSUME TypeOK, NEW p \in Priorities, NEW l \in Lanes
  PROVE  buckets[p][l] \in Seq(Tasks) /\ Len(buckets[p][l]) \in Nat /\ InBucket(p, l) \subseteq Tasks
  <1>1. buckets[p][l] \in Seq(Tasks) BY DEF TypeOK
  <1>2. Len(buckets[p][l]) \in Nat /\ \A i \in 1..Len(buckets[p][l]) : buckets[p][l][i] \in Tasks
    BY <1>1, LenProperties, ElementOfSeq
  <1> QED BY <1>1, <1>2 DEF InBucket

LEMMA InvInit == Init => QueuesInv
  <1> SUFFICES ASSUME Init PROVE QueuesInv OBVIOUS
  <1>1. Cardinality(Tasks) \in Nat BY QueuesAssumption, FS_CardinalityType
  <1>2. <<>> \in Seq(Tasks) /\ Len(<<>>) = 0 BY EmptySeq
  <1>3. TypeOK BY <1>1, <1>2 DEF Init, TypeOK
  <1>4. \A p \in Priorities, l \in Lanes : InBucket(p, l) = {}
    BY <1>2 DEF Init, InBucket
  <1>5. \A p \in Priorities, l \in Lanes : Len(buckets[p][l]) = 0
    BY <1>2 DEF Init
  <1>6. BucketsInOrder BY <1>4, <1>5 DEF BucketsInOrder
  <1>7. \A t \in Tasks : sequence[t] = 0 BY DEF Init
  <1>8. Numbered BY <1>4, <1>7, QueuedIsFinite DEF Numbered, Queued
  <1> QED BY <1>3, <1>6, <1>8 DEF QueuesInv

\* What a push does to the numbers: the pushed task gets one above all others.
LEMMA PushNumbers ==
  ASSUME QueuesInv, NEW t \in Tasks, PushBack(t)
  PROVE  /\ t \notin Queued /\ Queued' = Queued \cup {t}
         /\ Cardinality(Queued') = Cardinality(Queued) + 1
         /\ sequence' = [sequence EXCEPT ![t] = Cardinality(Queued) + 1]
         /\ Cardinality(Queued) + 1 <= Cardinality(Tasks)
         /\ \A u \in Tasks : sequence[u] \in Nat /\ sequence[u] <= Cardinality(Queued)
  <1> DEFINE c == Cardinality(Queued)
  <1>1. /\ c \in Nat /\ IsFiniteSet(Queued) /\ Cardinality(Tasks) \in Nat
    BY QueuedIsFinite, QueuesAssumption, FS_CardinalityType
  <1>2. sequence[t] = 0 /\ sequence' = [sequence EXCEPT ![t] = 1 + c]
    BY DEF PushBack, Queued
  <1>3. \A u \in Tasks : sequence[u] \in Nat /\ sequence[u] <= c
    BY <1>1 DEF QueuesInv, TypeOK, Numbered
  <1>4. t \notin Queued BY <1>2 DEF Queued
  <1>5. Cardinality(Queued \cup {t}) = c + 1 BY <1>1, <1>4, FS_AddElement
  <1>6. Queued \cup {t} \in SUBSET Tasks BY DEF Queued
  <1>7. c + 1 <= Cardinality(Tasks)
    <2>1. Cardinality(Queued \cup {t}) <= Cardinality(Tasks)
      BY <1>6, QueuesAssumption, FS_Subset
    <2> QED BY <1>5, <2>1
  <1>8. \A u \in Tasks : sequence'[u] = IF u = t THEN 1 + c ELSE sequence[u]
    BY <1>2 DEF QueuesInv, TypeOK
  <1>9. Queued' = Queued \cup {t}
    <2> HIDE DEF c
    <2> QED BY <1>1, <1>8 DEF Queued
  <1>10. 1 + c = c + 1 BY <1>1
  <1> HIDE DEF c
  <1> QED BY <1>1, <1>2, <1>3, <1>4, <1>5, <1>7, <1>9, <1>10 DEF c

\* What each operation does to a bucket.
LEMMA PushBuckets ==
  ASSUME QueuesInv, NEW t \in Tasks, PushBack(t), NEW p \in Priorities, NEW l \in Lanes
  PROVE  buckets'[p][l] = IF p = Priority[t] /\ l = Lane[t] THEN Append(buckets[p][l], t)
                          ELSE buckets[p][l]
  <1>1. Priority[t] \in Priorities /\ Lane[t] \in Lanes BY QueuesAssumption
  <1> QED BY <1>1 DEF PushBack, QueuesInv, TypeOK

LEMMA PushInv == ASSUME QueuesInv, NEW t \in Tasks, PushBack(t) PROVE QueuesInv'
  <1> DEFINE c == Cardinality(Queued)
  <1>1. c \in Nat /\ Cardinality(Tasks) \in Nat
    BY QueuedIsFinite, QueuesAssumption, FS_CardinalityType
  <1>2. /\ t \notin Queued /\ Queued' = Queued \cup {t}
        /\ Cardinality(Queued') = c + 1
        /\ sequence' = [sequence EXCEPT ![t] = c + 1]
        /\ c + 1 <= Cardinality(Tasks)
        /\ \A u \in Tasks : sequence[u] \in Nat /\ sequence[u] <= c
    BY PushNumbers
  <1> HIDE DEF c
  <1>3. \A u \in Tasks : sequence'[u] = IF u = t THEN c + 1 ELSE sequence[u]
    BY <1>2 DEF QueuesInv, TypeOK
  <1>4. TypeOK'
    <2>1. sequence' \in [Tasks -> 0..Cardinality(Tasks)]
      BY <1>1, <1>2 DEF QueuesInv, TypeOK
    <2>2. Priority[t] \in Priorities /\ Lane[t] \in Lanes BY QueuesAssumption
    <2>3. Append(buckets[Priority[t]][Lane[t]], t) \in Seq(Tasks)
      BY <2>2, BucketType, AppendProperties DEF QueuesInv
    <2>4. buckets' \in [Priorities -> [Lanes -> Seq(Tasks)]]
      BY <2>2, <2>3 DEF PushBack, QueuesInv, TypeOK
    <2> QED BY <2>1, <2>4 DEF PushBack, QueuesInv, TypeOK
  <1>5. ASSUME NEW p \in Priorities, NEW l \in Lanes
        PROVE  /\ InBucket(p, l)' \subseteq Queued'
               /\ \A u \in InBucket(p, l)' : Priority[u] = p /\ Lane[u] = l
               /\ \A i, j \in 1..Len(buckets'[p][l]) :
                    i < j => sequence'[buckets'[p][l][i]] < sequence'[buckets'[p][l][j]]
    <2> DEFINE b == buckets[p][l]
    <2>1. b \in Seq(Tasks) /\ Len(b) \in Nat /\ InBucket(p, l) \subseteq Tasks
      BY BucketType DEF QueuesInv
    <2>2. /\ InBucket(p, l) \subseteq Queued
          /\ \A u \in InBucket(p, l) : Priority[u] = p /\ Lane[u] = l
          /\ \A i, j \in 1..Len(b) : i < j => sequence[b[i]] < sequence[b[j]]
          /\ InBucket(p, l) = {b[i] : i \in 1..Len(b)}
          /\ InBucket(p, l)' = {buckets'[p][l][i] : i \in 1..Len(buckets'[p][l])}
      BY DEF QueuesInv, BucketsInOrder, Numbered, InBucket
    <2> HIDE DEF b
    <2>3. \A i \in 1..Len(b) : b[i] \in Tasks /\ b[i] # t /\ sequence'[b[i]] = sequence[b[i]]
      BY <1>2, <1>3, <2>1, <2>2
    <2>4. CASE p = Priority[t] /\ l = Lane[t]
      <3>1. buckets'[p][l] = Append(b, t) BY <2>4, PushBuckets DEF b
      <3>2. /\ Len(Append(b, t)) = Len(b) + 1
            /\ \A i \in 1..Len(b) : Append(b, t)[i] = b[i]
            /\ Append(b, t)[Len(b) + 1] = t
        BY <2>1, AppendProperties
      <3>3. 1..Len(Append(b, t)) = (1..Len(b)) \cup {Len(b) + 1} BY <2>1, <3>2
      <3>4. InBucket(p, l)' = InBucket(p, l) \cup {t} BY <2>2, <3>1, <3>2, <3>3
      <3>5. ASSUME NEW i \in 1..Len(Append(b, t)), NEW j \in 1..Len(Append(b, t)), i < j
            PROVE  sequence'[Append(b, t)[i]] < sequence'[Append(b, t)[j]]
        <4>1. i \in 1..Len(b) BY <2>1, <3>2, <3>5
        <4>2. CASE j \in 1..Len(b) BY <2>2, <2>3, <3>2, <3>5, <4>1, <4>2
        <4>3. CASE j = Len(b) + 1
          <5>1. sequence'[Append(b, t)[j]] = c + 1 BY <1>3, <3>2, <4>3
          <5>2. sequence'[Append(b, t)[i]] = sequence[b[i]] /\ b[i] \in Tasks
            BY <2>3, <3>2, <4>1
          <5>3. sequence[b[i]] \in Nat /\ sequence[b[i]] <= c BY <1>2, <5>2
          <5> QED BY <1>1, <5>1, <5>2, <5>3
        <4> QED BY <3>3, <4>2, <4>3
      <3> QED BY <1>2, <2>2, <2>4, <3>1, <3>4, <3>5
    <2>5. CASE ~(p = Priority[t] /\ l = Lane[t])
      <3>1. buckets'[p][l] = b BY <2>5, PushBuckets DEF b
      <3> QED BY <1>2, <2>2, <2>3, <3>1
    <2> QED BY <2>4, <2>5
  <1>6. BucketsInOrder' BY <1>5 DEF BucketsInOrder
  <1>7. Numbered'
    <2>1. \A u \in Tasks : sequence'[u] <= c + 1 BY <1>1, <1>2, <1>3
    <2>2. \A u, v \in Queued' : sequence'[u] = sequence'[v] => u = v
      <3>1. \A u \in Queued : u # t /\ sequence'[u] = sequence[u] /\ sequence[u] < c + 1
        BY <1>1, <1>2, <1>3 DEF Queued
      <3>2. sequence'[t] = c + 1 BY <1>3
      <3>3. \A u, v \in Queued : sequence[u] = sequence[v] => u = v
        BY DEF QueuesInv, Numbered
      <3> QED BY <1>1, <1>2, <3>1, <3>2, <3>3 DEF Queued
    <2> QED BY <1>2, <1>5, <2>1, <2>2 DEF Numbered
  <1> QED BY <1>4, <1>6, <1>7 DEF QueuesInv

\* Dropping tasks from buckets, the others in the order they had, keeps the order.
LEMMA DroppingKeepsOrder ==
  ASSUME QueuesInv, UNCHANGED sequence,
         \A p \in Priorities, l \in Lanes :
           /\ InBucket(p, l)' \subseteq InBucket(p, l)
           /\ KeepsOrder(buckets'[p][l], buckets[p][l], Len(buckets[p][l]))
  PROVE  BucketsInOrder' /\ Numbered'
  <1>1. Queued' = Queued BY DEF Queued
  <1>2. Numbered' BY <1>1 DEF QueuesInv, Numbered
  <1>3. ASSUME NEW p \in Priorities, NEW l \in Lanes,
               NEW i \in 1..Len(buckets'[p][l]), NEW j \in 1..Len(buckets'[p][l]), i < j
        PROVE  sequence'[buckets'[p][l][i]] < sequence'[buckets'[p][l][j]]
    <2>1. PICK a \in 1..Len(buckets[p][l]), b \in 1..Len(buckets[p][l]) :
            /\ a < b
            /\ buckets'[p][l][i] = buckets[p][l][a]
            /\ buckets'[p][l][j] = buckets[p][l][b]
      BY <1>3 DEF KeepsOrder
    <2> QED BY <2>1 DEF QueuesInv, BucketsInOrder
  <1>4. \A p \in Priorities, l \in Lanes :
          \A t \in InBucket(p, l)' : Priority[t] = p /\ Lane[t] = l
    BY DEF QueuesInv, BucketsInOrder
  <1>5. BucketsInOrder' BY <1>3, <1>4 DEF BucketsInOrder
  <1> QED BY <1>2, <1>5

\* The head of a bucket is its first task, and no task of it has a smaller number.
LEMMA HeadIsOldest ==
  ASSUME QueuesInv, NEW p \in Priorities, NEW l \in Lanes, buckets[p][l] # <<>>
  PROVE  /\ Head(buckets[p][l]) = buckets[p][l][1] /\ 1 \in 1..Len(buckets[p][l])
         /\ Head(buckets[p][l]) \in InBucket(p, l)
         /\ \A t \in InBucket(p, l) :
              t # Head(buckets[p][l]) => sequence[Head(buckets[p][l])] < sequence[t]
  <1> DEFINE b == buckets[p][l]
  <1>1. /\ b \in Seq(Tasks) /\ Len(b) \in Nat /\ b # <<>>
        /\ InBucket(p, l) = {b[i] : i \in 1..Len(b)}
        /\ \A i, j \in 1..Len(b) : i < j => sequence[b[i]] < sequence[b[j]]
    BY BucketType DEF QueuesInv, BucketsInOrder, InBucket
  <1> HIDE DEF b
  <1>2. Len(b) # 0 BY <1>1, EmptySeq
  <1>3. 1 \in 1..Len(b) /\ Head(b) = b[1] BY <1>1, <1>2
  <1>4. ASSUME NEW t \in InBucket(p, l), t # Head(b) PROVE sequence[Head(b)] < sequence[t]
    <2>1. PICK i \in 1..Len(b) : t = b[i] BY <1>1
    <2>2. 1 < i BY <1>1, <1>3, <1>4, <2>1
    <2> QED BY <1>1, <1>3, <2>1, <2>2
  <1>5. Head(b) \in InBucket(p, l) BY <1>1, <1>3
  <1> QED BY <1>3, <1>4, <1>5 DEF b

\* The lane pop_next_ready picks is ready, and its head is the oldest of the heads.
LEMMA BestLaneIsBest ==
  ASSUME QueuesInv, NEW p \in Priorities, ReadyLanes(p) # {}
  PROVE  /\ BestLane(p) \in ReadyLanes(p)
         /\ \A k \in ReadyLanes(p) :
              sequence[Head(buckets[p][BestLane(p)])] <= sequence[Head(buckets[p][k])]
  <1> DEFINE h(l) == sequence[Head(buckets[p][l])]
             S == {h(l) : l \in ReadyLanes(p)}
  <1>1. ASSUME NEW l \in ReadyLanes(p) PROVE h(l) \in Nat
    <2>1. l \in Lanes /\ buckets[p][l] # <<>> BY DEF ReadyLanes
    <2>2. Head(buckets[p][l]) \in Tasks BY <2>1, HeadIsOldest, BucketType DEF QueuesInv
    <2> QED BY <2>2 DEF QueuesInv, TypeOK
  <1>2. \E n \in S : \A k \in S : n <= k
    <2>1. S \subseteq Nat /\ S # {} BY <1>1
    <2> HIDE DEF S
    <2> QED BY <2>1, SmallestNumber
  <1>3. \E l \in ReadyLanes(p) : \A k \in ReadyLanes(p) : h(l) <= h(k) BY <1>2
  <1> QED BY <1>3 DEF BestLane

\* What a pop takes: the head of the best lane of the first priority with a ready lane.
LEMMA PopTakes ==
  ASSUME QueuesInv, PopNextReady
  PROVE  \E p \in Priorities : \E l \in ReadyLanes(p) :
           /\ \A q \in 0..p - 1 : ReadyLanes(q) = {}
           /\ \A k \in ReadyLanes(p) :
                sequence[Head(buckets[p][l])] <= sequence[Head(buckets[p][k])]
           /\ buckets' = [buckets EXCEPT ![p][l] = Tail(@)]
           /\ active' = [active EXCEPT ![l] = @ + 1]
           /\ UNCHANGED <<sequence, cancelled>>
  <1>1. PICK p \in Priorities :
          /\ ReadyLanes(p) # {}
          /\ \A q \in 0..p - 1 : ReadyLanes(q) = {}
          /\ buckets' = [buckets EXCEPT ![p][BestLane(p)] = Tail(@)]
          /\ active' = [active EXCEPT ![BestLane(p)] = @ + 1]
          /\ UNCHANGED <<sequence, cancelled>>
    BY DEF PopNextReady
  <1>2. /\ BestLane(p) \in ReadyLanes(p)
        /\ \A k \in ReadyLanes(p) :
             sequence[Head(buckets[p][BestLane(p)])] <= sequence[Head(buckets[p][k])]
    BY <1>1, BestLaneIsBest
  <1> QED BY <1>1, <1>2

\* A bucket without its head: the same tasks but one, in the order they had.
LEMMA TailDropsHead ==
  ASSUME QueuesInv, NEW p \in Priorities, NEW l \in Lanes, buckets[p][l] # <<>>
  PROVE  /\ Tail(buckets[p][l]) \in Seq(Tasks)
         /\ {Tail(buckets[p][l])[i] : i \in 1..Len(Tail(buckets[p][l]))}
              = InBucket(p, l) \ {Head(buckets[p][l])}
         /\ KeepsOrder(Tail(buckets[p][l]), buckets[p][l], Len(buckets[p][l]))
  <1> DEFINE b == buckets[p][l]
  <1>1. /\ b \in Seq(Tasks) /\ Len(b) \in Nat /\ b # <<>>
        /\ InBucket(p, l) = {b[i] : i \in 1..Len(b)}
        /\ Head(b) = b[1] /\ 1 \in 1..Len(b)
        /\ \A i, j \in 1..Len(b) : i < j => sequence[b[i]] < sequence[b[j]]
        /\ \A i \in 1..Len(b) : b[i] \in Tasks
        /\ sequence \in [Tasks -> Nat]
    <2>1. sequence \in [Tasks -> Nat] BY QueuesAssumption, FS_CardinalityType DEF QueuesInv, TypeOK
    <2> QED BY <2>1, BucketType, HeadIsOldest, ElementOfSeq DEF QueuesInv, BucketsInOrder, InBucket
  <1> HIDE DEF b
  <1>2. /\ Tail(b) \in Seq(Tasks) /\ Len(Tail(b)) = Len(b) - 1
        /\ \A i \in 1..Len(Tail(b)) : Tail(b)[i] = b[i + 1]
    BY <1>1, HeadTailProperties
  <1>3. \A i \in 1..Len(Tail(b)) : i + 1 \in 1..Len(b) /\ i + 1 # 1 /\ 1 < i + 1
    BY <1>1, <1>2
  <1>4. \A i \in 1..Len(b) : i # 1 => i - 1 \in 1..Len(Tail(b)) /\ (i - 1) + 1 = i
    BY <1>1, <1>2
  <1>5. ASSUME NEW t \in InBucket(p, l), t # Head(b)
        PROVE  t \in {Tail(b)[i] : i \in 1..Len(Tail(b))}
    <2>1. PICK i \in 1..Len(b) : t = b[i] BY <1>1
    <2>2. i # 1 BY <1>1, <1>5, <2>1
    <2>3. Tail(b)[i - 1] = t /\ i - 1 \in 1..Len(Tail(b)) BY <1>2, <1>4, <2>1, <2>2
    <2> QED BY <2>3
  <1>6. ASSUME NEW i \in 1..Len(Tail(b))
        PROVE  Tail(b)[i] \in InBucket(p, l) /\ Tail(b)[i] # Head(b)
    <2>1. Tail(b)[i] = b[i + 1] /\ i + 1 \in 1..Len(b) /\ 1 < i + 1 BY <1>2, <1>3
    <2>2. sequence[b[1]] < sequence[b[i + 1]] BY <1>1, <2>1
    <2>3. sequence[b[1]] \in Nat BY <1>1
    <2> QED BY <1>1, <2>1, <2>2, <2>3
  <1>7. ASSUME NEW i \in 1..Len(Tail(b)), NEW j \in 1..Len(Tail(b)), i < j
        PROVE  \E x, y \in 1..Len(b) : x < y /\ Tail(b)[i] = b[x] /\ Tail(b)[j] = b[y]
    <2>1. i + 1 \in 1..Len(b) /\ j + 1 \in 1..Len(b) /\ i + 1 < j + 1 BY <1>3, <1>7
    <2> QED BY <1>2, <2>1
  <1>8. {Tail(b)[i] : i \in 1..Len(Tail(b))} = InBucket(p, l) \ {Head(b)} BY <1>5, <1>6
  <1>9. KeepsOrder(Tail(b), b, Len(b)) BY <1>7 DEF KeepsOrder
  <1> QED BY <1>2, <1>8, <1>9 DEF b

LEMMA PopBuckets ==
  ASSUME QueuesInv, NEW p \in Priorities, NEW l \in ReadyLanes(p),
         buckets' = [buckets EXCEPT ![p][l] = Tail(@)]
  PROVE  /\ buckets' \in [Priorities -> [Lanes -> Seq(Tasks)]]
         /\ \A q \in Priorities, k \in Lanes :
              /\ InBucket(q, k)' = IF q = p /\ k = l THEN InBucket(p, l) \ {Head(buckets[p][l])}
                                   ELSE InBucket(q, k)
              /\ KeepsOrder(buckets'[q][k], buckets[q][k], Len(buckets[q][k]))
  <1>1. l \in Lanes /\ buckets[p][l] # <<>> BY DEF ReadyLanes
  <1>2. /\ Tail(buckets[p][l]) \in Seq(Tasks)
        /\ {Tail(buckets[p][l])[i] : i \in 1..Len(Tail(buckets[p][l]))}
             = InBucket(p, l) \ {Head(buckets[p][l])}
        /\ KeepsOrder(Tail(buckets[p][l]), buckets[p][l], Len(buckets[p][l]))
    BY <1>1, TailDropsHead
  <1>3. buckets' \in [Priorities -> [Lanes -> Seq(Tasks)]]
    BY <1>1, <1>2 DEF QueuesInv, TypeOK
  <1>4. ASSUME NEW q \in Priorities, NEW k \in Lanes
        PROVE  buckets'[q][k] = IF q = p /\ k = l THEN Tail(buckets[p][l]) ELSE buckets[q][k]
    BY <1>1 DEF QueuesInv, TypeOK
  <1>5. ASSUME NEW q \in Priorities, NEW k \in Lanes
        PROVE  /\ InBucket(q, k)' = IF q = p /\ k = l THEN InBucket(p, l) \ {Head(buckets[p][l])}
                                     ELSE InBucket(q, k)
               /\ KeepsOrder(buckets'[q][k], buckets[q][k], Len(buckets[q][k]))
    <2>1. CASE q = p /\ k = l
      <3>1. buckets'[q][k] = Tail(buckets[p][l]) BY <1>4, <2>1
      <3>2. InBucket(q, k)' = {buckets'[q][k][i] : i \in 1..Len(buckets'[q][k])} BY DEF InBucket
      <3>3. InBucket(q, k)' = InBucket(p, l) \ {Head(buckets[p][l])} BY <1>2, <3>1, <3>2
      <3>4. KeepsOrder(buckets'[q][k], buckets[q][k], Len(buckets[q][k])) BY <1>2, <2>1, <3>1
      <3> QED BY <2>1, <3>3, <3>4
    <2>2. CASE ~(q = p /\ k = l)
      <3>1. buckets'[q][k] = buckets[q][k] BY <1>4, <2>2
      <3>2. InBucket(q, k)' = InBucket(q, k) BY <3>1 DEF InBucket
      <3>3. KeepsOrder(buckets'[q][k], buckets[q][k], Len(buckets[q][k]))
        <4> DEFINE b == buckets[q][k]
        <4>1. KeepsOrder(b, b, Len(b)) BY DEF KeepsOrder
        <4> QED BY <3>1, <4>1
      <3> QED BY <2>2, <3>2, <3>3
    <2> QED BY <2>1, <2>2
  <1> QED BY <1>3, <1>5

LEMMA PopInv == ASSUME QueuesInv, PopNextReady PROVE QueuesInv'
  <1>0. PICK p \in Priorities : \E l \in ReadyLanes(p) :
           /\ buckets' = [buckets EXCEPT ![p][l] = Tail(@)]
           /\ active' = [active EXCEPT ![l] = @ + 1]
           /\ UNCHANGED <<sequence, cancelled>>
    BY PopTakes
  <1>1. PICK l \in ReadyLanes(p) :
           /\ buckets' = [buckets EXCEPT ![p][l] = Tail(@)]
           /\ active' = [active EXCEPT ![l] = @ + 1]
           /\ UNCHANGED <<sequence, cancelled>>
    BY <1>0
  <1>2. l \in Lanes BY DEF ReadyLanes
  <1>3. TypeOK'
    <2>1. active' \in [Lanes -> Nat] BY <1>1, <1>2 DEF QueuesInv, TypeOK
    <2> QED BY <1>1, <2>1, PopBuckets DEF QueuesInv, TypeOK
  <1>4. BucketsInOrder' /\ Numbered'
    <2>1. ASSUME NEW q \in Priorities, NEW k \in Lanes
          PROVE  /\ InBucket(q, k)' \subseteq InBucket(q, k)
                 /\ KeepsOrder(buckets'[q][k], buckets[q][k], Len(buckets[q][k]))
      <3>1. /\ InBucket(q, k)' = IF q = p /\ k = l THEN InBucket(p, l) \ {Head(buckets[p][l])}
                                 ELSE InBucket(q, k)
            /\ KeepsOrder(buckets'[q][k], buckets[q][k], Len(buckets[q][k]))
        BY <1>1, PopBuckets
      <3> QED BY <3>1
    <2> QED BY <1>1, <2>1, DroppingKeepsOrder
  <1> QED BY <1>3, <1>4 DEF QueuesInv

\* A sweep takes the cancelled tasks out of every bucket and no other.
LEMMA SweepBuckets ==
  ASSUME QueuesInv, NEW S, RemoveCancelled(S), NEW p \in Priorities, NEW l \in Lanes
  PROVE  /\ buckets'[p][l] = Retained(buckets[p][l], cancelled')
         /\ buckets'[p][l] \in Seq(Tasks)
         /\ InBucket(p, l)' = InBucket(p, l) \ cancelled'
         /\ KeepsOrder(buckets'[p][l], buckets[p][l], Len(buckets[p][l]))
  <1>1. buckets'[p][l] = Retained(buckets[p][l], cancelled') BY DEF RemoveCancelled
  <1>2. buckets[p][l] \in Seq(Tasks) BY BucketType DEF QueuesInv
  <1>3. Left(buckets[p][l], cancelled', buckets'[p][l], Len(buckets[p][l]))
    BY <1>1, <1>2, RetainedKeeps
  <1>4. /\ InBucket(p, l)' = {buckets'[p][l][i] : i \in 1..Len(buckets'[p][l])}
        /\ InBucket(p, l) = {buckets[p][l][i] : i \in 1..Len(buckets[p][l])}
    BY DEF InBucket
  <1>5. \A t : t \in InBucket(p, l)' <=> (t \notin cancelled' /\ t \in InBucket(p, l))
    BY <1>3, <1>4 DEF Left
  <1> QED BY <1>1, <1>3, <1>5 DEF Left

LEMMA SweepInv ==
  ASSUME QueuesInv, NEW S \in SUBSET Tasks, RemoveCancelled(S)
  PROVE  QueuesInv'
  <1>1. TypeOK'
    <2>1. buckets' \in [Priorities -> [Lanes -> Seq(Tasks)]]
      <3>1. buckets' = [p \in Priorities |-> [l \in Lanes |-> Retained(buckets[p][l], cancelled')]]
        BY DEF RemoveCancelled
      <3>2. \A p \in Priorities, l \in Lanes : Retained(buckets[p][l], cancelled') \in Seq(Tasks)
        BY SweepBuckets
      <3> QED BY <3>1, <3>2
    <2> QED BY <2>1 DEF RemoveCancelled, QueuesInv, TypeOK
  <1>2. BucketsInOrder' /\ Numbered'
    <2>1. \A p \in Priorities, l \in Lanes : InBucket(p, l)' \subseteq InBucket(p, l)
      BY SweepBuckets
    <2>2. UNCHANGED sequence BY DEF RemoveCancelled
    <2> QED BY <2>1, <2>2, SweepBuckets, DroppingKeepsOrder
  <1> QED BY <1>1, <1>2 DEF QueuesInv

LEMMA FinishInv == ASSUME QueuesInv, NEW l \in Lanes, FinishRunning(l) PROVE QueuesInv'
  <1>1. active' \in [Lanes -> Nat] BY DEF FinishRunning, QueuesInv, TypeOK
  <1>2. UNCHANGED <<buckets, sequence, cancelled>> BY DEF FinishRunning
  <1> QED BY <1>1, <1>2 DEF QueuesInv, TypeOK, BucketsInOrder, Numbered, Queued, InBucket

\* Every operation keeps the buckets in order and the numbers handed out once.
THEOREM QueuesInvariant == Spec => []QueuesInv
  <1>1. QueuesInv /\ [Next]_vars => QueuesInv'
    <2> SUFFICES ASSUME QueuesInv, [Next]_vars PROVE QueuesInv' OBVIOUS
    <2>1. ASSUME NEW t \in Tasks, PushBack(t) PROVE QueuesInv' BY <2>1, PushInv
    <2>2. CASE PopNextReady BY <2>2, PopInv
    <2>3. ASSUME NEW S \in (SUBSET Tasks) \ {{}}, RemoveCancelled(S) PROVE QueuesInv'
      BY <2>3, SweepInv
    <2>4. ASSUME NEW l \in Lanes, FinishRunning(l) PROVE QueuesInv' BY <2>4, FinishInv
    <2>5. CASE UNCHANGED vars
      BY <2>5 DEF vars, QueuesInv, TypeOK, BucketsInOrder, Numbered, Queued, InBucket
    <2> QED BY <2>1, <2>2, <2>3, <2>4, <2>5 DEF Next
  <1> QED BY <1>1, InvInit, PTL DEF Spec

\* The types of the buckets and of what the graph keeps beside them.
THEOREM TypeCorrect == Spec => []TypeOK
  <1>1. QueuesInv => TypeOK BY DEF QueuesInv
  <1> QED BY <1>1, QueuesInvariant, PTL

\* Every bucket holds tasks of its own lane and priority, oldest first, whatever
\* pushes, pops and sweeps came before: pop_next_ready may look at the heads only.
THEOREM OrderCorrect == Spec => []BucketsInOrder
  <1>1. QueuesInv => BucketsInOrder BY DEF QueuesInv
  <1> QED BY <1>1, QueuesInvariant, PTL

-----------------------------------------------------------------------------
(* The refinement: every operation on the buckets is one of the abstract      *)
(* queue on the set of the tasks they hold.                                   *)

LEMMA WaitingMember ==
  \A t : t \in Waiting <=> \E p \in Priorities : \E l \in Lanes : t \in InBucket(p, l)
  BY DEF Waiting

\* A waiting task is in the bucket of its own priority and lane, and in no other.
LEMMA OwnBucket ==
  ASSUME QueuesInv, NEW t \in Waiting
  PROVE  /\ t \in Tasks /\ Priority[t] \in Priorities /\ Lane[t] \in Lanes
         /\ t \in InBucket(Priority[t], Lane[t])
         /\ \A p \in Priorities, l \in Lanes :
              t \in InBucket(p, l) => p = Priority[t] /\ l = Lane[t]
         /\ sequence[t] # 0 /\ sequence[t] \in Nat
  <1>1. PICK p \in Priorities, l \in Lanes : t \in InBucket(p, l) BY WaitingMember
  <1>2. \A q \in Priorities, k \in Lanes :
          t \in InBucket(q, k) => q = Priority[t] /\ k = Lane[t]
    BY DEF QueuesInv, BucketsInOrder
  <1>3. p = Priority[t] /\ l = Lane[t] BY <1>1, <1>2
  <1>4. t \in Queued BY <1>1 DEF QueuesInv, Numbered
  <1>5. t \in Tasks /\ sequence[t] # 0 BY <1>4 DEF Queued
  <1>6. Cardinality(Tasks) \in Nat BY QueuesAssumption, FS_CardinalityType
  <1>7. sequence[t] \in Nat BY <1>5, <1>6 DEF QueuesInv, TypeOK
  <1> QED BY <1>1, <1>2, <1>3, <1>5, <1>7

LEMMA InitRefines == Init => Queue!Init
  <1> SUFFICES ASSUME Init PROVE Queue!Init OBVIOUS
  <1>1. \A p \in Priorities, l \in Lanes : InBucket(p, l) = {}
    <2>1. Len(<<>>) = 0 BY EmptySeq
    <2> QED BY <2>1 DEF Init, InBucket
  <1>2. Waiting = {} BY <1>1, WaitingMember
  <1> QED BY <1>2 DEF Init, Queue!Init

LEMMA PushRefines == ASSUME QueuesInv, NEW t \in Tasks, PushBack(t) PROVE Queue!Push(t)
  <1>1. Priority[t] \in Priorities /\ Lane[t] \in Lanes BY QueuesAssumption
  <1>2. ASSUME NEW p \in Priorities, NEW l \in Lanes
        PROVE  InBucket(p, l)' = IF p = Priority[t] /\ l = Lane[t] THEN InBucket(p, l) \cup {t}
                                 ELSE InBucket(p, l)
    <2> DEFINE b == buckets[p][l]
    <2>1. /\ InBucket(p, l)' = {buckets'[p][l][i] : i \in 1..Len(buckets'[p][l])}
          /\ InBucket(p, l) = {b[i] : i \in 1..Len(b)}
          /\ b \in Seq(Tasks) /\ Len(b) \in Nat
      BY BucketType DEF InBucket, QueuesInv
    <2> HIDE DEF b
    <2>2. CASE p = Priority[t] /\ l = Lane[t]
      <3>1. buckets'[p][l] = Append(b, t) BY <2>2, PushBuckets DEF b
      <3>2. /\ Len(Append(b, t)) = Len(b) + 1
            /\ \A i \in 1..Len(b) : Append(b, t)[i] = b[i]
            /\ Append(b, t)[Len(b) + 1] = t
        BY <2>1, AppendProperties
      <3>3. 1..Len(Append(b, t)) = (1..Len(b)) \cup {Len(b) + 1} BY <2>1, <3>2
      <3>4. InBucket(p, l)' = InBucket(p, l) \cup {t} BY <2>1, <3>1, <3>2, <3>3
      <3> QED BY <2>2, <3>4
    <2>3. CASE ~(p = Priority[t] /\ l = Lane[t])
      <3>1. buckets'[p][l] = b BY <2>3, PushBuckets DEF b
      <3> QED BY <2>1, <2>3, <3>1
    <2> QED BY <2>2, <2>3
  <1>3. ASSUME NEW u PROVE u \in Waiting' <=> u \in Waiting \cup {t}
    <2>1. u \in Waiting' <=> \E p \in Priorities : \E l \in Lanes : u \in InBucket(p, l)'
      BY DEF Waiting
    <2> QED BY <1>1, <1>2, <2>1, WaitingMember
  <1>4. Waiting' = Waiting \cup {t} BY <1>3
  <1>5. /\ sequence[t] = 0
        /\ sequence' = [sequence EXCEPT ![t] = 1 + Cardinality({u \in Tasks : sequence[u] # 0})]
        /\ UNCHANGED <<cancelled, active>>
    BY DEF PushBack
  <1> DEFINE N == {u \in Tasks : sequence[u] # 0}
  <1>6. Cardinality(N) = Queue!Cardinality(N) BY DEF Cardinality, Queue!Cardinality
  <1> QED BY <1>4, <1>5, <1>6 DEF Queue!Push

\* The head a pop takes is the most urgent, oldest of the waiting tasks with a slot.
LEMMA HeadPrecedes ==
  ASSUME QueuesInv, NEW p \in Priorities, NEW l \in ReadyLanes(p),
         \A q \in 0..p - 1 : ReadyLanes(q) = {},
         \A k \in ReadyLanes(p) : sequence[Head(buckets[p][l])] <= sequence[Head(buckets[p][k])]
  PROVE  /\ Head(buckets[p][l]) \in Queue!Ready
         /\ \A u \in Queue!Ready \ {Head(buckets[p][l])} :
              Queue!MoreUrgent(Head(buckets[p][l]), u)
  <1> DEFINE t == Head(buckets[p][l])
  <1>1. /\ l \in Lanes /\ active[l] < LaneConcurrency[l] /\ buckets[p][l] # <<>>
    BY DEF ReadyLanes
  <1>2. t \in InBucket(p, l) BY <1>1, HeadIsOldest
  <1>3. t \in Waiting BY <1>1, <1>2, WaitingMember
  <1>4. t \in Tasks /\ Priority[t] = p /\ Lane[t] = l /\ sequence[t] \in Nat
    BY <1>1, <1>2, <1>3, OwnBucket
  <1>5. t \in Queue!Ready BY <1>1, <1>3, <1>4 DEF Queue!Ready
  <1>6. ASSUME NEW u \in Queue!Ready, u # t PROVE Queue!MoreUrgent(t, u)
    <2> DEFINE q == Priority[u]
               k == Lane[u]
    <2>1. u \in Waiting /\ active[k] < LaneConcurrency[k] BY DEF Queue!Ready
    <2>2. /\ u \in Tasks /\ q \in Priorities /\ k \in Lanes /\ u \in InBucket(q, k)
          /\ sequence[u] \in Nat
      BY <2>1, OwnBucket
    <2>3. buckets[q][k] # <<>>
      <3>1. InBucket(q, k) # {} BY <2>2
      <3>2. Len(<<>>) = 0 BY EmptySeq
      <3> QED BY <3>1, <3>2 DEF InBucket
    <2>4. k \in ReadyLanes(q) BY <2>1, <2>2, <2>3 DEF ReadyLanes
    <2>5. p \in Nat /\ q \in Nat BY <2>2 DEF Priorities
    <2>6. ~(q < p)
      <3>1. q < p => q \in 0..p - 1 BY <2>5
      <3> QED BY <2>4, <3>1
    <2>7. CASE p < q BY <1>4, <2>7 DEF Queue!MoreUrgent
    <2>8. CASE p = q
      <3>1. sequence[t] <= sequence[Head(buckets[p][k])] BY <2>4, <2>8
      <3>2. Head(buckets[p][k]) \in InBucket(p, k) /\
            (u # Head(buckets[p][k]) => sequence[Head(buckets[p][k])] < sequence[u])
        BY <2>2, <2>3, <2>8, HeadIsOldest
      <3>3. sequence[Head(buckets[p][k])] \in Nat /\ Head(buckets[p][k]) \in Queued
        BY <2>2, <3>2, WaitingMember, OwnBucket DEF QueuesInv, Numbered
      <3>4. t \in Queued /\ u \in Queued
        BY <1>1, <1>2, <2>2 DEF QueuesInv, Numbered
      <3>5. sequence[t] # sequence[u] BY <1>6, <3>4 DEF QueuesInv, Numbered
      <3>6. sequence[t] < sequence[u]
        <4> HIDE DEF t
        <4> QED BY <1>4, <2>2, <3>1, <3>2, <3>3, <3>5
      <3> QED BY <1>4, <2>8, <3>6 DEF Queue!MoreUrgent
    <2> QED BY <2>5, <2>6, <2>7, <2>8
  <1> QED BY <1>5, <1>6

LEMMA PopRefines == ASSUME QueuesInv, PopNextReady PROVE \E t \in Tasks : Queue!Pop(t)
  <1>0. PICK p \in Priorities : \E l \in ReadyLanes(p) :
           /\ \A q \in 0..p - 1 : ReadyLanes(q) = {}
           /\ \A k \in ReadyLanes(p) :
                sequence[Head(buckets[p][l])] <= sequence[Head(buckets[p][k])]
           /\ buckets' = [buckets EXCEPT ![p][l] = Tail(@)]
           /\ active' = [active EXCEPT ![l] = @ + 1]
           /\ UNCHANGED <<sequence, cancelled>>
    BY PopTakes
  <1>1. PICK l \in ReadyLanes(p) :
           /\ \A q \in 0..p - 1 : ReadyLanes(q) = {}
           /\ \A k \in ReadyLanes(p) :
                sequence[Head(buckets[p][l])] <= sequence[Head(buckets[p][k])]
           /\ buckets' = [buckets EXCEPT ![p][l] = Tail(@)]
           /\ active' = [active EXCEPT ![l] = @ + 1]
           /\ UNCHANGED <<sequence, cancelled>>
    BY <1>0
  <1> DEFINE t == Head(buckets[p][l])
  <1>2. /\ t \in Queue!Ready
        /\ \A u \in Queue!Ready \ {t} : Queue!MoreUrgent(t, u)
    BY <1>1, HeadPrecedes
  <1>3. l \in Lanes /\ buckets[p][l] # <<>> BY DEF ReadyLanes
  <1>4. t \in Waiting BY <1>2 DEF Queue!Ready
  <1>5. t \in InBucket(p, l) BY <1>3, HeadIsOldest
  <1>6. t \in Tasks /\ Priority[t] = p /\ Lane[t] = l BY <1>3, <1>4, <1>5, OwnBucket
  <1>7. ASSUME NEW q \in Priorities, NEW k \in Lanes
        PROVE  InBucket(q, k)' = InBucket(q, k) \ {t}
    <2>1. InBucket(q, k)' = IF q = p /\ k = l THEN InBucket(p, l) \ {t} ELSE InBucket(q, k)
      BY <1>1, PopBuckets
    <2>2. CASE q = p /\ k = l BY <2>1, <2>2
    <2>3. CASE ~(q = p /\ k = l)
      <3>1. t \notin InBucket(q, k) BY <1>4, <1>6, <2>3, OwnBucket
      <3> QED BY <2>1, <2>3, <3>1
    <2> QED BY <2>2, <2>3
  <1>8. ASSUME NEW u PROVE u \in Waiting' <=> u \in Waiting \ {t}
    <2>1. u \in Waiting' <=> \E q \in Priorities : \E k \in Lanes : u \in InBucket(q, k)'
      BY DEF Waiting
    <2> HIDE DEF t
    <2> QED BY <1>7, <2>1, WaitingMember
  <1>9. Waiting' = Waiting \ {t} BY <1>8
  <1>10. active' = [active EXCEPT ![Lane[t]] = @ + 1] BY <1>1, <1>6
  <1>11. UNCHANGED <<sequence, cancelled>> BY <1>1
  <1> HIDE DEF t
  <1>12. Queue!Pop(t) BY <1>2, <1>9, <1>10, <1>11 DEF Queue!Pop
  <1> QED BY <1>6, <1>12

LEMMA SweepRefines ==
  ASSUME QueuesInv, NEW S \in SUBSET Tasks, RemoveCancelled(S)
  PROVE  Queue!Cancel(S)
  <1>1. \A p \in Priorities, l \in Lanes : InBucket(p, l)' = InBucket(p, l) \ cancelled'
    BY SweepBuckets
  <1>2. ASSUME NEW u PROVE u \in Waiting' <=> u \in Waiting \ cancelled'
    <2>1. u \in Waiting' <=> \E p \in Priorities : \E l \in Lanes : u \in InBucket(p, l)'
      BY DEF Waiting
    <2> QED BY <1>1, <2>1, WaitingMember
  <1>3. Waiting' = Waiting \ cancelled' BY <1>2
  <1> QED BY <1>3 DEF RemoveCancelled, Queue!Cancel

LEMMA WaitingKept == ASSUME UNCHANGED buckets PROVE UNCHANGED Waiting
  BY DEF Waiting, InBucket

\* The buckets implement the set of waiting tasks: every pop takes the most urgent,
\* oldest task that has a slot, and no operation loses or duplicates a task.
THEOREM RefinesReadyQueue == Spec => ImplementsReadyQueue
  <1>1. QueuesInv /\ [Next]_vars => [Queue!Next]_(Queue!vars)
    <2> SUFFICES ASSUME QueuesInv, [Next]_vars PROVE [Queue!Next]_(Queue!vars) OBVIOUS
    <2>1. ASSUME NEW t \in Tasks, PushBack(t) PROVE Queue!Next
      BY <2>1, PushRefines DEF Queue!Next
    <2>2. ASSUME PopNextReady PROVE Queue!Next
      <3>1. PICK t \in Tasks : Queue!Pop(t) BY <2>2, PopRefines
      <3> QED BY <3>1 DEF Queue!Next
    <2>3. ASSUME NEW S \in (SUBSET Tasks) \ {{}}, RemoveCancelled(S) PROVE Queue!Next
      <3>1. Queue!Cancel(S) BY <2>3, SweepRefines
      <3> QED BY <3>1 DEF Queue!Next
    <2>4. ASSUME NEW l \in Lanes, FinishRunning(l) PROVE Queue!Next
      <3>1. UNCHANGED Waiting BY <2>4, WaitingKept DEF FinishRunning
      <3>2. Queue!Finish(l) BY <2>4, <3>1 DEF FinishRunning, Queue!Finish
      <3> QED BY <3>2 DEF Queue!Next
    <2>5. ASSUME UNCHANGED vars PROVE UNCHANGED Queue!vars
      BY <2>5, WaitingKept DEF vars, Queue!vars
    <2> QED BY <2>1, <2>2, <2>3, <2>4, <2>5 DEF Next
  <1> QED BY <1>1, InitRefines, QueuesInvariant, PTL DEF Spec, ImplementsReadyQueue, Queue!Spec
=============================================================================
