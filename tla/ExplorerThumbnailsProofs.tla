----------------------- MODULE ExplorerThumbnailsProofs -----------------------
(* Theorems about ExplorerThumbnails, for every folder, policy and bound.     *)
EXTENDS ExplorerThumbnails, InductionOnData

\* What was asked was asked once, and is resolved or still being read.
AskedIsKnown ==
    /\ asked \in [ArtifactKeys -> {0, 1}]
    /\ \A k \in ArtifactKeys : asked[k] = 1 => k \in resolved \cup Pending

\* Reading keys asks only for those nothing is known of.
LEMMA ReadArtifactsAsksOnce ==
    ASSUME NEW keys \in SUBSET ArtifactKeys, AskedIsKnown, ReadArtifacts(keys)
    PROVE  AskedIsKnown'
<1> DEFINE uncached == (keys \ resolved) \ Pending
<1>1. /\ reads' = IF uncached = {} THEN reads ELSE reads \cup {uncached}
      /\ resolved' = resolved
      /\ asked' = [k \in ArtifactKeys |->
                     IF k \in uncached /\ asked[k] < 2 THEN asked[k] + 1 ELSE asked[k]]
  BY DEF ReadArtifacts
<1>2. Pending' = Pending \cup uncached
  BY <1>1 DEF Pending
<1>3. \A k \in uncached : asked[k] = 0
  BY DEF AskedIsKnown
<1>4. asked' \in [ArtifactKeys -> {0, 1}]
  BY <1>1, <1>3 DEF AskedIsKnown
<1>5. ASSUME NEW k \in ArtifactKeys, asked'[k] = 1
      PROVE  k \in resolved' \cup Pending'
  <2>1. CASE k \in uncached
    BY <2>1, <1>2
  <2>2. CASE k \notin uncached
    BY <2>2, <1>1, <1>2, <1>5 DEF AskedIsKnown
  <2> QED BY <2>1, <2>2
<1> QED BY <1>4, <1>5 DEF AskedIsKnown

\* A read that settles moves its keys from the pending to the resolved.
LEMMA ReadSettlesKeepsKnown ==
    ASSUME NEW read \in reads, AskedIsKnown, ReadSettles(read)
    PROVE  AskedIsKnown'
<1>1. /\ resolved' = resolved \cup read
      /\ reads' = reads \ {read}
      /\ asked' = asked
  BY DEF ReadSettles
<1>2. Pending \subseteq Pending' \cup read
  BY <1>1 DEF Pending
<1> QED BY <1>1, <1>2 DEF AskedIsKnown

LEMMA AskedIsKnownInductive == AskedIsKnown /\ [Next]_vars => AskedIsKnown'
<1> SUFFICES ASSUME AskedIsKnown, [Next]_vars PROVE AskedIsKnown'
  OBVIOUS
<1> DEFINE Same == UNCHANGED <<resolved, reads, asked>>
<1>1. ASSUME Same PROVE AskedIsKnown'
  BY <1>1 DEF AskedIsKnown, Pending
<1>2. CASE RenderUrgent
  BY <1>1, <1>2 DEF RenderUrgent, artifactVars
<1>3. CASE RenderTransition
  BY <1>1, <1>3 DEF RenderTransition, artifactVars
<1>4. CASE RunEffect
  BY <1>1, <1>4 DEF RunEffect, artifactVars
<1>5. CASE TimerFires
  <2>1. \/ ReadArtifacts(armed \cap ArtifactKeys)
        \/ Same
    BY <1>5 DEF TimerFires, artifactVars
  <2> QED BY <2>1, <1>1, ReadArtifactsAsksOnce
<1>6. ASSUME NEW s \in 1 .. Slots, StartModels(s) PROVE AskedIsKnown'
  BY <1>1, <1>6 DEF StartModels, artifactVars
<1>7. ASSUME NEW s \in 1 .. Slots, Settle(s) PROVE AskedIsKnown'
  BY <1>1, <1>7 DEF Settle, artifactVars
<1>8. ASSUME NEW read \in reads, ReadSettles(read) PROVE AskedIsKnown'
  BY <1>8, ReadSettlesKeepsKnown
<1>9. ASSUME NEW k \in rendering, ModelRendered(k) \/ ModelFails(k) PROVE AskedIsKnown'
  BY <1>1, <1>9 DEF ModelRendered, ModelFails, artifactVars
<1>10. CASE Relayout
  BY <1>1, <1>10 DEF Relayout, artifactVars
<1>11. CASE RefreshStarts
  BY <1>1, <1>11 DEF RefreshStarts, artifactVars
<1>12. CASE RefreshEnds
  BY <1>1, <1>12 DEF RefreshEnds, artifactVars
<1>13. CASE UNCHANGED vars
  BY <1>1, <1>13 DEF vars
<1> QED
  BY <1>2, <1>3, <1>4, <1>5, <1>6, <1>7, <1>8, <1>9, <1>10, <1>11, <1>12, <1>13 DEF Next

\* However batches, their cancellations, scrolling and refreshes interleave, the
\* native side is asked at most once for the artifact of an entry at a revision.
THEOREM ReadOnceCorrect == Spec => []ReadOnce
<1>1. Init => AskedIsKnown
  BY DEF Init, AskedIsKnown
<1>2. AskedIsKnown => ReadOnce
  BY DEF AskedIsKnown, ReadOnce
<1> QED BY <1>1, <1>2, AskedIsKnownInductive, PTL DEF Spec

-----------------------------------------------------------------------------
\* What the rendered state and the state below the queue are.
States == [rev: [Paths -> Revisions], map: [Paths -> Revisions \cup {Unset}],
           loading: SUBSET Paths, view: Paths, busy: BOOLEAN]
Relists == [rev: [Paths -> Revisions], map: [Paths -> Revisions \cup {Unset}],
            loading: SUBSET Paths]

UpdatesOf(kinds, vals) == [kind: kinds, val: vals, urgent: BOOLEAN, seen: BOOLEAN]
Updates == UNION {UpdatesOf({"busy"}, BOOLEAN), UpdatesOf({"view"}, Paths),
                  UpdatesOf({"mark", "unmark"}, SUBSET Paths),
                  UpdatesOf({"commit"}, SUBSET Keys), UpdatesOf({"relist"}, Relists)}

\* TypeOK with the types of what it leaves open: the queued updates, the
\* batches and the state a relisting has kept.
ShapeInv ==
    /\ disk \in [Paths -> Revisions] /\ due \in BOOLEAN
    /\ ui \in States /\ base \in States
    /\ queue \in Seq(Updates)
    /\ armed \in SUBSET Keys /\ Cardinality(armed) <= BatchSize
    /\ due \/ PathsOf(armed) \cap ui.loading = {}
    /\ batch \in [1 .. Slots -> [stage: {"free", "artifacts", "models"}, keys: SUBSET Keys,
                                 waits: SUBSET Keys, live: BOOLEAN]]
    /\ \A s \in 1 .. Slots : batch[s].waits \subseteq batch[s].keys
    /\ resolved \in SUBSET ArtifactKeys /\ reads \in SUBSET (SUBSET ArtifactKeys)
    /\ rendered \in SUBSET ModelKeys /\ rendering \in SUBSET ModelKeys
    /\ refresh.on => /\ refresh.rev \in [Paths -> Revisions]
                     /\ refresh.map \in [Paths -> Revisions \cup {Unset}]
                     /\ refresh.loading \in SUBSET Paths


\* An update the setters queue keeps a state a state.
LEMMA AppliedIsState ==
  ASSUME NEW state \in States, NEW u \in Updates
  PROVE  Apply(state, u) \in States
<1>1. CASE u \in UpdatesOf({"busy"}, BOOLEAN)
  BY <1>1 DEF Apply, States, UpdatesOf
<1>2. CASE u \in UpdatesOf({"view"}, Paths)
  BY <1>2 DEF Apply, States, UpdatesOf
<1>3. CASE u \in UpdatesOf({"mark", "unmark"}, SUBSET Paths)
  BY <1>3 DEF Apply, States, UpdatesOf
<1>4. CASE u \in UpdatesOf({"commit"}, SUBSET Keys)
  <2> DEFINE v == u.val
             written(p) == IF p \in PathsOf(v) THEN (CHOOSE k \in v : k[1] = p)[2]
                           ELSE state.map[p]
  <2>1. /\ u.kind = "commit" /\ v \subseteq Keys
        /\ Apply(state, u) = [state EXCEPT !.map = [p \in Paths |-> written(p)]]
    BY <1>4 DEF Apply, UpdatesOf
  <2>2. \A p \in Paths : written(p) \in Revisions \cup {Unset}
    <3> SUFFICES ASSUME NEW p \in Paths PROVE written(p) \in Revisions \cup {Unset}
      OBVIOUS
    <3>1. CASE p \in PathsOf(v)
      <4>1. \E k \in v : k[1] = p BY <3>1 DEF PathsOf
      <4>2. (CHOOSE k \in v : k[1] = p) \in v BY <4>1
      <4> QED BY <2>1, <3>1, <4>2 DEF Keys
    <3>2. CASE p \notin PathsOf(v) BY <3>2 DEF States
    <3> QED BY <3>1, <3>2
  <2> HIDE DEF written, v
  <2>3. [p \in Paths |-> written(p)] \in [Paths -> Revisions \cup {Unset}] BY <2>2
  <2> QED BY <2>1, <2>3 DEF States
<1>5. CASE u \in UpdatesOf({"relist"}, Relists)
  BY <1>5 DEF Apply, States, UpdatesOf, Relists
<1> QED BY <1>1, <1>2, <1>3, <1>4, <1>5 DEF Updates

LEMMA LargestOfPositions ==
  ASSUME NEW n \in Nat, NEW S \in SUBSET (1 .. n), S # {}
  PROVE  Max(S) \in S
<1>1. S \in SUBSET (0 .. n) OBVIOUS
<1>2. PICK p \in S : \A q \in S : q <= p BY <1>1, LargestNumber
<1>3. \A q \in S : p >= q BY <1>1, <1>2
<1> QED BY <1>3 DEF Max

\* So does replaying a queue of them, whichever of them are applied.
LEMMA ReplayedIsState ==
  ASSUME base \in States, NEW q \in Seq(Updates), NEW all \in BOOLEAN
  PROVE  Replay(q, all) \in States
<1> DEFINE step(state, u) == IF all \/ u.urgent THEN Apply(state, u) ELSE state
           T == DOMAIN q
           pick == [S \in SUBSET T |-> Max(S)]
           F == [x \in T \X States |-> step(x[2], q[x[1]])]
           Rec(g) == g = [S \in SUBSET T |->
                            IF S = {} THEN base ELSE step(g[S \ {Max(S)}], q[Max(S)])]
           h == CHOOSE g : Rec(g)
<1>1. Replay(q, all) = h[T] BY DEF Replay, FoldLeft, MapThenFoldSet
<1>2. T = 1 .. Len(q) /\ Len(q) \in Nat /\ IsFiniteSet(T) BY FS_Interval
<1>3. \A i \in T : q[i] \in Updates BY <1>2
<1>4. \A i \in T, state \in States : step(state, q[i]) \in States BY <1>3, AppliedIsState
<1>5. \A S \in SUBSET T : S # {} => pick[S] = Max(S) /\ pick[S] \in S
  BY <1>2, LargestOfPositions
<1>6. \A x \in T \X States : F[x] = step(x[2], q[x[1]]) OBVIOUS
<1>7. F \in [T \X States -> States] BY <1>4
<1> HIDE DEF F, pick, T, step
<1>8. PICK g \in [SUBSET T -> States] : Recurses(g, SUBSET T, base, pick, F)
  BY <1>2, <1>5, <1>7, RecursionOnSubsets
<1>9. ASSUME NEW S \in SUBSET T
      PROVE  g[S] = IF S = {} THEN base ELSE step(g[S \ {Max(S)}], q[Max(S)])
  <2>1. g[S] = IF S = {} THEN base ELSE F[<<pick[S], g[S \ {pick[S]}]>>]
    BY <1>8 DEF Recurses
  <2>2. CASE S # {}
    <3> DEFINE x == <<Max(S), g[S \ {Max(S)}]>>
    <3>1. pick[S] = Max(S) /\ Max(S) \in T /\ g[S \ {Max(S)}] \in States
      BY <1>5, <1>8, <2>2
    <3>2. F[x] = step(x[2], q[x[1]]) BY <1>6, <3>1
    <3> QED BY <2>1, <2>2, <3>1, <3>2
  <2> QED BY <2>1, <2>2
<1>10. g = [S \in SUBSET T |-> IF S = {} THEN base ELSE step(g[S \ {Max(S)}], q[Max(S)])]
  BY <1>8, <1>9
<1>11. Rec(h) BY <1>10
<1> HIDE DEF h
<1>12. /\ h[{}] = base
       /\ \A S \in SUBSET T : S # {} => h[S] = step(h[S \ {Max(S)}], q[Max(S)])
  BY <1>11
<1>13. ASSUME NEW S \in SUBSET T, S # {}, h[S \ {pick[S]}] \in States
       PROVE  h[S] \in States
  <2>1. pick[S] = Max(S) /\ Max(S) \in T BY <1>5, <1>13
  <2>2. step(h[S \ {Max(S)}], q[Max(S)]) \in States BY <1>4, <1>13, <2>1
  <2> QED BY <1>12, <1>13, <2>2
<1>14. \A S \in SUBSET T : h[S] \in States
  BY <1>2, <1>5, <1>12, <1>13, InductionOnSubsets
<1> QED BY <1>1, <1>14

\* The lane orders entries of the folder.
LEMMA LaneOfEntries ==
  ASSUME NEW view \in Paths
  PROVE  \E n \in Nat : LaneOrder(view) \in [1 .. n -> Paths]
<1> DEFINE last == view + ViewportSize - 1 + ForwardSpan
           ahead == (IF last < Entries THEN last ELSE Entries) - view + 1
           behind == IF view - 1 < BackwardSpan THEN view - 1 ELSE BackwardSpan
           first == [i \in 1 .. ahead |-> view + i - 1]
           second == [i \in 1 .. behind |-> view - i]
<1>1. /\ view \in Nat \ {0} /\ view <= Entries
      /\ Entries \in Nat /\ ViewportSize \in Nat \ {0}
      /\ ForwardSpan \in Nat /\ BackwardSpan \in Nat
  BY ThumbnailAssumption DEF Paths
<1>2. ahead \in Nat /\ behind \in Nat /\ behind <= view - 1 /\ ahead + view - 1 <= Entries
  BY <1>1
<1>3. LaneOrder(view) = first \o second BY DEF LaneOrder
<1> HIDE DEF ahead, behind
<1>4. \A i \in 1 .. ahead : view + i - 1 \in Paths BY <1>1, <1>2 DEF Paths
<1>5. \A i \in 1 .. behind : view - i \in Paths BY <1>1, <1>2 DEF Paths
<1>6. first \in [1 .. ahead -> Paths] /\ second \in [1 .. behind -> Paths] BY <1>4, <1>5
<1>7. first \in Seq(Paths) /\ second \in Seq(Paths) BY <1>2, <1>6
<1> HIDE DEF first, second
<1>8. first \o second \in Seq(Paths) BY <1>7
<1>9. LaneOrder(view) \in Seq(Paths) BY <1>3, <1>8
<1> HIDE DEF Paths
<1>10. PICK s \in Seq(Paths) : s = LaneOrder(view) BY <1>9
<1>11. Len(s) \in Nat /\ s \in [1 .. Len(s) -> Paths] OBVIOUS
<1> QED BY <1>10, <1>11

\* Of a set of positions, those with fewer than n before them are at most n.
LEMMA FirstOnes ==
  ASSUME NEW k \in Nat, NEW C \in SUBSET (1 .. k), NEW n \in Nat
  PROVE  LET chosen == {i \in C : Cardinality({j \in C : j < i}) < n}
         IN  IsFiniteSet(chosen) /\ Cardinality(chosen) <= n
<1> DEFINE before(i) == {j \in C : j < i}
           chosen == {i \in C : Cardinality(before(i)) < n}
<1>1. IsFiniteSet(C)
  <2>1. IsFiniteSet(1 .. k) BY FS_Interval
  <2> QED BY <2>1, FS_Subset
<1>2. IsFiniteSet(chosen)
  <2>1. chosen \subseteq C OBVIOUS
  <2> QED BY <1>1, <2>1, FS_Subset
<1>3. CASE chosen # {}
  <2>1. chosen \in SUBSET (0 .. k)
    <3>1. \A i \in chosen : i \in 0 .. k OBVIOUS
    <3> HIDE DEF chosen
    <3> QED BY <3>1
  <2>2. PICK p \in chosen : \A q \in chosen : q <= p BY <1>3, <2>1, LargestNumber
  <2>3. p \in C /\ Cardinality(before(p)) < n BY <2>2
  <2>4. chosen \ {p} \subseteq before(p)
    <3>1. \A q \in chosen \ {p} : q \in C /\ q < p
      <4> SUFFICES ASSUME NEW q \in chosen \ {p} PROVE q \in C /\ q < p OBVIOUS
      <4>1. q \in C /\ q \in 1 .. k /\ p \in 1 .. k /\ q <= p /\ q # p BY <2>2, <2>3
      <4> QED BY <4>1
    <3> QED BY <3>1
  <2>5. IsFiniteSet(before(p))
    <3>1. before(p) \subseteq C OBVIOUS
    <3> QED BY <1>1, <3>1, FS_Subset
  <2> HIDE DEF chosen, before
  <2>6. /\ Cardinality(chosen \ {p}) <= Cardinality(before(p))
        /\ Cardinality(chosen \ {p}) = Cardinality(chosen) - 1
        /\ Cardinality(chosen) \in Nat /\ Cardinality(before(p)) \in Nat
    BY <1>2, <2>2, <2>4, <2>5, FS_Subset, FS_RemoveElement, FS_CardinalityType
  <2>7. \A a, b \in Nat : a - 1 <= b /\ b < n => a <= n OBVIOUS
  <2>8. Cardinality(chosen) - 1 <= Cardinality(before(p)) BY <2>6
  <2>9. Cardinality(chosen) <= n BY <2>3, <2>6, <2>7, <2>8
  <2> QED BY <1>2, <2>9 DEF chosen, before
<1> HIDE DEF chosen
<1>4. IsFiniteSet(chosen) /\ Cardinality(chosen) <= n
  <2>1. chosen = {} => Cardinality(chosen) = 0 BY FS_EmptySet
  <2>2. chosen # {} => Cardinality(chosen) <= n BY <1>3 DEF chosen
  <2> QED BY <1>2, <2>1, <2>2
<1> QED BY <1>4 DEF chosen

\* A batch is within its size, and of entries that are not being loaded.
LEMMA ScheduledFits ==
  ASSUME ui \in States
  PROVE  /\ Scheduled \in SUBSET Keys /\ Cardinality(Scheduled) <= BatchSize
         /\ PathsOf(Scheduled) \cap ui.loading = {}
<1> DEFINE order == LaneOrder(ui.view)
           candidates == {i \in DOMAIN order : ShouldSchedule(order[i])}
           chosen == {i \in candidates : Cardinality({j \in candidates : j < i}) < BatchSize}
           key(i) == <<order[i], ui.rev[order[i]]>>
<1>1. Scheduled = {key(i) : i \in chosen} BY DEF Scheduled
<1>2. ui.view \in Paths /\ ui.rev \in [Paths -> Revisions] BY DEF States
<1>3. PICK n \in Nat : order \in [1 .. n -> Paths] BY <1>2, LaneOfEntries
<1>4. candidates \in SUBSET (1 .. n) BY <1>3
<1>5. BatchSize \in Nat BY ThumbnailAssumption
<1>6. \A i \in chosen : order[i] \in Paths /\ order[i] \notin ui.loading
  BY <1>3 DEF ShouldSchedule
<1> HIDE DEF candidates, order
<1>7. IsFiniteSet(chosen) /\ Cardinality(chosen) <= BatchSize BY <1>4, <1>5, FirstOnes
<1> HIDE DEF chosen
<1>8. Scheduled \subseteq Keys
  <2>1. \A i \in chosen : key(i) \in Keys BY <1>2, <1>6 DEF Keys
  <2> QED BY <1>1, <2>1
<1>9. PathsOf(Scheduled) \cap ui.loading = {}
  <2>1. \A i \in chosen : key(i)[1] \notin ui.loading BY <1>6
  <2> QED BY <1>1, <2>1 DEF PathsOf
<1>10. Cardinality(Scheduled) <= BatchSize
  <2> DEFINE image == {key(i) : i \in chosen}
             f == [i \in chosen |-> key(i)]
  <2>1. f \in [chosen -> image] OBVIOUS
  <2>2. \A y \in image : \E i \in chosen : f[i] = y OBVIOUS
  <2>3. f \in Surjection(chosen, image)
    <3> HIDE DEF f, image
    <3> QED BY <2>1, <2>2 DEF Surjection
  <2> HIDE DEF f, image
  <2>4. IsFiniteSet(image) /\ Cardinality(image) <= Cardinality(chosen)
    BY <1>7, <2>3, FS_Surjection
  <2>5. Cardinality(image) \in Nat /\ Cardinality(chosen) \in Nat
    BY <1>7, <2>4, FS_CardinalityType
  <2>6. Scheduled = image BY <1>1 DEF image
  <2> QED BY <1>5, <1>7, <2>4, <2>5, <2>6
<1> QED BY <1>8, <1>9, <1>10

-----------------------------------------------------------------------------
(* Every step keeps the shapes.                                               *)

\* What a setter queues is an update.
LEMMA QueuedUpdates ==
  ASSUME ShapeInv
  PROVE  /\ \A b \in BOOLEAN : Urgent("busy", b) \in Updates
         /\ \A v \in Paths : Urgent("view", v) \in Updates
         /\ \A P \in SUBSET Paths : Urgent("mark", P) \in Updates /\ Urgent("unmark", P) \in Updates
         /\ \A K \in SUBSET Keys : Transition("commit", K) \in Updates
         /\ \A r \in Relists : Transition("relist", r) \in Updates
<1>1. \A kind, val : /\ Urgent(kind, val) = [kind |-> kind, val |-> val, urgent |-> TRUE, seen |-> FALSE]
                     /\ Transition(kind, val) =
                          [kind |-> kind, val |-> val, urgent |-> FALSE, seen |-> FALSE]
  BY DEF Urgent, Transition
<1>2. \A b \in BOOLEAN : Urgent("busy", b) \in UpdatesOf({"busy"}, BOOLEAN)
  BY <1>1 DEF UpdatesOf
<1>3. \A v \in Paths : Urgent("view", v) \in UpdatesOf({"view"}, Paths)
  BY <1>1 DEF UpdatesOf
<1>4. \A P \in SUBSET Paths : /\ Urgent("mark", P) \in UpdatesOf({"mark", "unmark"}, SUBSET Paths)
                              /\ Urgent("unmark", P) \in UpdatesOf({"mark", "unmark"}, SUBSET Paths)
  BY <1>1 DEF UpdatesOf
<1>5. \A K \in SUBSET Keys : Transition("commit", K) \in UpdatesOf({"commit"}, SUBSET Keys)
  BY <1>1 DEF UpdatesOf
<1>6. \A r \in Relists : Transition("relist", r) \in UpdatesOf({"relist"}, Relists)
  BY <1>1 DEF UpdatesOf
<1> QED BY <1>2, <1>3, <1>4, <1>5, <1>6 DEF Updates

LEMMA QueueGrows ==
  \A q \in Seq(Updates), u, v \in Updates :
    Append(q, u) \in Seq(Updates) /\ q \o <<u, v>> \in Seq(Updates)
<1>1. \A q, r \in Seq(Updates) : q \o r \in Seq(Updates) OBVIOUS
<1>2. \A u, v \in Updates : <<u, v>> \in Seq(Updates) OBVIOUS
<1> QED BY <1>1, <1>2

LEMMA PathsOfKeys == \A K \in SUBSET Keys : PathsOf(K) \in SUBSET Paths
  BY DEF PathsOf, Keys

LEMMA KeysSplit == ArtifactKeys \in SUBSET Keys /\ ModelKeys \in SUBSET Keys
  BY DEF ArtifactKeys, ModelKeys

\* A render takes updates from the front of the queue and marks others as seen.
LEMMA RenderUrgentShape == ASSUME ShapeInv, RenderUrgent PROVE ShapeInv'
<1> DEFINE skipped == {i \in DOMAIN queue : ~queue[i].urgent}
           done == IF skipped = {} THEN Len(queue) ELSE Min(skipped) - 1
           mark(u) == [u EXCEPT !.seen = @ \/ u.urgent]
<1>1. queue \in Seq(Updates) /\ base \in States /\ ui \in States BY DEF ShapeInv
<1>2. Len(queue) \in Nat /\ DOMAIN queue = 1 .. Len(queue)
      /\ \A i \in 1 .. Len(queue) : queue[i] \in Updates
  BY <1>1
<1>3. done \in 0 .. Len(queue)
  <2>1. CASE skipped = {} BY <1>2, <2>1
  <2>2. CASE skipped # {}
    <3>1. skipped \subseteq Nat BY <1>2
    <3>2. PICK p \in skipped : \A q \in skipped : p <= q BY <2>2, <3>1, SmallestNumber
    <3>3. Min(skipped) \in skipped BY <3>2 DEF Min
    <3>4. Min(skipped) \in 1 .. Len(queue) BY <1>2, <3>3
    <3> QED BY <1>2, <2>2, <3>4
  <2> QED BY <2>1, <2>2
<1>4. \A u \in Updates : mark(u) \in Updates
  <2>1. \A K, V : \A u \in UpdatesOf(K, V) : mark(u) \in UpdatesOf(K, V)
    BY DEF UpdatesOf
  <2> QED BY <2>1 DEF Updates
<1>5. /\ ui' = Replay(queue, FALSE)
      /\ base' = Replay(SubSeq(queue, 1, done), TRUE)
      /\ queue' = [i \in 1 .. (Len(queue) - done) |-> mark(queue[done + i])]
      /\ due' = (ui' # ui \/ \E i \in {i \in DOMAIN queue : queue[i].urgent /\ ~queue[i].seen} :
                               Fresh(queue[i]))
      /\ UNCHANGED <<disk, armed, batch, artifactVars, modelVars, refresh, budget>>
  BY DEF RenderUrgent
<1> HIDE DEF skipped, done, mark
<1>6. queue' \in Seq(Updates)
  <2>1. Len(queue) - done \in Nat BY <1>2, <1>3
  <2>2. \A i \in 1 .. (Len(queue) - done) : mark(queue[done + i]) \in Updates
    <3> SUFFICES ASSUME NEW i \in 1 .. (Len(queue) - done) PROVE mark(queue[done + i]) \in Updates
      OBVIOUS
    <3>1. done + i \in 1 .. Len(queue) BY <1>2, <1>3
    <3> QED BY <1>2, <1>4, <3>1
  <2> QED BY <1>5, <2>1, <2>2
<1>7. ui' \in States BY <1>1, <1>5, ReplayedIsState
<1>8. base' \in States
  <2>1. SubSeq(queue, 1, done) \in Seq(Updates) BY <1>1, <1>2, <1>3
  <2> QED BY <1>1, <1>5, <2>1, ReplayedIsState
<1>9. due' \in BOOLEAN BY <1>5
<1>10. due' \/ PathsOf(armed') \cap ui'.loading = {}
  <2>1. ~due /\ armed' = armed BY <1>5 DEF RenderUrgent
  <2> QED BY <1>5, <2>1 DEF ShapeInv
<1> QED BY <1>5, <1>6, <1>7, <1>8, <1>9, <1>10 DEF ShapeInv, artifactVars, modelVars

LEMMA RenderTransitionShape == ASSUME ShapeInv, RenderTransition PROVE ShapeInv'
<1>1. queue \in Seq(Updates) /\ base \in States BY DEF ShapeInv
<1>2. /\ ui' = Replay(queue, TRUE) /\ base' = Replay(queue, TRUE) /\ queue' = <<>> /\ due' = TRUE
      /\ UNCHANGED <<disk, armed, batch, artifactVars, modelVars, refresh, budget>>
  BY DEF RenderTransition
<1>3. Replay(queue, TRUE) \in States BY <1>1, ReplayedIsState
<1>4. queue' \in Seq(Updates) BY <1>2
<1> QED BY <1>2, <1>3, <1>4 DEF ShapeInv, artifactVars, modelVars

LEMMA RunEffectShape == ASSUME ShapeInv, RunEffect PROVE ShapeInv'
<1>1. /\ due' = FALSE
      /\ batch' = [s \in 1 .. Slots |-> [batch[s] EXCEPT !.live = FALSE]]
      /\ armed' = IF ui.busy THEN {} ELSE Scheduled
      /\ UNCHANGED <<disk, ui, base, queue, artifactVars, modelVars, refresh, budget>>
  BY DEF RunEffect
<1>2. ui \in States BY DEF ShapeInv
<1>3. /\ armed' \in SUBSET Keys /\ Cardinality(armed') <= BatchSize
      /\ PathsOf(armed') \cap ui.loading = {}
  <2>1. Cardinality({}) = 0 /\ BatchSize \in Nat BY FS_EmptySet, ThumbnailAssumption
  <2>2. PathsOf({}) = {} BY DEF PathsOf
  <2> QED BY <1>1, <1>2, <2>1, <2>2, ScheduledFits
<1>4. /\ batch' \in [1 .. Slots -> [stage: {"free", "artifacts", "models"}, keys: SUBSET Keys,
                                    waits: SUBSET Keys, live: BOOLEAN]]
      /\ \A s \in 1 .. Slots : batch'[s].waits \subseteq batch'[s].keys
  BY <1>1, ZenonT(60) DEF ShapeInv
<1> QED BY <1>1, <1>3, <1>4 DEF ShapeInv, artifactVars, modelVars

\* Reading a batch's artifacts or models keeps the caches and reads typed.
LEMMA ReadsTyped ==
  ASSUME ShapeInv, NEW K
  PROVE  /\ K \in SUBSET ArtifactKeys /\ ReadArtifacts(K) =>
              resolved' \in SUBSET ArtifactKeys /\ reads' \in SUBSET (SUBSET ArtifactKeys)
         /\ K \in SUBSET ModelKeys /\ ReadModels(K) =>
              rendered' \in SUBSET ModelKeys /\ rendering' \in SUBSET ModelKeys
<1>1. ASSUME K \in SUBSET ArtifactKeys, ReadArtifacts(K)
      PROVE  resolved' \in SUBSET ArtifactKeys /\ reads' \in SUBSET (SUBSET ArtifactKeys)
  <2> DEFINE uncached == (K \ resolved) \ Pending
  <2>1. reads' = (IF uncached = {} THEN reads ELSE reads \cup {uncached}) /\ resolved' = resolved
    BY <1>1 DEF ReadArtifacts
  <2>2. uncached \in SUBSET ArtifactKeys BY <1>1
  <2> QED BY <2>1, <2>2 DEF ShapeInv
<1>2. ASSUME K \in SUBSET ModelKeys, ReadModels(K)
      PROVE  rendered' \in SUBSET ModelKeys /\ rendering' \in SUBSET ModelKeys
  BY <1>2 DEF ReadModels, ShapeInv
<1> QED BY <1>1, <1>2

Batches == [stage: {"free", "artifacts", "models"}, keys: SUBSET Keys,
            waits: SUBSET Keys, live: BOOLEAN]

\* A slot that takes a well-formed batch keeps the table of batches well formed.
LEMMA BatchStored ==
  ASSUME ShapeInv, NEW s \in 1 .. Slots, NEW b \in Batches, b.waits \subseteq b.keys,
         batch' = [batch EXCEPT ![s] = b]
  PROVE  /\ batch' \in [1 .. Slots -> Batches]
         /\ \A t \in 1 .. Slots : batch'[t].waits \subseteq batch'[t].keys
<1>1. batch \in [1 .. Slots -> Batches] /\ \A t \in 1 .. Slots : batch[t].waits \subseteq batch[t].keys
  BY DEF ShapeInv, Batches
<1>2. batch' \in [1 .. Slots -> Batches] BY <1>1
<1>3. \A t \in 1 .. Slots : batch'[t] = IF t = s THEN b ELSE batch[t] BY <1>1
<1> QED BY <1>1, <1>2, <1>3

LEMMA TimerFiresShape == ASSUME ShapeInv, TimerFires PROVE ShapeInv'
<1> DEFINE artifacts == armed \cap ArtifactKeys
           models == armed \cap ModelKeys
           readBatch == [stage |-> "artifacts", keys |-> armed,
                         waits |-> artifacts \ resolved, live |-> TRUE]
           modelBatch == [stage |-> "models", keys |-> armed,
                          waits |-> models \ rendered, live |-> TRUE]
<1>1. PICK s \in 1 .. Slots :
        /\ queue' = Append(queue, Urgent("mark", PathsOf(armed)))
        /\ IF artifacts # {}
           THEN /\ ReadArtifacts(artifacts)
                /\ batch' = [batch EXCEPT ![s] = readBatch]
                /\ UNCHANGED modelVars
           ELSE /\ ReadModels(models)
                /\ batch' = [batch EXCEPT ![s] = modelBatch]
                /\ UNCHANGED artifactVars
        /\ armed' = {}
        /\ UNCHANGED <<disk, ui, base, due, refresh, budget>>
  BY DEF TimerFires
<1>2. armed \in SUBSET Keys /\ artifacts \in SUBSET ArtifactKeys /\ models \in SUBSET ModelKeys
  BY DEF ShapeInv
<1>3. readBatch \in Batches /\ readBatch.waits \subseteq readBatch.keys
  BY <1>2 DEF Batches
<1>4. modelBatch \in Batches /\ modelBatch.waits \subseteq modelBatch.keys
  BY <1>2 DEF Batches
<1> HIDE DEF readBatch, modelBatch, artifacts, models
<1>5. /\ resolved' \in SUBSET ArtifactKeys /\ reads' \in SUBSET (SUBSET ArtifactKeys)
      /\ rendered' \in SUBSET ModelKeys /\ rendering' \in SUBSET ModelKeys
  <2>1. CASE artifacts # {}
    <3>1. ReadArtifacts(artifacts) /\ UNCHANGED modelVars BY <1>1, <2>1
    <3> QED BY <1>2, <3>1, ReadsTyped DEF ShapeInv, modelVars
  <2>2. CASE artifacts = {}
    <3>1. ReadModels(models) /\ UNCHANGED artifactVars BY <1>1, <2>2
    <3> QED BY <1>2, <3>1, ReadsTyped DEF ShapeInv, artifactVars
  <2> QED BY <2>1, <2>2
<1>6. /\ batch' \in [1 .. Slots -> Batches]
      /\ \A t \in 1 .. Slots : batch'[t].waits \subseteq batch'[t].keys
  <2>1. CASE artifacts # {} BY <1>1, <1>3, <2>1, BatchStored
  <2>2. CASE artifacts = {} BY <1>1, <1>4, <2>2, BatchStored
  <2> QED BY <2>1, <2>2
<1>7. queue' \in Seq(Updates)
  <2>1. Urgent("mark", PathsOf(armed)) \in Updates BY <1>2, PathsOfKeys, QueuedUpdates
  <2> QED BY <1>1, <2>1 DEF ShapeInv
<1>8. armed' \in SUBSET Keys /\ Cardinality(armed') <= BatchSize /\ PathsOf(armed') = {}
  <2>1. Cardinality({}) = 0 /\ BatchSize \in Nat BY FS_EmptySet, ThumbnailAssumption
  <2> QED BY <1>1, <2>1 DEF PathsOf
<1> QED BY <1>1, <1>5, <1>6, <1>7, <1>8 DEF ShapeInv, Batches

LEMMA StartModelsShape ==
  ASSUME ShapeInv, NEW s \in 1 .. Slots, StartModels(s) PROVE ShapeInv'
<1> DEFINE models == batch[s].keys \cap ModelKeys
           b == [batch[s] EXCEPT !.stage = "models", !.waits = models \ rendered]
<1>1. /\ ReadModels(models)
      /\ batch' = [batch EXCEPT ![s].stage = "models", ![s].waits = models \ rendered]
      /\ UNCHANGED <<disk, reactVars, queue, armed, artifactVars, refresh, budget>>
  BY DEF StartModels
<1>2. batch \in [1 .. Slots -> Batches] BY DEF ShapeInv, Batches
<1>3. batch' = [batch EXCEPT ![s] = b] BY <1>1, <1>2
<1>4. b \in Batches /\ b.waits \subseteq b.keys BY <1>2, KeysSplit DEF Batches
<1>5. models \in SUBSET ModelKeys OBVIOUS
<1> HIDE DEF b, models
<1>6. rendered' \in SUBSET ModelKeys /\ rendering' \in SUBSET ModelKeys
  BY <1>1, <1>5, ReadsTyped
<1>7. /\ batch' \in [1 .. Slots -> Batches]
      /\ \A t \in 1 .. Slots : batch'[t].waits \subseteq batch'[t].keys
  BY <1>3, <1>4, BatchStored
<1> QED BY <1>1, <1>6, <1>7 DEF ShapeInv, Batches, reactVars, artifactVars

LEMMA SettleShape == ASSUME ShapeInv, NEW s \in 1 .. Slots, Settle(s) PROVE ShapeInv'
<1>1. /\ queue' = queue \o SettleUpdates(batch[s])
      /\ batch' = [batch EXCEPT ![s] = NoBatch]
      /\ UNCHANGED <<disk, reactVars, armed, artifactVars, modelVars, refresh, budget>>
  BY DEF Settle
<1>2. NoBatch \in Batches /\ NoBatch.waits \subseteq NoBatch.keys BY DEF NoBatch, Batches
<1>3. /\ batch' \in [1 .. Slots -> Batches]
      /\ \A t \in 1 .. Slots : batch'[t].waits \subseteq batch'[t].keys
  BY <1>1, <1>2, BatchStored
<1>4. batch[s].keys \in SUBSET Keys BY DEF ShapeInv
<1>5. SettleUpdates(batch[s]) \in Seq(Updates)
  <2> DEFINE b == batch[s]
             commit == IF b.live THEN <<Transition("commit", b.keys)>> ELSE <<>>
             unmark == <<Urgent("unmark", PathsOf(b.keys))>>
  <2>1. SettleUpdates(b) = commit \o unmark BY DEF SettleUpdates
  <2>2. Transition("commit", b.keys) \in Updates /\ Urgent("unmark", PathsOf(b.keys)) \in Updates
    BY <1>4, PathsOfKeys, QueuedUpdates
  <2>3. commit \in Seq(Updates) /\ unmark \in Seq(Updates) BY <2>2
  <2> HIDE DEF commit, unmark
  <2> QED BY <2>1, <2>3
<1>6. queue' \in Seq(Updates) BY <1>1, <1>5 DEF ShapeInv
<1> QED BY <1>1, <1>3, <1>6 DEF ShapeInv, Batches, reactVars, artifactVars, modelVars

LEMMA RepliesShape ==
  ASSUME ShapeInv,
         \/ \E read \in reads : ReadSettles(read)
         \/ \E k \in rendering : ModelRendered(k) \/ ModelFails(k)
  PROVE  ShapeInv'
<1>1. ASSUME NEW read \in reads, ReadSettles(read) PROVE ShapeInv'
  <2>1. /\ resolved' = resolved \cup read /\ reads' = reads \ {read}
        /\ UNCHANGED <<disk, reactVars, queue, armed, batch, asked, modelVars, refresh, budget>>
    BY <1>1 DEF ReadSettles
  <2>2. read \in SUBSET ArtifactKeys BY DEF ShapeInv
  <2> QED BY <2>1, <2>2 DEF ShapeInv, reactVars, modelVars
<1>2. ASSUME NEW k \in rendering, ModelRendered(k) PROVE ShapeInv'
  BY <1>2 DEF ModelRendered, ShapeInv, reactVars, artifactVars
<1>3. ASSUME NEW k \in rendering, ModelFails(k) PROVE ShapeInv'
  BY <1>3 DEF ModelFails, ShapeInv, reactVars, artifactVars
<1> QED BY <1>1, <1>2, <1>3

LEMMA RelayoutShape == ASSUME ShapeInv, Relayout PROVE ShapeInv'
<1>1. PICK view \in 1 .. (Entries - ViewportSize + 1) :
        /\ queue' = Append(queue, Urgent("view", view))
        /\ UNCHANGED <<disk, reactVars, armed, batch, artifactVars, modelVars, refresh>>
  BY DEF Relayout
<1>2. view \in Paths BY ThumbnailAssumption DEF Paths
<1>3. queue' \in Seq(Updates) BY <1>1, <1>2, QueuedUpdates DEF ShapeInv
<1> QED BY <1>1, <1>3 DEF ShapeInv, reactVars, artifactVars, modelVars

LEMMA RefreshStartsShape == ASSUME ShapeInv, RefreshStarts PROVE ShapeInv'
<1>1. /\ refresh' = [on |-> TRUE, rev |-> ui.rev, map |-> ui.map, loading |-> ui.loading]
      /\ rendered' = {}
      /\ queue' = Append(queue, Urgent("busy", TRUE))
      /\ UNCHANGED <<disk, reactVars, armed, batch, artifactVars, rendering>>
  BY DEF RefreshStarts
<1>2. queue' \in Seq(Updates)
  <2>1. Urgent("busy", TRUE) \in Updates BY QueuedUpdates
  <2>2. queue \in Seq(Updates) BY DEF ShapeInv
  <2> QED BY <1>1, <2>1, <2>2, QueueGrows, Zenon
<1>3. ui \in States BY DEF ShapeInv
<1>4. /\ refresh'.rev \in [Paths -> Revisions]
      /\ refresh'.map \in [Paths -> Revisions \cup {Unset}]
      /\ refresh'.loading \in SUBSET Paths
  BY <1>1, <1>3 DEF States
<1> QED BY <1>1, <1>2, <1>4 DEF ShapeInv, reactVars, artifactVars

LEMMA RefreshEndsShape == ASSUME ShapeInv, RefreshEnds PROVE ShapeInv'
<1>1. /\ refresh.on /\ refresh' = NoRefresh
      /\ UNCHANGED <<reactVars, armed, batch, artifactVars, modelVars, budget>>
  BY DEF RefreshEnds
<1>2. ~refresh'.on BY <1>1 DEF NoRefresh
<1>3. queue \in Seq(Updates) /\ Urgent("busy", FALSE) \in Updates
  <2>1. Urgent("busy", FALSE) \in Updates BY QueuedUpdates
  <2> QED BY <2>1 DEF ShapeInv
<1>4. ASSUME NEW rev \in [Paths -> Revisions], disk' = rev,
             queue' = queue \o <<Transition("relist", Reconciled(rev)), Urgent("busy", FALSE)>>
      PROVE  ShapeInv'
  <2>1. Reconciled(rev) \in Relists
    <3> DEFINE same(p) == refresh.rev[p] = rev[p]
               entry(p) == IF same(p) /\ refresh.map[p] # Unset THEN refresh.map[p]
                           ELSE IF <<p, rev[p]>> \in resolved THEN rev[p] ELSE Unset
               marks == {p \in refresh.loading : same(p)}
               map == [p \in Paths |-> entry(p)]
    <3>1. Reconciled(rev) = [rev |-> rev, loading |-> marks, map |-> map] BY DEF Reconciled
    <3>2. marks \in SUBSET Paths BY <1>1 DEF ShapeInv
    <3>3. \A p \in Paths : entry(p) \in Revisions \cup {Unset} BY <1>1, <1>4 DEF ShapeInv
    <3> HIDE DEF entry, marks
    <3>4. map \in [Paths -> Revisions \cup {Unset}] BY <3>3
    <3> HIDE DEF map
    <3> QED BY <1>4, <3>1, <3>2, <3>4 DEF Relists
  <2>2. Transition("relist", Reconciled(rev)) \in Updates BY <2>1, QueuedUpdates
  <2>3. queue' \in Seq(Updates) BY <1>3, <1>4, <2>2, QueueGrows, Zenon
  <2> QED BY <1>1, <1>2, <1>4, <2>3 DEF ShapeInv, reactVars, artifactVars, modelVars
<1>5. ASSUME queue' = Append(queue, Urgent("busy", FALSE)), disk' = disk PROVE ShapeInv'
  <2>1. queue' \in Seq(Updates) BY <1>3, <1>5, QueueGrows, Zenon
  <2> QED BY <1>1, <1>2, <1>5, <2>1 DEF ShapeInv, reactVars, artifactVars, modelVars
<1> QED BY <1>4, <1>5 DEF RefreshEnds

LEMMA InitShape == Init => ShapeInv
<1> SUFFICES ASSUME Init PROVE ShapeInv OBVIOUS
<1>1. 0 \in Revisions /\ 1 \in Paths BY ThumbnailAssumption DEF Revisions, Paths
<1>2. ui \in States /\ base \in States /\ disk \in [Paths -> Revisions] BY <1>1 DEF Init, States
<1>3. queue \in Seq(Updates) BY DEF Init
<1>4. armed = {} /\ Cardinality(armed) <= BatchSize
  <2>1. Cardinality({}) = 0 /\ BatchSize \in Nat BY FS_EmptySet, ThumbnailAssumption
  <2> QED BY <2>1 DEF Init
<1> QED BY <1>2, <1>3, <1>4 DEF Init, ShapeInv, NoBatch, NoRefresh

LEMMA ShapeInvInductive == ShapeInv /\ [Next]_vars => ShapeInv'
<1>1. ShapeInv /\ Next => ShapeInv'
  BY RenderUrgentShape, RenderTransitionShape, RunEffectShape, TimerFiresShape,
     StartModelsShape, SettleShape, RepliesShape, RelayoutShape, RefreshStartsShape,
     RefreshEndsShape DEF Next
<1>2. ShapeInv /\ UNCHANGED vars => ShapeInv' BY DEF ShapeInv, vars
<1> QED BY <1>1, <1>2

\* Whatever the order of renders, effects, timers and replies, the state is well
\* formed, a batch is within the policy's size, and once the effect has run its
\* timer is set only for entries that are not being loaded.
THEOREM TypeCorrect == Spec => []TypeOK
<1>1. ShapeInv => TypeOK
  <2> SUFFICES ASSUME ShapeInv PROVE TypeOK OBVIOUS
  <2>1. \A state \in States : /\ state.rev \in [Paths -> Revisions]
                              /\ state.map \in [Paths -> Revisions \cup {Unset}]
                              /\ state.loading \subseteq Paths
                              /\ state.view \in Paths /\ state.busy \in BOOLEAN
    BY DEF States
  <2>2. Pending \subseteq ArtifactKeys BY DEF Pending, ShapeInv
  <2> QED BY <2>1, <2>2 DEF TypeOK, ShapeInv
<1> QED BY <1>1, InitShape, ShapeInvInductive, PTL DEF Spec
=============================================================================
