------------------------- MODULE ExplorerThumbnails -------------------------
(***************************************************************************)
(* How the Explorer fills the thumbnails of the entries in view: the       *)
(* effect of FileExplorer.tsx that schedules batches, the bounded lane     *)
(* that selects them, the read-through cache of image and video posters    *)
(* (explorerThumbnailArtifactRuntime.ts), the cache of rendered 3D models  *)
(* (modelThumbnailBackend.ts) and the refresh that relists the folder.     *)
(*                                                                         *)
(* The component state lives in React: setters only queue updates, a       *)
(* render applies them (urgent ones first, transitions replayed in order), *)
(* and the effect is cleaned up and run again after the commit.  Promise   *)
(* continuations run before the next timer, reply or render.               *)
(***************************************************************************)
EXTENDS Naturals, FiniteSets, Sequences, SequencesExt

CONSTANTS
    Entries,        \* number of entries of the folder, shown at 1 .. Entries
    Models,         \* the positions of 3D models; the others have artifacts
    ViewportSize,   \* entries in the virtual window
    ForwardSpan,    \* entries prefetched after the window
    BackwardSpan,   \* entries prefetched before the window
    BatchSize,      \* viewportScheduling.batchSize
    MaxRevision,    \* bound: content changes of an entry
    MaxDisturbances, \* bound: scrolls, other re-runs of the effect, failed renders
    MaxRefreshes,   \* bound: relistings of the folder
    Slots           \* bound: fired batches not settled yet

ASSUME ThumbnailAssumption ==
    /\ {Entries, ViewportSize, BatchSize, Slots} \subseteq Nat \ {0}
    /\ {ForwardSpan, BackwardSpan, MaxRevision, MaxDisturbances,
        MaxRefreshes} \subseteq Nat
    /\ ViewportSize <= Entries
    /\ Models \subseteq 1 .. Entries

Paths == 1 .. Entries
Revisions == 0 .. MaxRevision
Unset == MaxRevision + 1                  \* undefined in entryThumbnailMap
Keys == Paths \X Revisions                \* entityId and contentRevision
ArtifactKeys == {k \in Keys : k[1] \notin Models}
ModelKeys == Keys \ ArtifactKeys
PathsOf(keys) == {k[1] : k \in keys}

VARIABLES
    disk,       \* content revision of each entry when it was last listed
    ui,         \* rendered state: rev, map, loading, view, busy
    base,       \* state the queued updates are applied to
    queue,      \* updates not rendered yet, oldest first
    due,        \* committed, the effect has not run again yet
    armed,      \* keys of the batch whose settle timer is set
    batch,      \* fired batches by slot
    resolved,   \* resolvedExplorerThumbnailCache
    reads,      \* native batch reads in flight (the pending map is their union)
    asked,      \* how often each artifact was asked of the native side
    rendered,   \* model thumbnails in the preview cache
    rendering,  \* pendingModelThumbnailRenders
    refresh,    \* the relisting in flight
    budget      \* disturbances and refreshes left

vars == <<disk, ui, base, queue, due, armed, batch, resolved, reads, asked,
          rendered, rendering, refresh, budget>>

reactVars == <<ui, base, due>>
artifactVars == <<resolved, reads, asked>>
modelVars == <<rendered, rendering>>

NoBatch == [stage |-> "free", keys |-> {}, waits |-> {}, live |-> FALSE]
NoRefresh == [on |-> FALSE]
Pending == UNION reads

-----------------------------------------------------------------------------
(* Candidates and the lane.                                                *)

\* The order of the lane: the window, then forward, then backward prefetch.
LaneOrder(view) ==
    LET last == view + ViewportSize - 1 + ForwardSpan
        ahead == (IF last < Entries THEN last ELSE Entries) - view + 1
        behind == IF view - 1 < BackwardSpan THEN view - 1 ELSE BackwardSpan
    IN  [i \in 1 .. ahead |-> view + i - 1] \o [i \in 1 .. behind |-> view - i]

InView(p) == p \in ToSet(LaneOrder(ui.view))

\* peekExplorerThumbnailForEntry; a model's thumbnail is never in that cache.
Peek(p) == <<p, ui.rev[p]>> \in resolved

\* Mutant: the loading marks are not looked at.
ShouldScheduleMarked(p) == ui.map[p] = Unset /\ ~Peek(p)

ShouldSchedule(p) ==
    ui.map[p] = Unset /\ ~Peek(p) /\ p \notin ui.loading

\* buildExplorerViewportThumbnailWorkCandidates and the batch the bounded
\* lane selects from them: the first BatchSize candidates of its order.
Scheduled ==
    LET order == LaneOrder(ui.view)
        candidates == {i \in DOMAIN order : ShouldSchedule(order[i])}
        ahead(i) == {j \in candidates : j < i}
        chosen == {i \in candidates : Cardinality(ahead(i)) < BatchSize}
    IN  {<<order[i], ui.rev[order[i]]>> : i \in chosen}

-----------------------------------------------------------------------------
(* React: queued updates, renders and the effect.                          *)

Urgent(kind, val) == [kind |-> kind, val |-> val, urgent |-> TRUE, seen |-> FALSE]
Transition(kind, val) == [kind |-> kind, val |-> val, urgent |-> FALSE, seen |-> FALSE]

\* The updater functions the setters are called with.
Apply(state, update) ==
    LET v == update.val
    IN  CASE update.kind = "busy"   -> [state EXCEPT !.busy = v]
          [] update.kind = "view"   -> [state EXCEPT !.view = v]
          [] update.kind = "mark"   -> [state EXCEPT !.loading = @ \cup v]
          [] update.kind = "unmark" -> [state EXCEPT !.loading = @ \ v]
          [] update.kind = "commit" ->
               [state EXCEPT !.map =
                  [p \in Paths |-> IF p \in PathsOf(v)
                                   THEN (CHOOSE k \in v : k[1] = p)[2]
                                   ELSE @[p]]]
          [] update.kind = "relist" ->
               [state EXCEPT !.rev = v.rev, !.map = v.map, !.loading = v.loading]

\* The base state with the updates applied that a render takes, in order.
Replay(updates, all) ==
    LET step(state, update) == IF all \/ update.urgent THEN Apply(state, update) ELSE state
    IN  FoldLeft(step, base, updates)

\* Updates that give the effect a new dependency whatever their content.
Fresh(update) == update.kind \in {"view", "commit", "relist"}

\* Promise continuations that can run: a batch that no longer waits.
Ready(s) ==
    \/ batch[s].stage = "artifacts" /\ batch[s].waits \cap Pending = {}
    \/ batch[s].stage = "models" /\ batch[s].waits \cap rendering = {}

Drained == \A s \in 1 .. Slots : ~Ready(s)

\* Updates before the first transition are done with once rendered; the
\* others are applied again, in their order, when the transition renders.
RenderUrgent ==
    LET next == Replay(queue, FALSE)
        skipped == {i \in DOMAIN queue : ~queue[i].urgent}
        done == IF skipped = {} THEN Len(queue) ELSE Min(skipped) - 1
        new == {i \in DOMAIN queue : queue[i].urgent /\ ~queue[i].seen}
    IN  /\ Drained /\ ~due
        /\ new # {}
        /\ ui' = next
        /\ due' = (next # ui \/ \E i \in new : Fresh(queue[i]))
        /\ base' = Replay(SubSeq(queue, 1, done), TRUE)
        /\ queue' = [i \in 1 .. (Len(queue) - done) |->
                       [queue[done + i] EXCEPT !.seen = @ \/ queue[done + i].urgent]]
        /\ UNCHANGED <<disk, armed, batch, artifactVars, modelVars, refresh, budget>>

RenderTransition ==
    LET next == Replay(queue, TRUE)
    IN  /\ Drained /\ ~due
        /\ queue # <<>>
        /\ \A i \in DOMAIN queue : queue[i].urgent => queue[i].seen
        /\ ui' = next /\ base' = next /\ queue' = <<>>
        /\ due' = TRUE
        /\ UNCHANGED <<disk, armed, batch, artifactVars, modelVars, refresh, budget>>

\* The cleanup of the effect's last run clears its timer and makes its batch
\* stale; the new run sets a timer for what is missing now.
RunEffect ==
    /\ Drained /\ due
    /\ due' = FALSE
    /\ batch' = [s \in 1 .. Slots |-> [batch[s] EXCEPT !.live = FALSE]]
    /\ armed' = IF ui.busy THEN {} ELSE Scheduled
    /\ UNCHANGED <<disk, ui, base, queue, artifactVars, modelVars, refresh, budget>>

-----------------------------------------------------------------------------
(* A batch: fired by its timer, waits for its reads, then settles.         *)

\* Mutant: reads under way are not joined.
ReadArtifactsAgain(keys) ==
    LET uncached == keys \ resolved
    IN  /\ reads' = IF uncached = {} THEN reads ELSE reads \cup {uncached}
        /\ asked' = [k \in ArtifactKeys |->
                       IF k \in uncached /\ asked[k] < 2 THEN asked[k] + 1 ELSE asked[k]]
        /\ UNCHANGED resolved

\* readExplorerThumbnailsForEntriesBatch: resolved keys answer at once,
\* pending ones are joined, the others make one native batch read.
ReadArtifacts(keys) ==
    LET uncached == (keys \ resolved) \ Pending
    IN  /\ reads' = IF uncached = {} THEN reads ELSE reads \cup {uncached}
        /\ asked' = [k \in ArtifactKeys |->
                       IF k \in uncached /\ asked[k] < 2 THEN asked[k] + 1 ELSE asked[k]]
        /\ UNCHANGED resolved

\* readExplorerModelThumbnail for each model of the batch.
ReadModels(keys) ==
    /\ rendering' = rendering \cup (keys \ rendered)
    /\ UNCHANGED rendered

TimerFires ==
    \E s \in 1 .. Slots :
      LET artifacts == armed \cap ArtifactKeys
          models == armed \cap ModelKeys
      IN  /\ Drained /\ armed # {}
          /\ batch[s].stage = "free"
          /\ \A t \in 1 .. (s - 1) : batch[t].stage # "free"
          /\ queue' = Append(queue, Urgent("mark", PathsOf(armed)))
          /\ IF artifacts # {}
             THEN /\ ReadArtifacts(artifacts)
                  /\ batch' = [batch EXCEPT ![s] =
                       [stage |-> "artifacts", keys |-> armed,
                        waits |-> artifacts \ resolved, live |-> TRUE]]
                  /\ UNCHANGED modelVars
             ELSE /\ ReadModels(models)
                  /\ batch' = [batch EXCEPT ![s] =
                       [stage |-> "models", keys |-> armed,
                        waits |-> models \ rendered, live |-> TRUE]]
                  /\ UNCHANGED artifactVars
          /\ armed' = {}
          /\ UNCHANGED <<disk, ui, base, due, refresh, budget>>

\* The artifacts are read: the models of the batch follow unless it is stale.
StartModels(s) ==
    LET models == batch[s].keys \cap ModelKeys
    IN  /\ batch[s].stage = "artifacts" /\ Ready(s)
        /\ models # {} /\ batch[s].live
        /\ ReadModels(models)
        /\ batch' = [batch EXCEPT ![s].stage = "models", ![s].waits = models \ rendered]
        /\ UNCHANGED <<disk, reactVars, queue, armed, artifactVars, refresh, budget>>

\* The then and finally of the batch: a live batch commits its results, and
\* a batch always takes its loading marks away.
SettleUpdates(b) ==
    (IF b.live THEN <<Transition("commit", b.keys)>> ELSE <<>>)
    \o <<Urgent("unmark", PathsOf(b.keys))>>

Settle(s) ==
    /\ Ready(s)
    /\ \/ batch[s].stage = "models"
       \/ batch[s].keys \cap ModelKeys = {} \/ ~batch[s].live
    /\ queue' = queue \o SettleUpdates(batch[s])
    /\ batch' = [batch EXCEPT ![s] = NoBatch]
    /\ UNCHANGED <<disk, reactVars, armed, artifactVars, modelVars, refresh, budget>>

\* A read has settled, every result with its URL (the results of one reply
\* become known together here); what failed or is missing is kept as null.
ReadSettles(read) ==
    /\ Drained
    /\ read \in reads
    /\ resolved' = resolved \cup read
    /\ reads' = reads \ {read}
    /\ UNCHANGED <<disk, reactVars, queue, armed, batch, asked, modelVars,
                   refresh, budget>>

ModelRendered(k) ==
    /\ Drained
    /\ k \in rendering
    /\ rendering' = rendering \ {k}
    /\ rendered' = rendered \cup {k}
    /\ UNCHANGED <<disk, reactVars, queue, armed, batch, artifactVars, refresh, budget>>

ModelFails(k) ==
    /\ Drained
    /\ k \in rendering /\ budget.disturbances > 0
    /\ rendering' = rendering \ {k}
    /\ budget' = [budget EXCEPT !.disturbances = @ - 1]
    /\ UNCHANGED <<disk, reactVars, queue, armed, batch, artifactVars, rendered, refresh>>

-----------------------------------------------------------------------------
(* The user and the folder.                                                *)

\* The window moves, or another dependency of the effect changes.
Relayout ==
    \E view \in 1 .. (Entries - ViewportSize + 1) :
      /\ Drained
      /\ budget.disturbances > 0
      /\ queue' = Append(queue, Urgent("view", view))
      /\ budget' = [budget EXCEPT !.disturbances = @ - 1]
      /\ UNCHANGED <<disk, reactVars, armed, batch, artifactVars, modelVars, refresh>>

\* refresh() of the last render: it keeps that render's state over its await.
RefreshStarts ==
    /\ Drained
    /\ budget.refreshes > 0
    /\ refresh' = [on |-> TRUE, rev |-> ui.rev, map |-> ui.map, loading |-> ui.loading]
    /\ rendered' = {}                    \* invalidateExplorerPreviewCache
    /\ queue' = Append(queue, Urgent("busy", TRUE))
    /\ budget' = [budget EXCEPT !.refreshes = @ - 1]
    /\ UNCHANGED <<disk, reactVars, armed, batch, artifactVars, rendering>>

\* Mutant: the loading marks are kept for entries whose content changed.
ReconciledByPath(rev) ==
    [rev |-> rev, loading |-> refresh.loading,
     map |-> [p \in Paths |-> IF refresh.rev[p] = rev[p] THEN refresh.map[p] ELSE Unset]]

\* reconcileExplorerThumbnailMap and reconcileExplorerPathSet.
Reconciled(rev) ==
    LET same(p) == refresh.rev[p] = rev[p]
    IN  [rev |-> rev,
         loading |-> {p \in refresh.loading : same(p)},
         map |-> [p \in Paths |->
                    IF same(p) /\ refresh.map[p] # Unset THEN refresh.map[p]
                    ELSE IF <<p, rev[p]>> \in resolved THEN rev[p]
                    ELSE Unset]]

RefreshEnds ==
    /\ Drained
    /\ refresh.on
    /\ \/ \E rev \in [Paths -> Revisions] :
            /\ \A p \in Paths : disk[p] <= rev[p]
            /\ disk' = rev
            /\ queue' = queue \o <<Transition("relist", Reconciled(rev)),
                                   Urgent("busy", FALSE)>>
       \/ /\ queue' = Append(queue, Urgent("busy", FALSE))
          /\ UNCHANGED disk
    /\ refresh' = NoRefresh
    /\ UNCHANGED <<reactVars, armed, batch, artifactVars, modelVars, budget>>

-----------------------------------------------------------------------------
Init ==
    /\ disk = [p \in Paths |-> 0]
    /\ ui = [rev |-> disk, map |-> [p \in Paths |-> Unset], loading |-> {},
             view |-> 1, busy |-> FALSE]
    /\ base = ui
    /\ queue = <<>>
    /\ due = TRUE
    /\ armed = {}
    /\ batch = [s \in 1 .. Slots |-> NoBatch]
    /\ resolved = {} /\ reads = {}
    /\ asked = [k \in ArtifactKeys |-> 0]
    /\ rendered = {} /\ rendering = {}
    /\ refresh = NoRefresh
    /\ budget = [disturbances |-> MaxDisturbances, refreshes |-> MaxRefreshes]

Render == RenderUrgent \/ RenderTransition
Continue == \E s \in 1 .. Slots : StartModels(s) \/ Settle(s)
Replies == \E read \in reads : ReadSettles(read)
Renders == \E k \in rendering : ModelRendered(k)

Next ==
    \/ RenderUrgent \/ RenderTransition \/ RunEffect
    \/ TimerFires
    \/ \E s \in 1 .. Slots : StartModels(s) \/ Settle(s)
    \/ \E read \in reads : ReadSettles(read)
    \/ \E k \in rendering : ModelRendered(k) \/ ModelFails(k)
    \/ Relayout
    \/ RefreshStarts \/ RefreshEnds

Spec == Init /\ [][Next]_vars

\* The event loop runs every continuation, timer, render and effect, and
\* every call of the native side and of the renderer comes back.
FairSpec ==
    /\ Spec
    /\ WF_vars(Render) /\ WF_vars(RunEffect) /\ WF_vars(TimerFires)
    /\ WF_vars(Continue) /\ WF_vars(Replies) /\ WF_vars(Renders)
    /\ WF_vars(RefreshEnds)

-----------------------------------------------------------------------------
(* Properties.                                                             *)

\* The state is well formed; a batch never exceeds the batch size of the
\* policy, and once the effect has run its timer is set for entries only that
\* are not being loaded already.
TypeOK ==
    /\ disk \in [Paths -> Revisions]
    /\ \A state \in {ui, base} :
         /\ state.rev \in [Paths -> Revisions]
         /\ state.map \in [Paths -> Revisions \cup {Unset}]
         /\ state.loading \subseteq Paths
         /\ state.view \in Paths /\ {state.busy, due} \subseteq BOOLEAN
    /\ armed \subseteq Keys /\ Cardinality(armed) <= BatchSize
    /\ due \/ PathsOf(armed) \cap ui.loading = {}
    /\ \A s \in 1 .. Slots :
         batch[s].keys \subseteq Keys /\ batch[s].waits \subseteq batch[s].keys
    /\ resolved \subseteq ArtifactKeys /\ Pending \subseteq ArtifactKeys
    /\ rendered \subseteq ModelKeys /\ rendering \subseteq ModelKeys

\* However often batches are cancelled and their entries scheduled again,
\* the native side is asked at most once for the artifact of an entry at a
\* revision: resolved and pending reads together cover what was asked.
ReadOnce == \A k \in ArtifactKeys : asked[k] <= 1

Settled(p) == InView(p) => ui.map[p] # Unset \/ Peek(p)

\* Every image or video in view ends with a thumbnail, or with the knowledge
\* that it has none, although the batch that reads it is cancelled by the
\* render of its own loading marks, and a refresh may restore old marks.
ArtifactsSettle == \A p \in Paths \ Models : <>[]Settled(p)
=============================================================================
