-------------------------- MODULE NativeBufferPool --------------------------
(***************************************************************************)
(* The pool of WebView2 shared buffers that carries finite payloads from   *)
(* Rust to JavaScript (tauron/crates/tauri/src/native_buffer_pool.rs).     *)
(*                                                                         *)
(* A request is one call of post_pooled_packet_to_webview.  Its thread     *)
(* leases a record of the pool, marks it posted, hands a closure to the    *)
(* UI thread and waits at most a second for it.  The closure copies the    *)
(* payload into the shared memory of the record (or into memory it         *)
(* allocates) and posts it.  JavaScript decodes the packet and asks for    *)
(* the record to be released.  One step is one critical section of the     *)
(* pool, one closure, one event of the page, or a tick of the clock.       *)
(*                                                                         *)
(* The states JsReleased and Reclaimed are passed through inside one       *)
(* critical section and never seen.  The page's side of the protocol is    *)
(* external: it is modelled from nativeBufferPoolApi.test.ts.  wait_count  *)
(* and release_batch_count, which nothing reads back, are left out.        *)
(***************************************************************************)
EXTENDS Integers, FiniteSets, Sequences, Functions

CONSTANTS
  Requests,                \* calls of post_pooled_packet_to_webview
  Buffers,                 \* ids drawn from NEXT_BUFFER_ID
  Webview,                 \* webview_label of a request
  Bytes,                   \* byte length of its payload
  MinSizeClass, MaxSizeClass,
  MaxBuffersPerSizeClass,  \* DEFAULT_MAX_BUFFERS_PER_SIZE_CLASS
  StaleAfter,              \* STALE_POSTED_BUFFER_RECLAIM_AFTER, in ticks
  DeliveryWithin,          \* the UI thread and the page handle a posted packet in fewer ticks
  PostsFail,               \* whether WebView2 calls may fail
  ListenerLeaves,          \* whether the page may drop its listener before the packet
  NoBuffer, NoMemory

ASSUME RequestsAssumption == IsFiniteSet(Requests) /\ NoMemory \notin Requests
ASSUME BuffersAssumption == IsFiniteSet(Buffers) /\ NoBuffer \notin Buffers
ASSUME BytesAssumption ==
  /\ Bytes \in [Requests -> Nat]
  /\ DOMAIN Webview = Requests
  /\ MinSizeClass \in Nat \ {0} /\ MaxSizeClass \in Nat \ {0}
\* 4 KiB and 4 MiB in the code.
ASSUME ClassesAssumption == MinSizeClass <= MaxSizeClass /\ MaxSizeClass <= 2^22
ASSUME LimitsAssumption ==
  /\ MaxBuffersPerSizeClass \in Nat \ {0}
  /\ StaleAfter \in Nat \ {0} /\ DeliveryWithin \in Nat \ {0}
  /\ PostsFail \in BOOLEAN /\ ListenerLeaves \in BOOLEAN

VARIABLES
  shelf,       \* webview_label and size_class of a record, NoShelf without a record
  generation,  \* identity.generation
  state,       \* NativeBufferPoolBufferState
  age,         \* ticks since state_changed_at, counted while posted
  platform,    \* the shared memory installed in a record
  telemetry,   \* NativeBufferPoolCounters
  phase,       \* where the thread of a request is
  lease,       \* the identity it leased
  view,        \* existing_platform_buffer
  channel,     \* what the closure sent back
  uiQueue,     \* closures the UI thread has still to run
  memory,      \* payload held by the shared memory a request allocated
  posted,      \* requests whose packet is on its way to the page
  decoded,     \* the payload the page decoded for a request
  releases     \* requests whose release is on its way to the pool

recordVars == <<shelf, generation, state, age, platform, telemetry>>
threadVars == <<phase, lease, view, channel>>
pageVars == <<memory, posted, decoded, releases>>
vars == <<recordVars, threadVars, uiQueue, pageVars>>

NoShelf == <<>>
NoLease == [id |-> NoBuffer, generation |-> 0]
BufferStates == {"Free", "LeasedNative", "PostedToJs"}
\* "ok" and "error" are the results of the call.
Phases == {"idle", "waiting", "leased", "viewed", "marked", "receiving", "ok", "error"}
\* The thread is in the loop of lease_with_limit, or before it.
Leasing == {"idle", "waiting"}
Counters == {"allocation", "reuse", "release", "mismatch", "maxInFlight"}
\* What the closure sends: nothing yet, Ok(None), Ok(Some(allocation)), Err.
Sent == {"nothing", "reused", "allocated", "failed"}

Init ==
  /\ shelf = [b \in Buffers |-> NoShelf]
  /\ generation = [b \in Buffers |-> 0]
  /\ state = [b \in Buffers |-> "Free"]
  /\ age = [b \in Buffers |-> 0]
  /\ platform = [b \in Buffers |-> NoMemory]
  /\ telemetry = [n \in Counters |-> 0]
  /\ phase = [r \in Requests |-> "idle"]
  /\ lease = [r \in Requests |-> NoLease]
  /\ view = [r \in Requests |-> NoMemory]
  /\ channel = [r \in Requests |-> "nothing"]
  /\ uiQueue = <<>>
  /\ memory = [r \in Requests |-> NoMemory]
  /\ posted = {}
  /\ decoded = [r \in Requests |-> NoMemory]
  /\ releases = {}

-----------------------------------------------------------------------------
PowersOfTwo == {2^k : k \in 0..22}
NextPowerOfTwo(n) == CHOOSE p \in PowersOfTwo :
                       p >= n /\ \A q \in PowersOfTwo : q >= n => p <= q
Larger(m, n) == IF m < n THEN n ELSE m
Smaller(m, n) == IF m < n THEN m ELSE n

\* size_class_for, for a length it accepts.
SizeClassFor(n) == Smaller(NextPowerOfTwo(Larger(n, MinSizeClass)), MaxSizeClass)
Accepted(r) == Bytes[r] <= MaxSizeClass
ShelfOf(r) == <<Webview[r], SizeClassFor(Bytes[r])>>

OnShelf(s) == {b \in Buffers : shelf[b] = s}
InFlight(st) == Cardinality({b \in Buffers : st[b] \in {"LeasedNative", "PostedToJs"}})

\* Mutant: the high-water mark is not raised.
NotCounted(t, st) == t
\* update_max_in_flight
UpdateMaxInFlight(t, st) == [t EXCEPT !["maxInFlight"] = Larger(@, InFlight(st))]

\* Mutant: every posted record counts as stale.
PostedOn(s) == {b \in OnShelf(s) : state[b] = "PostedToJs"}
\* reclaim_stale_posted_locked
StalePosted(s) == {b \in OnShelf(s) : state[b] = "PostedToJs" /\ age[b] >= StaleAfter}

\* Mutant: the size class is not compared.
ReusableAnyClass(s) ==
  {b \in Buffers : shelf[b] # NoShelf /\ shelf[b][1] = s[1] /\ state[b] = "Free"}
Reusable(s) == {b \in OnShelf(s) : state[b] = "Free"} \cup StalePosted(s)

\* Mutant: one record too many.
HasRoomForOneMore(s) == Cardinality(OnShelf(s)) <= MaxBuffersPerSizeClass
HasRoom(s) == Cardinality(OnShelf(s)) < MaxBuffersPerSizeClass

GenerationKept(b) == generation  \* mutant
NextGeneration(b) == [generation EXCEPT ![b] = @ + 1]

\* Mutant: the state stops at the first of the three assignments of a release.
FreedHalfway(S) == [b \in Buffers |-> IF b \in S THEN "JsReleased" ELSE state[b]]
Freed(S) == [b \in Buffers |-> IF b \in S THEN "Free" ELSE state[b]]
Fresh(b) == shelf[b] = NoShelf

\* The turn of the loop of lease_with_limit that takes a record off the shelf.
LeaseReused(r) ==
  /\ phase[r] \in Leasing /\ Accepted(r)
  /\ \E b \in Reusable(ShelfOf(r)) :
       /\ generation' = NextGeneration(b)
       /\ state' = [Freed(StalePosted(ShelfOf(r))) EXCEPT ![b] = "LeasedNative"]
       /\ age' = [a \in Buffers |-> IF a = b \/ a \in StalePosted(ShelfOf(r)) THEN 0 ELSE age[a]]
       /\ telemetry' = UpdateMaxInFlight([telemetry EXCEPT !["reuse"] = @ + 1], state')
       /\ lease' = [lease EXCEPT ![r] = [id |-> b, generation |-> generation'[b]]]
  /\ phase' = [phase EXCEPT ![r] = "leased"]
  /\ UNCHANGED <<shelf, platform, view, channel, uiQueue, pageVars>>

\* The turn that inserts a new record.
LeaseNew(r) ==
  /\ phase[r] \in Leasing /\ Accepted(r)
  /\ Reusable(ShelfOf(r)) = {} /\ HasRoom(ShelfOf(r))
  /\ \E b \in Buffers :
       /\ Fresh(b)
       /\ shelf' = [shelf EXCEPT ![b] = ShelfOf(r)]
       /\ state' = [state EXCEPT ![b] = "LeasedNative"]
       /\ lease' = [lease EXCEPT ![r] = [id |-> b, generation |-> 0]]
  /\ telemetry' = UpdateMaxInFlight(telemetry, state')
  /\ phase' = [phase EXCEPT ![r] = "leased"]
  /\ UNCHANGED <<generation, age, platform, view, channel, uiQueue, pageVars>>

\* The shelf is full and nothing on it can be reused.
NoSlot(r) == Reusable(ShelfOf(r)) = {} /\ ~HasRoom(ShelfOf(r))

\* The loop waits on the condition variable.
LeaseWaits(r) ==
  /\ phase[r] = "idle" /\ Accepted(r) /\ NoSlot(r)
  /\ phase' = [phase EXCEPT ![r] = "waiting"]
  /\ UNCHANGED <<recordVars, lease, view, channel, uiQueue, pageVars>>

\* The payload is too large, or the wait ran out: the shelf is not looked at again.
LeaseFails(r) ==
  /\ \/ phase[r] = "idle" /\ ~Accepted(r)
     \/ phase[r] = "waiting"
  /\ phase' = [phase EXCEPT ![r] = "error"]
  /\ UNCHANGED <<recordVars, lease, view, channel, uiQueue, pageVars>>

-----------------------------------------------------------------------------
Names(r, b) == lease[r].id = b /\ lease[r].generation = generation[b]
\* The generation of the record is still the one r leased.
Current(r) == \E b \in Buffers : Names(r, b)

\* platform_view
PlatformView(r) ==
  /\ phase[r] = "leased"
  /\ IF Current(r)
     THEN /\ view' = [view EXCEPT ![r] = platform[lease[r].id]]
          /\ phase' = [phase EXCEPT ![r] = "viewed"]
     ELSE /\ phase' = [phase EXCEPT ![r] = "error"]
          /\ UNCHANGED view
  /\ UNCHANGED <<recordVars, lease, channel, uiQueue, pageVars>>

\* transition, refused when the generation or the state is not the expected one.
Transition(r, expected, next) ==
  IF Current(r) /\ state[lease[r].id] = expected
  THEN /\ state' = [state EXCEPT ![lease[r].id] = next]
       /\ age' = [age EXCEPT ![lease[r].id] = 0]
       /\ telemetry' = UpdateMaxInFlight(telemetry, state')
  ELSE UNCHANGED <<state, age, telemetry>>

ReclaimAfterPostFailure(r) == Transition(r, "PostedToJs", "Free")

\* mark_posted_to_js; a refusal ends the call (the reclaim that follows is refused too).
MarkPosted(r) ==
  /\ phase[r] = "viewed"
  /\ Transition(r, "LeasedNative", "PostedToJs")
  /\ phase' = [phase EXCEPT ![r] = IF Current(r) /\ state[lease[r].id] = "LeasedNative"
                                   THEN "marked" ELSE "error"]
  /\ UNCHANGED <<shelf, generation, platform, lease, view, channel, uiQueue, pageVars>>

\* with_webview hands the closure to the UI thread, or fails.
Schedule(r) ==
  /\ phase[r] = "marked"
  /\ phase' = [phase EXCEPT ![r] = "receiving"]
  /\ uiQueue' = Append(uiQueue, r)
  /\ UNCHANGED <<recordVars, lease, view, channel, pageVars>>

ScheduleFails(r) ==
  /\ PostsFail
  /\ phase[r] = "marked"
  /\ ReclaimAfterPostFailure(r)
  /\ phase' = [phase EXCEPT ![r] = "error"]
  /\ UNCHANGED <<shelf, generation, platform, lease, view, channel, uiQueue, pageVars>>

\* recv_timeout runs out or finds the sender dropped: the record stays posted.
ReceiveTimesOut(r) ==
  /\ phase[r] = "receiving" /\ channel[r] = "nothing"
  /\ phase' = [phase EXCEPT ![r] = "error"]
  /\ UNCHANGED <<recordVars, lease, view, channel, uiQueue, pageVars>>

ReceiveReused(r) ==
  /\ phase[r] = "receiving" /\ channel[r] = "reused"
  /\ phase' = [phase EXCEPT ![r] = "ok"]
  /\ UNCHANGED <<recordVars, lease, view, channel, uiQueue, pageVars>>

\* install_platform_allocation; the page may have released the record already and
\* another request may have leased it, then the memory is dropped and the call fails.
ReceiveAllocated(r) ==
  /\ phase[r] = "receiving" /\ channel[r] = "allocated"
  /\ IF Current(r)
     THEN /\ phase' = [phase EXCEPT ![r] = "ok"]
          /\ IF platform[lease[r].id] = NoMemory
             THEN /\ platform' = [platform EXCEPT ![lease[r].id] = r]
                  /\ telemetry' = [telemetry EXCEPT !["allocation"] = @ + 1]
             ELSE UNCHANGED <<platform, telemetry>>
          /\ UNCHANGED <<state, age>>
     ELSE /\ phase' = [phase EXCEPT ![r] = "error"]
          /\ ReclaimAfterPostFailure(r)
          /\ UNCHANGED platform
  /\ UNCHANGED <<shelf, generation, lease, view, channel, uiQueue, pageVars>>

ReceiveFailure(r) ==
  /\ phase[r] = "receiving" /\ channel[r] = "failed"
  /\ ReclaimAfterPostFailure(r)
  /\ phase' = [phase EXCEPT ![r] = "error"]
  /\ UNCHANGED <<shelf, generation, platform, lease, view, channel, uiQueue, pageVars>>

-----------------------------------------------------------------------------
\* The shared memory a closure writes: the installed one, or one it allocates.
Target(r) == IF view[r] = NoMemory THEN r ELSE view[r]

\* The closure of the oldest scheduled request copies the payload and posts it.
RunClosure ==
  /\ uiQueue # <<>>
  /\ LET r == Head(uiQueue)
     IN /\ memory' = [memory EXCEPT ![Target(r)] = r]
        /\ posted' = posted \cup {r}
        /\ channel' = [channel EXCEPT ![r] = IF view[r] = NoMemory THEN "allocated" ELSE "reused"]
  /\ uiQueue' = Tail(uiQueue)
  /\ UNCHANGED <<recordVars, phase, lease, view, decoded, releases>>

\* A WebView2 call fails, before the copy or after it.
ClosureFails ==
  /\ PostsFail /\ uiQueue # <<>>
  /\ LET r == Head(uiQueue)
     IN /\ memory' \in {memory, [memory EXCEPT ![Target(r)] = r]}
        /\ channel' = [channel EXCEPT ![r] = "failed"]
  /\ uiQueue' = Tail(uiQueue)
  /\ UNCHANGED <<recordVars, phase, lease, view, posted, decoded, releases>>

\* The webview is gone: the closure and its sender are dropped.
ClosureDropped ==
  /\ PostsFail /\ uiQueue # <<>>
  /\ uiQueue' = Tail(uiQueue)
  /\ UNCHANGED <<recordVars, threadVars, pageVars>>

\* The page decodes the packet and sends the release of its identity.
PageDecodes(r) ==
  /\ r \in posted
  /\ posted' = posted \ {r}
  /\ decoded' = [decoded EXCEPT ![r] = memory[Target(r)]]
  /\ releases' = releases \cup {r}
  /\ UNCHANGED <<recordVars, threadVars, uiQueue, memory>>

\* The page gave up waiting: its late listener releases without decoding.
PageReleasesLate(r) ==
  /\ r \in posted
  /\ posted' = posted \ {r}
  /\ releases' = releases \cup {r}
  /\ UNCHANGED <<recordVars, threadVars, uiQueue, memory, decoded>>

\* The late listener is gone as well: nobody releases the record.
PageMisses(r) ==
  /\ ListenerLeaves
  /\ r \in posted
  /\ posted' = posted \ {r}
  /\ UNCHANGED <<recordVars, threadVars, uiQueue, memory, decoded, releases>>

-----------------------------------------------------------------------------
\* Mutant: the generation of a release is not compared.
ReleasedAnyGeneration(S) ==
  {b \in Buffers : state[b] = "PostedToJs" /\ \E r \in S : lease[r].id = b}
\* Mutant: a refused release ends the batch before any record is freed.
ReleasedAllOrNone(S) ==
  {b \in Buffers : /\ state[b] = "PostedToJs"
                   /\ \E r \in S : Names(r, b)
                   /\ \A r \in S : Current(r)}
\* The records release_one_locked frees for the releases S.
ReleasedBy(S) == {b \in Buffers : state[b] = "PostedToJs" /\ \E r \in S : Names(r, b)}

\* release_many_from_js: one call with the releases S.
ReleaseMany(S) ==
  /\ S # {}
  /\ state' = Freed(ReleasedBy(S))
  /\ age' = [b \in Buffers |-> IF b \in ReleasedBy(S) THEN 0 ELSE age[b]]
  /\ telemetry' =
       UpdateMaxInFlight([telemetry EXCEPT
                            !["release"] = @ + Cardinality(ReleasedBy(S)),
                            !["mismatch"] = @ + Cardinality({r \in S : ~Current(r)})],
                         state')
  /\ releases' = releases \ S
  /\ UNCHANGED <<shelf, generation, platform, threadVars, uiQueue, memory, posted, decoded>>

Queued == {uiQueue[i] : i \in 1..Len(uiQueue)}
\* The packet of r is between mark_posted_to_js and the page.
Pending(r) == phase[r] = "marked" \/ r \in Queued \/ r \in posted

\* Time passes.  A packet that is still pending for the record is not older than
\* DeliveryWithin allows; releases and lost packets may take any time.
Tick ==
  /\ \E b \in Buffers : state[b] = "PostedToJs" /\ age[b] < StaleAfter
  /\ \A r \in Requests, b \in Buffers :
       Pending(r) /\ Names(r, b) => age[b] + 1 < DeliveryWithin
  /\ age' = [b \in Buffers |-> IF state[b] = "PostedToJs" /\ age[b] < StaleAfter
                               THEN age[b] + 1 ELSE age[b]]
  /\ UNCHANGED <<shelf, generation, state, platform, telemetry, threadVars, uiQueue, pageVars>>

-----------------------------------------------------------------------------
ThreadStep(r) ==
  \/ LeaseReused(r) \/ LeaseNew(r) \/ LeaseWaits(r) \/ LeaseFails(r)
  \/ PlatformView(r) \/ MarkPosted(r) \/ Schedule(r) \/ ScheduleFails(r)
  \/ ReceiveTimesOut(r) \/ ReceiveReused(r) \/ ReceiveAllocated(r) \/ ReceiveFailure(r)

UiStep == RunClosure \/ ClosureFails \/ ClosureDropped
PageStep(r) == PageDecodes(r) \/ PageReleasesLate(r) \/ PageMisses(r)

Next ==
  \/ \E r \in Requests : ThreadStep(r) \/ PageStep(r)
  \/ UiStep
  \/ \E S \in SUBSET releases : ReleaseMany(S)
  \/ Tick

Spec == Init /\ [][Next]_vars

\* Threads and the UI thread run, the page handles its events and its control
\* messages arrive.  Calls to come (idle) need not be made.
Fairness ==
  /\ \A r \in Requests : WF_vars(phase[r] # "idle" /\ ThreadStep(r))
  /\ \A r \in Requests : WF_vars(PageStep(r))
  /\ \A r \in Requests : WF_vars(\E S \in SUBSET releases : r \in S /\ ReleaseMany(S))
  /\ WF_vars(UiStep)

FairSpec == Spec /\ Fairness

-----------------------------------------------------------------------------
(* Properties *)

\* Types of the pool, of the threads and of the page.
TypeOK ==
  /\ shelf \in [Buffers -> {NoShelf} \cup {ShelfOf(r) : r \in Requests}]
  /\ generation \in [Buffers -> Nat]
  /\ state \in [Buffers -> BufferStates]
  /\ age \in [Buffers -> 0..StaleAfter]
  /\ platform \in [Buffers -> Requests \cup {NoMemory}]
  /\ telemetry \in [Counters -> Nat]
  /\ phase \in [Requests -> Phases]
  /\ lease \in [Requests -> [id : Buffers \cup {NoBuffer}, generation : Nat]]
  /\ view \in [Requests -> Requests \cup {NoMemory}]
  /\ channel \in [Requests -> Sent]
  /\ uiQueue \in Seq(Requests)
  /\ memory \in [Requests -> Requests \cup {NoMemory}]
  /\ posted \subseteq Requests
  /\ decoded \in [Requests -> Requests \cup {NoMemory}]
  /\ releases \subseteq Requests

\* An identity (id, generation) is leased to one request only, for ever: a release,
\* a transition or an installation that arrives late is recognised by its generation.
IdentityLeasedOnce ==
  \A r, s \in Requests, b \in Buffers : Names(r, b) /\ Names(s, b) => r = s

\* A record stays with its request from the lease to the page: nobody reclaims or
\* reuses it while the payload is written or the packet is on its way.
RequestKeepsRecord ==
  \A r \in Requests :
    /\ phase[r] \in {"leased", "viewed"} =>
         \E b \in Buffers : Names(r, b) /\ state[b] = "LeasedNative"
    /\ Pending(r) => \E b \in Buffers : Names(r, b) /\ state[b] = "PostedToJs"

\* The shared memory of a packet the page has still to read holds that packet's
\* payload: reuse never overwrites bytes before they are decoded.
PacketIntact == \A r \in posted : memory[Target(r)] = r

\* The memory a closure writes is large enough for the payload it copies and was
\* allocated for the same webview.
PayloadFits ==
  \A r \in Requests :
    phase[r] \in {"viewed", "marked", "receiving"} =>
      /\ Webview[Target(r)] = Webview[r]
      /\ Bytes[r] <= SizeClassFor(Bytes[Target(r)])

\* A webview has at most MaxBuffersPerSizeClass records of a size class.
ShelfBounded ==
  \A r \in Requests : Cardinality(OnShelf(ShelfOf(r))) <= MaxBuffersPerSizeClass

\* The counters agree with the records: every generation is one reuse, every
\* installed memory one allocation, and the high-water mark is one.
CountersAgree ==
  /\ telemetry["reuse"] = SumFunction(generation)
  /\ telemetry["allocation"] = Cardinality({b \in Buffers : platform[b] # NoMemory})
  /\ telemetry["maxInFlight"] >= InFlight(state)

\* A release never frees a record whose packet the page has still to read, however
\* long the release was on its way.
ReleaseHitsItsOwnLease ==
  [][\A b \in Buffers :
       releases' # releases /\ state[b] = "PostedToJs" /\ state'[b] = "Free" =>
         \A r \in Requests : ~(Pending(r) /\ Names(r, b))]_vars

\* Every posted record is given back, also when the call or the page timed out
\* before the packet arrived.
PostedComesBack ==
  \A b \in Buffers : state[b] = "PostedToJs" ~> state[b] # "PostedToJs"

\* What pool_reclaims_stale_posted_buffer_before_waiting_for_a_slot expects of a
\* buffer that was posted 30 seconds ago (a tick): a lease does not fail beside it.
AgedBufferIsReused ==
  \A r \in Requests :
    phase[r] \in Leasing /\ NoSlot(r) => \A b \in PostedOn(ShelfOf(r)) : age[b] < 1

-----------------------------------------------------------------------------
(* Parts of the inductive invariant of NativeBufferPoolProofs *)

\* A lease names a generation its record has reached, and no two leases the same.
LeasesDiffer ==
  /\ \A r \in Requests : phase[r] \in Leasing => lease[r] = NoLease
  /\ \A r \in Requests, b \in Buffers :
       lease[r].id = b => shelf[b] = ShelfOf(r) /\ lease[r].generation <= generation[b]
  /\ \A r, s \in Requests :
       r # s /\ lease[r].id = lease[s].id /\ lease[r].id # NoBuffer =>
         lease[r].generation # lease[s].generation
  /\ \A b \in Buffers : shelf[b] = NoShelf => generation[b] = 0 /\ state[b] = "Free"

\* A packet is in one place: before the UI queue, in it once, with the page, released.
OnePlace ==
  /\ \A r \in Requests :
       phase[r] \in Leasing \cup {"leased", "viewed", "marked"} =>
         channel[r] = "nothing" /\ r \notin Queued \cup posted \cup releases
  /\ \A r \in Queued : channel[r] = "nothing" /\ r \notin posted \cup releases
  /\ \A r \in posted : channel[r] \in {"reused", "allocated"} /\ r \notin releases
  /\ \A i, j \in 1..Len(uiQueue) : uiQueue[i] = uiQueue[j] => i = j

\* RequestKeepsRecord, with the age the clock allows a record whose packet is pending.
Owners ==
  /\ \A r \in Requests : phase[r] \in {"leased", "viewed"} =>
       \E b \in Buffers : Names(r, b) /\ state[b] = "LeasedNative"
  /\ \A r \in Requests : Pending(r) =>
       \E b \in Buffers : Names(r, b) /\ state[b] = "PostedToJs" /\ age[b] < DeliveryWithin

\* A memory is installed in the record its request leased, and stays there.
MemoryPlaces ==
  /\ \A b \in Buffers : platform[b] # NoMemory =>
       lease[platform[b]].id = b /\ channel[platform[b]] = "allocated"
  /\ \A r \in Requests : view[r] # NoMemory =>
       lease[r].id \in Buffers /\ platform[lease[r].id] = view[r]
=============================================================================
