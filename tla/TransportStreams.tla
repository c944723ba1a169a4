-------------------------- MODULE TransportStreams --------------------------
(***************************************************************************)
(* A transport stream and its readers.  The producer side is the stream     *)
(* registry of the runtime (tauron transport/mod.rs, transport/ring.rs): a  *)
(* ring of the last packets and a set of subscribers.  The reader side is   *)
(* subscribeIpcStream (src/runtime/ipc/streams.ts) on the lane this build   *)
(* uses: a first replay call, then a channel for live packets, then a       *)
(* replay call every 150 ms, several of which may be under way.             *)
(*                                                                          *)
(* One stream id is modelled.  It may be closed and registered again; each  *)
(* registration is an epoch, and a packet is <<epoch, sequence>>.  The ring *)
(* always holds an interval of sequences, oldest..next-1; how many packets  *)
(* the byte limit drops on top of the count limit is left open.             *)
(***************************************************************************)
EXTENDS Naturals, Sequences, FiniteSets

CONSTANTS Readers,      \* subscriptions, each used once
          Publishers,   \* threads that publish to the stream
          MaxMessages,  \* max_messages of the retention policy
          ReplayLimit,  \* replay_response_limit of the policy
          PollLimit,    \* the limit a poll asks for (256 in the code)
          StartFrom,    \* values of replayFromSequence
          MaxPolls,     \* bound: replay calls of a reader under way
          MaxPackets,   \* bound: packets of an epoch, two fewer in each later one
          MaxEpochs     \* bound: registrations, the last of which is not closed

ASSUME LimitAssumption == /\ MaxMessages \in Nat \ {0}
                          /\ ReplayLimit \in Nat \ {0}
                          /\ PollLimit \in Nat \ {0}
ASSUME StartAssumption == StartFrom \subseteq Nat
ASSUME BoundAssumption == /\ MaxPolls \in Nat \ {0}
                          /\ MaxPackets \in Nat
                          /\ MaxEpochs \in Nat

VARIABLES registered,  \* the registry holds the stream
          epoch,       \* registrations so far
          oldest,      \* sequence of the oldest packet in the ring
          next,        \* next_sequence
          subscribers, \* the readers whose channel is in the stream's map
          sending,     \* publisher -> the packet it is sending, and to whom
          replaying,   \* reader -> replay packets its subscribe call has yet to send
          channel,     \* reader -> packets sent and not yet handled
          phase,       \* reader -> where startInvokeReplayFallback is
          born,        \* history: reader -> the epoch it started in
          start,       \* reader -> replayFromSequence
          cursor,      \* reader -> nextSequence
          polls,       \* reader -> its replay calls
          received,    \* reader -> packets given to the listener
          fedFrom      \* history: reader -> next when it was subscribed

registry == <<registered, epoch, oldest, next>>
delivery == <<subscribers, sending, replaying, channel>>
reader == <<phase, born, start, cursor, polls, received, fedFrom>>
vars == <<registry, delivery, reader>>

Slots == 1..MaxPolls
Phases == {"idle", "firstPoll", "subscribe", "subscribeBare", "replay", "live", "stopped"}
Idle == [kind |-> "idle"]
Asked(from) == [kind |-> "asked", from |-> from]
AskedBare == [kind |-> "askedBare"]
Failed == [kind |-> "failed"]
Answered(w) == [kind |-> "answered", epoch |-> epoch, lo |-> w.lo, hi |-> w.hi]

Least(a, b) == IF a < b THEN a ELSE b
Greatest(a, b) == IF a < b THEN b ELSE a

-----------------------------------------------------------------------------
(* The ring. *)

\* Mutant: the limit is taken before the packets below "from" are left out.
WindowFromOldest(from, limit) ==
  [lo |-> Greatest(from, oldest), hi |-> Least(next, oldest + limit)]

\* replay_from: the packets lo..hi-1, none when hi <= lo.
Window(from, limit) ==
  LET lo == Greatest(from, oldest) IN [lo |-> lo, hi |-> Least(next, lo + limit)]

\* Mutant: one packet too many is kept.
OldestOneTooMany == {o \in oldest..next : next + 1 - o <= MaxMessages + 1}

\* enforce_capacity after a write: what the oldest packet may be.  The last
\* one written always stays.
OldestAfterWrite == {o \in oldest..next : next + 1 - o <= MaxMessages}

-----------------------------------------------------------------------------
Init == /\ registered = FALSE /\ epoch = 0 /\ oldest = 0 /\ next = 0
        /\ subscribers = {}
        /\ sending = [p \in Publishers |-> Idle]
        /\ replaying = [r \in Readers |-> <<>>]
        /\ channel = [r \in Readers |-> <<>>]
        /\ phase = [r \in Readers |-> "idle"]
        /\ born = [r \in Readers |-> 0]
        /\ start = [r \in Readers |-> 0]
        /\ cursor = [r \in Readers |-> 0]
        /\ polls = [r \in Readers |-> [slot \in Slots |-> Idle]]
        /\ received = [r \in Readers |-> {}]
        /\ fedFrom = [r \in Readers |-> 0]

\* register_stream: nothing changes when the stream is there already.
RegisterStream ==
  /\ ~registered /\ epoch < MaxEpochs
  /\ registered' = TRUE /\ epoch' = epoch + 1 /\ oldest' = 0 /\ next' = 0
  /\ UNCHANGED <<delivery, reader>>

\* close_stream: by terminal_kill or by a reader that releases the stream.
CloseStream ==
  /\ registered /\ epoch < MaxEpochs
  /\ registered' = FALSE
  /\ subscribers' = {}
  /\ UNCHANGED <<epoch, oldest, next, sending, replaying, channel, reader>>

\* The locked part of a publish: sequence, ring and a copy of the subscribers
\* (which idle thread it is makes no difference).
Publish(p) ==
  /\ registered /\ next + 2 * epoch <= MaxPackets + 1
  /\ sending[p] = Idle /\ p = CHOOSE q \in Publishers : sending[q] = Idle
  /\ next' = next + 1
  /\ oldest' \in OldestAfterWrite
  /\ sending' = [sending EXCEPT ![p] =
                   IF subscribers = {} THEN Idle
                   ELSE [kind |-> "sending", packet |-> <<epoch, next>>, to |-> subscribers]]
  /\ UNCHANGED <<registered, epoch, subscribers, replaying, channel, reader>>

\* channel.send, outside the lock, one subscriber after the other.
Send(p, r) ==
  /\ sending[p] # Idle /\ r \in sending[p].to
  /\ channel' = [channel EXCEPT ![r] = Append(@, sending[p].packet)]
  /\ sending' = [sending EXCEPT ![p] = IF @.to = {r} THEN Idle
                                       ELSE [kind |-> "sending", packet |-> @.packet,
                                             to |-> @.to \ {r}]]
  /\ UNCHANGED <<registry, subscribers, replaying, reader>>

-----------------------------------------------------------------------------
(* The reader's replay calls. *)

\* subscribeIpcStream of a stream just opened: the first replay call.
Subscribe(r, from) ==
  /\ phase[r] = "idle" /\ registered
  /\ phase' = [phase EXCEPT ![r] = "firstPoll"]
  /\ born' = [born EXCEPT ![r] = epoch]
  /\ start' = [start EXCEPT ![r] = from]
  /\ cursor' = [cursor EXCEPT ![r] = from]
  /\ polls' = [polls EXCEPT ![r][1] = Asked(from)]
  /\ UNCHANGED <<registry, delivery, received, fedFrom>>

\* The interval timer, whether or not earlier calls have been answered (the
\* slots only name the calls: the first free one is as good as another).
Tick(r, slot) ==
  /\ phase[r] = "live"
  /\ polls[r][slot] = Idle /\ \A earlier \in 1..(slot - 1) : polls[r][earlier] # Idle
  /\ polls' = [polls EXCEPT ![r][slot] = Asked(cursor[r])]
  /\ UNCHANGED <<registry, delivery, phase, born, start, cursor, received, fedFrom>>

\* replay_stream; a refused call is tried once more without its range.
Answer(r, slot) ==
  LET poll == polls[r][slot]
  IN  /\ poll.kind \in {"asked", "askedBare"}
      /\ polls' = [polls EXCEPT ![r][slot] =
                     IF ~registered
                     THEN IF poll.kind = "asked" THEN AskedBare ELSE Failed
                     ELSE IF poll.kind = "asked"
                     THEN Answered(Window(poll.from, Least(PollLimit, ReplayLimit)))
                     ELSE Answered(Window(0, ReplayLimit))]
      /\ UNCHANGED <<registry, delivery, phase, born, start, cursor, received, fedFrom>>

\* deliverOnce: a sequence number already delivered is dropped.
DeliverOnce(got, packets) ==
  got \cup {p \in packets : \A q \in got : q[2] # p[2]}

\* Mutant: the cursor moves on by the limit asked for.
CursorByLimit(c, poll) == Greatest(c, poll.lo + PollLimit)

\* The cursor after the packets of an answer.
CursorAfter(c, poll) == IF poll.lo < poll.hi THEN Greatest(c, poll.hi) ELSE c

\* The answer is handled, also after the reader was stopped.
Apply(r, slot) ==
  LET poll == polls[r][slot]
  IN  /\ poll.kind \in {"answered", "failed"}
      /\ IF poll.kind = "failed" THEN UNCHANGED <<cursor, received>>
         ELSE /\ cursor' = [cursor EXCEPT ![r] = CursorAfter(@, poll)]
              /\ received' = [received EXCEPT ![r] =
                    DeliverOnce(@, {<<poll.epoch, s>> : s \in {n \in poll.lo..poll.hi : n < poll.hi}})]
      /\ polls' = [polls EXCEPT ![r][slot] = Idle]
      /\ phase' = [phase EXCEPT ![r] = IF @ = "firstPoll" THEN "subscribe" ELSE @]
      /\ UNCHANGED <<registry, delivery, born, start, fedFrom>>

-----------------------------------------------------------------------------
(* The reader's channel. *)

\* Mutant: the packet asked for is left out.
FeedReplayAfter(from) == Window(from + 1, ReplayLimit)

\* What a subscribe call copies from the ring for a reader.
FeedReplay(from) == Window(from, ReplayLimit)

\* subscribe_stream under the lock: the replay is copied and the channel goes
\* into the map.  When the stream is not there the call is tried without the
\* replay, and then given up: the reader lives on its polls alone.
SubscribeChannel(r) ==
  /\ phase[r] \in {"subscribe", "subscribeBare"}
  /\ IF registered
     THEN /\ subscribers' = subscribers \cup {r}
          /\ LET w == FeedReplay(start[r])
             IN replaying' = [replaying EXCEPT ![r] =
                  IF phase[r] = "subscribeBare" THEN <<>>
                  ELSE [k \in 1..(Greatest(w.lo, w.hi) - w.lo) |-> <<epoch, w.lo + k - 1>>]]
          /\ fedFrom' = [fedFrom EXCEPT ![r] =
                           IF phase[r] = "subscribeBare" THEN next
                           ELSE Greatest(start[r], oldest)]
          /\ phase' = [phase EXCEPT ![r] = "replay"]
     ELSE /\ phase' = [phase EXCEPT ![r] =
                         IF @ = "subscribe" THEN "subscribeBare" ELSE "live"]
          /\ UNCHANGED <<subscribers, replaying, fedFrom>>
  /\ UNCHANGED <<registry, sending, channel, born, start, cursor, polls, received>>

\* The subscribe call sends its copy outside the lock, then returns.
SendReplay(r) ==
  /\ phase[r] = "replay"
  /\ IF replaying[r] = <<>>
     THEN /\ phase' = [phase EXCEPT ![r] = "live"]
          /\ UNCHANGED <<replaying, channel>>
     ELSE /\ channel' = [channel EXCEPT ![r] = Append(@, Head(replaying[r]))]
          /\ replaying' = [replaying EXCEPT ![r] = Tail(@)]
          /\ UNCHANGED phase
  /\ UNCHANGED <<registry, subscribers, sending, born, start, cursor, polls, received, fedFrom>>

\* The channel's callback; it does not move the cursor.
ChannelMessage(r) ==
  /\ channel[r] # <<>>
  /\ channel' = [channel EXCEPT ![r] = Tail(@)]
  /\ received' = [received EXCEPT ![r] = DeliverOnce(@, {Head(channel[r])})]
  /\ UNCHANGED <<registry, subscribers, sending, replaying, phase, born, start,
                 cursor, polls, fedFrom>>

\* The cleanup function: no more ticks; the channel is given back later.
Stop(r) ==
  /\ phase[r] = "live"
  /\ phase' = [phase EXCEPT ![r] = "stopped"]
  /\ UNCHANGED <<registry, delivery, born, start, cursor, polls, received, fedFrom>>

\* unsubscribe_stream
Unsubscribe(r) ==
  /\ phase[r] = "stopped" /\ r \in subscribers
  /\ subscribers' = subscribers \ {r}
  /\ UNCHANGED <<registry, sending, replaying, channel, reader>>

-----------------------------------------------------------------------------
Next == \/ RegisterStream \/ CloseStream
        \/ \E p \in Publishers : Publish(p) \/ \E r \in Readers : Send(p, r)
        \/ \E r \in Readers :
             \/ \E from \in StartFrom : Subscribe(r, from)
             \/ \E slot \in Slots : Tick(r, slot) \/ Answer(r, slot) \/ Apply(r, slot)
             \/ SubscribeChannel(r) \/ SendReplay(r) \/ ChannelMessage(r)
             \/ Stop(r) \/ Unsubscribe(r)

\* The timer ticks for as long as the reader lives, and replay calls are answered.
Fairness == \A r \in Readers, slot \in Slots :
              /\ WF_vars(Tick(r, slot))
              /\ WF_vars(Answer(r, slot))
              /\ WF_vars(Apply(r, slot))

Spec == Init /\ [][Next]_vars
FairSpec == Spec /\ Fairness

-----------------------------------------------------------------------------
(* Properties. *)

PollType ==
  [kind : {"idle"}] \cup [kind : {"asked"}, from : Nat] \cup [kind : {"askedBare"}]
  \cup [kind : {"failed"}]
  \cup [kind : {"answered"}, epoch : Nat, lo : Nat, hi : Nat]

SendingType ==
  [kind : {"idle"}] \cup [kind : {"sending"}, packet : Nat \X Nat, to : SUBSET Readers]

\* Every variable has its type, and the ring never holds more than max_messages.
TypeOK ==
  /\ registered \in BOOLEAN /\ epoch \in Nat
  /\ oldest \in Nat /\ next \in Nat
  /\ oldest <= next /\ next - oldest <= MaxMessages
  /\ subscribers \subseteq Readers
  /\ sending \in [Publishers -> SendingType]
  /\ replaying \in [Readers -> Seq(Nat \X Nat)]
  /\ channel \in [Readers -> Seq(Nat \X Nat)]
  /\ phase \in [Readers -> Phases]
  /\ born \in [Readers -> Nat] /\ start \in [Readers -> Nat]
  /\ cursor \in [Readers -> Nat] /\ fedFrom \in [Readers -> Nat]
  /\ polls \in [Readers -> [Slots -> PollType]]
  /\ received \in [Readers -> SUBSET (Nat \X Nat)]

\* The reader's epoch is the stream's present one.
Current(r) == phase[r] # "idle" /\ born[r] = epoch

\* Everything below a reader's cursor was given to its listener or had left
\* the ring: polls whose answers overtake each other, and live packets that
\* arrive between them, never make the cursor jump over a packet.
CursorCovers ==
  \A r \in Readers : Current(r) =>
    \A s \in start[r]..cursor[r] :
      s < cursor[r] => <<epoch, s>> \in received[r] \/ s < oldest

PacketsIn(q) == {q[k] : k \in 1..Len(q)}

\* What is on its way to a reader's listener through the channel.
Underway(r) ==
  PacketsIn(channel[r]) \cup PacketsIn(replaying[r])
  \cup {sending[p].packet : p \in {q \in Publishers : sending[q] # Idle /\ r \in sending[q].to}}

\* A subscribed channel has no hole: every packet from the first one replayed
\* to the last one published was received or is under way, although the replay
\* is copied under the lock and sent outside it while publishers send, too.
\* The ring fits into one replay (MaxMessages <= ReplayLimit).
LiveFeedComplete ==
  MaxMessages <= ReplayLimit =>
    \A r \in subscribers : Current(r) =>
      \A s \in fedFrom[r]..next :
        s < next => <<epoch, s>> \in received[r] \cup Underway(r)

Sequences == 0..(MaxPackets - 1)

\* While the stream and the reader live, a published packet is delivered or
\* evicted in the end, even when the channel could not be set up.
EventuallyDelivered ==
  \A r \in Readers, s \in Sequences :
    (phase[r] = "live" /\ Current(r) /\ registered /\ start[r] <= s /\ s < next)
      ~> (<<born[r], s>> \in received[r] \/ s < oldest \/ ~registered
          \/ ~Current(r) \/ phase[r] = "stopped")

=============================================================================
