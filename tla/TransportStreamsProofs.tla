------------------------ MODULE TransportStreamsProofs ------------------------
(* Theorems about TransportStreams, for any readers, publishers, retention and *)
(* replay limits.                                                              *)
EXTENDS TransportStreams, TLAPS

-----------------------------------------------------------------------------
(* Types.                                                                  *)

LEMMA WindowType ==
  ASSUME TypeOK, NEW from \in Nat, NEW limit \in Nat
  PROVE  /\ Window(from, limit).lo \in Nat
         /\ Window(from, limit).hi \in Nat
BY DEF Window, TypeOK, Greatest, Least

LEMMA PollTypes ==
  /\ Idle \in PollType /\ AskedBare \in PollType /\ Failed \in PollType
  /\ \A from \in Nat : Asked(from) \in PollType
  /\ \A poll \in PollType :
       /\ poll.kind \in {"idle", "asked", "askedBare", "failed", "answered"}
       /\ poll.kind = "asked" => poll.from \in Nat
       /\ poll.kind = "answered" => poll.epoch \in Nat /\ poll.lo \in Nat /\ poll.hi \in Nat
BY DEF PollType, Idle, AskedBare, Failed, Asked

LEMMA AnsweredType ==
  ASSUME TypeOK, NEW from \in Nat, NEW limit \in Nat
  PROVE  Answered(Window(from, limit)) \in PollType
BY WindowType DEF Answered, PollType, TypeOK

\* An answer's packets, one after the other, are a sequence.
LEMMA ReplayType ==
  ASSUME NEW e \in Nat, NEW lo \in Nat, NEW n \in Nat
  PROVE  [k \in 1..n |-> <<e, lo + k - 1>>] \in Seq(Nat \X Nat)
<1>1. \A k \in 1..n : <<e, lo + k - 1>> \in Nat \X Nat
  OBVIOUS
<1> QED BY <1>1

LEMMA LengthType ==
  ASSUME NEW lo \in Nat, NEW hi \in Nat PROVE Greatest(lo, hi) - lo \in Nat
BY DEF Greatest

LEMMA TypeInductive == TypeOK /\ [Next]_vars => TypeOK'
<1> SUFFICES ASSUME TypeOK, [Next]_vars PROVE TypeOK'
  OBVIOUS
<1> USE LimitAssumption, StartAssumption, BoundAssumption
<1>1. CASE RegisterStream
  BY <1>1 DEF RegisterStream, TypeOK, delivery, reader
<1>2. CASE CloseStream
  BY <1>2 DEF CloseStream, TypeOK, reader
<1>3. ASSUME NEW p \in Publishers, Publish(p) PROVE TypeOK'
  <2>1. sending' \in [Publishers -> SendingType]
    BY <1>3 DEF Publish, TypeOK, SendingType, Idle
  <2>2. /\ oldest' \in oldest..next /\ next + 1 - oldest' <= MaxMessages
        /\ next' = next + 1 /\ oldest \in Nat /\ next \in Nat
    <3>1. oldest' \in {o \in oldest..next : next + 1 - o <= MaxMessages}
      BY <1>3 DEF Publish, OldestAfterWrite
    <3> QED BY <1>3, <3>1 DEF Publish, TypeOK
  <2>3. /\ next' \in Nat /\ oldest' \in Nat /\ oldest' <= next'
        /\ next' - oldest' <= MaxMessages
    <3>1. oldest' \in Nat /\ oldest' <= next
      BY <2>2
    <3>2. next' \in Nat /\ oldest' <= next'
      BY <2>2, <3>1
    <3>3. next' - oldest' <= MaxMessages
      <4>1. MaxMessages \in Nat
        BY LimitAssumption
      <4>2. next + 1 - oldest' = (next + 1) - oldest'
        BY <2>2, <3>1
      <4> QED BY <2>2, <3>1, <4>1, <4>2
    <3> QED BY <3>1, <3>2, <3>3
  <2> QED BY <1>3, <2>1, <2>3 DEF Publish, TypeOK, reader
<1>4. ASSUME NEW p \in Publishers, NEW r \in Readers, Send(p, r) PROVE TypeOK'
  <2>1. sending[p].packet \in Nat \X Nat /\ sending[p].to \subseteq Readers
        /\ sending[p] = [kind |-> "sending", packet |-> sending[p].packet, to |-> sending[p].to]
    BY <1>4 DEF Send, TypeOK, SendingType, Idle
  <2>2. channel' \in [Readers -> Seq(Nat \X Nat)]
    BY <1>4, <2>1 DEF Send, TypeOK
  <2>3. sending' \in [Publishers -> SendingType]
    <3>1. \A to \in SUBSET Readers :
            [kind |-> "sending", packet |-> sending[p].packet, to |-> to] \in SendingType
      BY <2>1 DEF SendingType
    <3>2. Idle \in SendingType
      BY DEF Idle, SendingType
    <3> DEFINE left == IF sending[p].to = {r} THEN Idle
                       ELSE [kind |-> "sending", packet |-> sending[p].packet,
                             to |-> sending[p].to \ {r}]
    <3>3. left \in SendingType
      BY <2>1, <3>1, <3>2
    <3>4. sending' = [sending EXCEPT ![p] = left]
      BY <1>4 DEF Send
    <3> HIDE DEF left
    <3> QED BY <3>3, <3>4 DEF TypeOK
  <2> QED BY <1>4, <2>2, <2>3 DEF Send, TypeOK, registry, reader
<1>5. ASSUME NEW r \in Readers, NEW from \in StartFrom, Subscribe(r, from) PROVE TypeOK'
  <2>1. polls' \in [Readers -> [Slots -> PollType]]
    BY <1>5, PollTypes DEF Subscribe, TypeOK
  <2> QED BY <1>5, <2>1 DEF Subscribe, TypeOK, Phases, registry, delivery
<1>6. ASSUME NEW r \in Readers, NEW slot \in Slots, Tick(r, slot) PROVE TypeOK'
  <2>1. polls' \in [Readers -> [Slots -> PollType]]
    BY <1>6, PollTypes DEF Tick, TypeOK
  <2> QED BY <1>6, <2>1 DEF Tick, TypeOK, registry, delivery
<1>7. ASSUME NEW r \in Readers, NEW slot \in Slots, Answer(r, slot) PROVE TypeOK'
  <2>1. polls[r][slot] \in PollType
    BY DEF TypeOK
  <2>2. Least(PollLimit, ReplayLimit) \in Nat /\ ReplayLimit \in Nat
    BY DEF Least
  <2>3. \A from \in Nat : /\ Answered(Window(from, Least(PollLimit, ReplayLimit))) \in PollType
                          /\ Answered(Window(from, ReplayLimit)) \in PollType
    BY <2>2, AnsweredType
  <2>4. PICK poll \in PollType : polls' = [polls EXCEPT ![r][slot] = poll]
    BY <1>7, <2>1, <2>3, PollTypes DEF Answer
  <2>5. polls' \in [Readers -> [Slots -> PollType]]
    BY <2>4 DEF TypeOK
  <2> QED BY <1>7, <2>5 DEF Answer, TypeOK, registry, delivery
<1>8. ASSUME NEW r \in Readers, NEW slot \in Slots, Apply(r, slot) PROVE TypeOK'
  <2>1. polls[r][slot] \in PollType
    BY DEF TypeOK
  <2>2. polls' \in [Readers -> [Slots -> PollType]]
    BY <1>8, PollTypes DEF Apply, TypeOK
  <2>3. cursor' \in [Readers -> Nat]
    BY <1>8, <2>1, PollTypes, ZenonT(60) DEF Apply, TypeOK, CursorAfter, Greatest
  <2>4. received' \in [Readers -> SUBSET (Nat \X Nat)]
    <3>1. CASE polls[r][slot].kind = "failed"
      BY <1>8, <3>1 DEF Apply, TypeOK
    <3>2. CASE polls[r][slot].kind = "answered"
      <4> DEFINE poll == polls[r][slot]
                 got == {<<poll.epoch, s>> : s \in {n \in poll.lo..poll.hi : n < poll.hi}}
      <4>1. poll.epoch \in Nat /\ poll.lo \in Nat /\ poll.hi \in Nat
        BY <2>1, <3>2, PollTypes
      <4>2. got \in SUBSET (Nat \X Nat)
        BY <4>1
      <4>3. received' = [received EXCEPT ![r] = DeliverOnce(@, got)]
        BY <1>8, <3>2 DEF Apply
      <4> HIDE DEF got
      <4> QED BY <4>2, <4>3 DEF TypeOK, DeliverOnce
    <3> QED BY <1>8, <3>1, <3>2 DEF Apply
  <2>5. phase' \in [Readers -> Phases]
    BY <1>8 DEF Apply, TypeOK, Phases
  <2> QED BY <1>8, <2>2, <2>3, <2>4, <2>5 DEF Apply, TypeOK, registry, delivery
<1>9. ASSUME NEW r \in Readers, SubscribeChannel(r) PROVE TypeOK'
  <2> DEFINE w == FeedReplay(start[r])
  <2>1. w.lo \in Nat /\ w.hi \in Nat
    BY WindowType DEF FeedReplay, TypeOK
  <2>2. [k \in 1..(Greatest(w.lo, w.hi) - w.lo) |-> <<epoch, w.lo + k - 1>>] \in Seq(Nat \X Nat)
    BY <2>1, LengthType, ReplayType DEF TypeOK
  <2> HIDE DEF w
  <2>3. CASE registered
    <3>1. /\ subscribers' = subscribers \cup {r}
          /\ replaying' = [replaying EXCEPT ![r] =
                  IF phase[r] = "subscribeBare" THEN <<>>
                  ELSE [k \in 1..(Greatest(w.lo, w.hi) - w.lo) |-> <<epoch, w.lo + k - 1>>]]
          /\ fedFrom' = [fedFrom EXCEPT ![r] = IF phase[r] = "subscribeBare" THEN next
                                               ELSE Greatest(start[r], oldest)]
          /\ phase' = [phase EXCEPT ![r] = "replay"]
          /\ UNCHANGED <<registry, sending, channel, born, start, cursor, polls, received>>
      BY <1>9, <2>3 DEF SubscribeChannel, w
    <3>2. replaying' \in [Readers -> Seq(Nat \X Nat)]
      <4>1. <<>> \in Seq(Nat \X Nat)
        OBVIOUS
      <4> QED BY <3>1, <2>2, <4>1 DEF TypeOK
    <3>3. fedFrom' \in [Readers -> Nat]
      BY <3>1 DEF TypeOK, Greatest
    <3> QED BY <3>1, <3>2, <3>3 DEF TypeOK, registry, Phases
  <2>4. CASE ~registered
    BY <1>9, <2>4 DEF SubscribeChannel, TypeOK, registry, Phases
  <2> QED BY <2>3, <2>4
<1>10. ASSUME NEW r \in Readers, SendReplay(r) PROVE TypeOK'
  <2>1. CASE replaying[r] = <<>>
    BY <1>10, <2>1 DEF SendReplay, TypeOK, registry, Phases
  <2>2. CASE replaying[r] # <<>>
    <3>1. Head(replaying[r]) \in Nat \X Nat /\ Tail(replaying[r]) \in Seq(Nat \X Nat)
      BY <2>2 DEF TypeOK
    <3>2. /\ Append(channel[r], Head(replaying[r])) \in Seq(Nat \X Nat)
          /\ channel' = [channel EXCEPT ![r] = Append(channel[r], Head(replaying[r]))]
          /\ replaying' = [replaying EXCEPT ![r] = Tail(replaying[r])]
      BY <1>10, <2>2, <3>1 DEF SendReplay, TypeOK
    <3>3. channel' \in [Readers -> Seq(Nat \X Nat)] /\ replaying' \in [Readers -> Seq(Nat \X Nat)]
      BY <3>1, <3>2 DEF TypeOK
    <3> QED BY <1>10, <2>2, <3>3 DEF SendReplay, TypeOK, registry
  <2> QED BY <2>1, <2>2
<1>11. ASSUME NEW r \in Readers, ChannelMessage(r) PROVE TypeOK'
  <2>1. Head(channel[r]) \in Nat \X Nat /\ Tail(channel[r]) \in Seq(Nat \X Nat)
    BY <1>11 DEF ChannelMessage, TypeOK
  <2>2. channel' \in [Readers -> Seq(Nat \X Nat)]
    BY <1>11, <2>1 DEF ChannelMessage, TypeOK
  <2>3. received' \in [Readers -> SUBSET (Nat \X Nat)]
    <3> DEFINE got == {Head(channel[r])}
    <3>1. got \in SUBSET (Nat \X Nat)
      BY <2>1
    <3>2. received' = [received EXCEPT ![r] = DeliverOnce(@, got)]
      BY <1>11 DEF ChannelMessage
    <3> HIDE DEF got
    <3> QED BY <3>1, <3>2 DEF TypeOK, DeliverOnce
  <2> QED BY <1>11, <2>2, <2>3 DEF ChannelMessage, TypeOK, registry
<1>12. ASSUME NEW r \in Readers, Stop(r) \/ Unsubscribe(r) PROVE TypeOK'
  BY <1>12 DEF Stop, Unsubscribe, TypeOK, Phases, registry, delivery, reader
<1>13. CASE UNCHANGED vars
  BY <1>13 DEF vars, registry, delivery, reader, TypeOK
<1> QED
  BY <1>1, <1>2, <1>3, <1>4, <1>5, <1>6, <1>7, <1>8, <1>9, <1>10, <1>11, <1>12, <1>13 DEF Next

LEMMA TypeInit == Init => TypeOK
<1> SUFFICES ASSUME Init PROVE TypeOK
  OBVIOUS
<1>1. <<>> \in Seq(Nat \X Nat)
  OBVIOUS
<1>2. polls \in [Readers -> [Slots -> PollType]]
  BY PollTypes DEF Init
<1>3. sending \in [Publishers -> SendingType]
  BY DEF Init, SendingType, Idle
<1>4. /\ replaying \in [Readers -> Seq(Nat \X Nat)] /\ channel \in [Readers -> Seq(Nat \X Nat)]
      /\ received \in [Readers -> SUBSET (Nat \X Nat)]
  BY <1>1 DEF Init
<1>5. /\ phase \in [Readers -> Phases] /\ born \in [Readers -> Nat] /\ start \in [Readers -> Nat]
      /\ cursor \in [Readers -> Nat] /\ fedFrom \in [Readers -> Nat]
  BY DEF Init, Phases
<1>6. epoch \in Nat /\ oldest \in Nat /\ next \in Nat /\ oldest <= next /\ subscribers \subseteq Readers
  BY DEF Init
<1>7. next - oldest <= MaxMessages
  BY LimitAssumption DEF Init
<1>8. registered \in BOOLEAN
  BY DEF Init
<1> QED BY <1>2, <1>3, <1>4, <1>5, <1>6, <1>7, <1>8 DEF TypeOK

\* The ring never holds more than max_messages packets, and all is well typed.
THEOREM TypeCorrect == Spec => []TypeOK
BY TypeInit, TypeInductive, PTL DEF Spec

-----------------------------------------------------------------------------
(* What is on its way to a reader.                                         *)

LEMMA PacketsInEmpty == PacketsIn(<<>>) = {}
BY DEF PacketsIn

LEMMA PacketsInAppend ==
  ASSUME NEW q \in Seq(Nat \X Nat), NEW x \in Nat \X Nat
  PROVE  PacketsIn(Append(q, x)) = PacketsIn(q) \cup {x}
<1>1. /\ Len(Append(q, x)) = Len(q) + 1 /\ Len(q) \in Nat
      /\ Append(q, x)[Len(q) + 1] = x
      /\ \A k \in 1..Len(q) : Append(q, x)[k] = q[k]
  OBVIOUS
<1>2. 1..(Len(q) + 1) = 1..Len(q) \cup {Len(q) + 1}
  BY <1>1
<1> QED BY <1>1, <1>2 DEF PacketsIn

LEMMA PacketsInHead ==
  ASSUME NEW q \in Seq(Nat \X Nat), q # <<>>
  PROVE  PacketsIn(q) = {Head(q)} \cup PacketsIn(Tail(q))
<1>1. /\ Len(q) \in Nat /\ Len(q) > 0 /\ Len(Tail(q)) = Len(q) - 1
      /\ Head(q) = q[1]
      /\ \A k \in 1..(Len(q) - 1) : Tail(q)[k] = q[k + 1]
  OBVIOUS
<1>2. ASSUME NEW x \in PacketsIn(q) PROVE x \in {Head(q)} \cup PacketsIn(Tail(q))
  <2>1. PICK k \in 1..Len(q) : x = q[k]
    BY <1>2 DEF PacketsIn
  <2>2. CASE k = 1
    BY <1>1, <2>1, <2>2
  <2>3. CASE k # 1
    <3>1. k - 1 \in 1..Len(Tail(q)) /\ Tail(q)[k - 1] = x
      BY <1>1, <2>1, <2>3
    <3> QED BY <3>1 DEF PacketsIn
  <2> QED BY <2>2, <2>3
<1>3. Head(q) \in PacketsIn(q)
  BY <1>1 DEF PacketsIn
<1>4. ASSUME NEW x \in PacketsIn(Tail(q)) PROVE x \in PacketsIn(q)
  <2>1. PICK k \in 1..(Len(q) - 1) : x = Tail(q)[k]
    BY <1>1, <1>4 DEF PacketsIn
  <2>2. k + 1 \in 1..Len(q) /\ x = q[k + 1]
    BY <1>1, <2>1
  <2> QED BY <2>2 DEF PacketsIn
<1> QED BY <1>2, <1>3, <1>4

LEMMA PublishUnderway ==
  ASSUME TypeOK, NEW p \in Publishers, Publish(p), NEW r \in Readers
  PROVE  Underway(r)' = Underway(r) \cup IF r \in subscribers THEN {<<epoch, next>>} ELSE {}
<1> DEFINE sent == [kind |-> "sending", packet |-> <<epoch, next>>, to |-> subscribers]
           Outgoing == {sending[q].packet : q \in {q \in Publishers : sending[q] # Idle /\ r \in sending[q].to}}
<1>1. /\ sending' = [sending EXCEPT ![p] = IF subscribers = {} THEN Idle ELSE sent]
      /\ sending[p] = Idle /\ channel' = channel /\ replaying' = replaying
      /\ DOMAIN sending = Publishers
  BY DEF Publish, TypeOK
<1>2. sent # Idle /\ sent.packet = <<epoch, next>> /\ sent.to = subscribers
  BY DEF Idle
<1> HIDE DEF sent
<1>3. Outgoing' = Outgoing \cup IF r \in subscribers THEN {<<epoch, next>>} ELSE {}
  <2>1. CASE r \in subscribers
    <3>1. \A q \in Publishers : sending'[q] = IF q = p THEN sent ELSE sending[q]
      BY <1>1, <2>1
    <3> QED BY <1>1, <1>2, <2>1, <3>1
  <2>2. CASE r \notin subscribers
    <3>1. sending'[p] # Idle => r \notin sending'[p].to
      BY <1>1, <1>2, <2>2
    <3>2. \A q \in Publishers \ {p} : sending'[q] = sending[q]
      BY <1>1
    <3> QED BY <1>1, <2>2, <3>1, <3>2
  <2> QED BY <2>1, <2>2
<1> QED BY <1>1, <1>3 DEF Underway

LEMMA SendUnderway ==
  ASSUME TypeOK, NEW p \in Publishers, NEW to \in Readers, Send(p, to), NEW r \in Readers
  PROVE  Underway(r)' = Underway(r)
<1> DEFINE left == [kind |-> "sending", packet |-> sending[p].packet, to |-> sending[p].to \ {to}]
           Outgoing == {sending[q].packet : q \in {q \in Publishers : sending[q] # Idle /\ r \in sending[q].to}}
<1>1. /\ sending' = [sending EXCEPT ![p] = IF sending[p].to = {to} THEN Idle ELSE left]
      /\ channel' = [channel EXCEPT ![to] = Append(channel[to], sending[p].packet)]
      /\ sending[p] # Idle /\ to \in sending[p].to /\ replaying' = replaying
      /\ DOMAIN sending = Publishers
  BY DEF Send, TypeOK
<1>2. left # Idle /\ left.packet = sending[p].packet /\ left.to = sending[p].to \ {to}
  BY DEF Idle
<1>3. sending[p].packet \in Nat \X Nat
  BY <1>1 DEF TypeOK, SendingType, Idle
<1> HIDE DEF left
<1>4. \A q \in Publishers \ {p} : sending'[q] = sending[q]
  BY <1>1
<1>5. CASE r = to
  <2>1. PacketsIn(channel'[r]) = PacketsIn(channel[r]) \cup {sending[p].packet}
    <3>1. channel'[r] = Append(channel[r], sending[p].packet) /\ channel[r] \in Seq(Nat \X Nat)
      BY <1>1, <1>5 DEF TypeOK
    <3> DEFINE x == sending[p].packet
    <3>2. x \in Nat \X Nat /\ channel'[r] = Append(channel[r], x)
      BY <1>3, <3>1
    <3> HIDE DEF x, Outgoing
    <3>3. PacketsIn(channel'[r]) = PacketsIn(channel[r]) \cup {x}
      BY <3>1, <3>2, PacketsInAppend
    <3> QED BY <3>3 DEF x
  <2>2. sending'[p] # Idle => r \notin sending'[p].to
    BY <1>1, <1>2, <1>5
  <2>3. Outgoing = Outgoing' \cup {sending[p].packet}
    BY <1>1, <1>4, <1>5, <2>2
  <2> QED BY <1>1, <2>1, <2>3 DEF Underway
<1>6. CASE r # to
  <2>1. channel'[r] = channel[r]
    BY <1>1, <1>6 DEF TypeOK
  <2>2. /\ sending'[p] # Idle /\ r \in sending'[p].to <=> r \in sending[p].to
        /\ r \in sending[p].to => sending'[p].packet = sending[p].packet
    BY <1>1, <1>2, <1>6
  <2>3. Outgoing' = Outgoing
    BY <1>1, <1>4, <2>2
  <2> QED BY <1>1, <2>1, <2>3 DEF Underway
<1> QED BY <1>5, <1>6

LEMMA SendReplayUnderway ==
  ASSUME TypeOK, NEW to \in Readers, SendReplay(to), NEW r \in Readers
  PROVE  Underway(r)' = Underway(r)
<1>1. sending' = sending
  BY DEF SendReplay
<1>2. CASE replaying[to] = <<>> \/ r # to
  <2>1. channel'[r] = channel[r] /\ replaying'[r] = replaying[r]
    BY <1>2 DEF SendReplay, TypeOK
  <2> QED BY <1>1, <2>1 DEF Underway
<1>3. CASE replaying[to] # <<>> /\ r = to
  <2>1. /\ channel'[r] = Append(channel[r], Head(replaying[r])) /\ replaying'[r] = Tail(replaying[r])
        /\ channel[r] \in Seq(Nat \X Nat) /\ replaying[r] \in Seq(Nat \X Nat)
        /\ Head(replaying[r]) \in Nat \X Nat
    BY <1>3 DEF SendReplay, TypeOK
  <2>2. PacketsIn(channel'[r]) = PacketsIn(channel[r]) \cup {Head(replaying[r])}
    BY <2>1, PacketsInAppend
  <2>3. PacketsIn(replaying[r]) = {Head(replaying[r])} \cup PacketsIn(replaying'[r])
    BY <1>3, <2>1, PacketsInHead
  <2> QED BY <1>1, <2>2, <2>3 DEF Underway
<1> QED BY <1>2, <1>3

LEMMA ChannelUnderway ==
  ASSUME TypeOK, NEW to \in Readers, ChannelMessage(to), NEW r \in Readers
  PROVE  Underway(r) = Underway(r)' \cup IF r = to THEN {Head(channel[r])} ELSE {}
<1>1. sending' = sending /\ replaying' = replaying
  BY DEF ChannelMessage
<1>2. CASE r # to
  <2>1. channel'[r] = channel[r]
    BY <1>2 DEF ChannelMessage, TypeOK
  <2> QED BY <1>1, <1>2, <2>1 DEF Underway
<1>3. CASE r = to
  <2>1. channel'[r] = Tail(channel[r]) /\ channel[r] # <<>> /\ channel[r] \in Seq(Nat \X Nat)
    BY <1>3 DEF ChannelMessage, TypeOK
  <2>2. PacketsIn(channel[r]) = {Head(channel[r])} \cup PacketsIn(channel'[r])
    BY <2>1, PacketsInHead
  <2> QED BY <1>1, <1>3, <2>2 DEF Underway
<1> QED BY <1>2, <1>3

-----------------------------------------------------------------------------
(* A reader meets packets and answers of the epoch it started in only, and   *)
(* nothing is on its way to one that has not started.                       *)

Untouched(r) == /\ received[r] = {} /\ Underway(r) = {} /\ r \notin subscribers
                /\ \A slot \in Slots : polls[r][slot] = Idle

OneEpoch(r) == /\ \A packet \in received[r] \cup Underway(r) : packet[1] = epoch
               /\ \A slot \in Slots :
                    polls[r][slot].kind = "answered" => polls[r][slot].epoch = epoch

EraOf(r) == /\ born[r] <= epoch
            /\ phase[r] = "idle" => Untouched(r)
            /\ Current(r) => OneEpoch(r)

Eras == \A r \in Readers : EraOf(r)

LEMMA ErasInit == Init => Eras
<1> SUFFICES ASSUME Init, NEW r \in Readers PROVE EraOf(r)
  BY DEF Eras
<1>1. Underway(r) = {}
  BY PacketsInEmpty DEF Init, Underway
<1> QED BY <1>1 DEF Init, EraOf, Untouched, Current

\* A step that leaves a reader, and what is on its way to it, as they were.
LEMMA EraFrame ==
  ASSUME NEW r \in Readers, EraOf(r), epoch' = epoch,
         phase'[r] = "idle" <=> phase[r] = "idle", born'[r] = born[r],
         polls'[r] = polls[r], received'[r] = received[r],
         Underway(r)' = Underway(r), r \in subscribers' => r \in subscribers
  PROVE  EraOf(r)'
BY DEF EraOf, Untouched, OneEpoch, Current

LEMMA DeliverOnceOneEpoch ==
  ASSUME NEW e, NEW got, NEW packets,
         \A packet \in got \cup packets : packet[1] = e
  PROVE  /\ \A packet \in DeliverOnce(got, packets) : packet[1] = e
         /\ got \subseteq DeliverOnce(got, packets)
BY DEF DeliverOnce

\* A packet of the epoch is not lost when its sequence number is dropped.
LEMMA DeliverOnceKeeps ==
  ASSUME NEW e \in Nat, NEW got \in SUBSET (Nat \X Nat), NEW packets \in SUBSET (Nat \X Nat),
         \A packet \in got \cup packets : packet[1] = e
  PROVE  packets \subseteq DeliverOnce(got, packets)
<1> SUFFICES ASSUME NEW x \in packets PROVE x \in DeliverOnce(got, packets)
  OBVIOUS
<1>1. CASE \E q \in got : q[2] = x[2]
  <2>1. PICK q \in got : q[2] = x[2]
    BY <1>1
  <2>2. q \in Nat \X Nat /\ x \in Nat \X Nat /\ q[1] = e /\ x[1] = e
    BY <2>1
  <2>3. q = x
    BY <2>1, <2>2
  <2> QED BY <2>1, <2>3 DEF DeliverOnce
<1>2. CASE \A q \in got : q[2] # x[2]
  BY <1>2 DEF DeliverOnce
<1> QED BY <1>1, <1>2

LEMMA ErasInductive == TypeOK /\ Eras /\ [Next]_vars => Eras'
<1> SUFFICES ASSUME TypeOK, Eras, [Next]_vars, NEW r \in Readers PROVE EraOf(r)'
  BY DEF Eras
<1>0. EraOf(r) /\ epoch \in Nat /\ born[r] \in Nat
  BY DEF Eras, TypeOK
<1>1. CASE RegisterStream
  <2>1. epoch' = epoch + 1 /\ born'[r] = born[r] /\ phase'[r] = phase[r]
    BY <1>1 DEF RegisterStream, reader
  <2>2. Untouched(r) => Untouched(r)'
    BY <1>1 DEF RegisterStream, reader, delivery, Untouched, Underway
  <2> QED BY <1>0, <2>1, <2>2 DEF EraOf, Current
<1>2. CASE CloseStream
  <2>1. Underway(r)' = Underway(r)
    BY <1>2 DEF CloseStream, Underway
  <2> QED BY <1>0, <1>2, <2>1, EraFrame DEF CloseStream, reader
<1>3. ASSUME NEW p \in Publishers, Publish(p) PROVE EraOf(r)'
  <2>1. /\ epoch' = epoch /\ subscribers' = subscribers
        /\ phase' = phase /\ born' = born /\ polls' = polls /\ received' = received
    BY <1>3 DEF Publish, reader
  <2>2. Underway(r)' = Underway(r) \cup IF r \in subscribers THEN {<<epoch, next>>} ELSE {}
    BY <1>3, PublishUnderway
  <2> QED BY <1>0, <2>1, <2>2 DEF EraOf, Untouched, OneEpoch, Current
<1>4. ASSUME NEW p \in Publishers, NEW to \in Readers, Send(p, to) PROVE EraOf(r)'
  <2>1. Underway(r)' = Underway(r)
    BY <1>4, SendUnderway
  <2> QED BY <1>0, <1>4, <2>1, EraFrame DEF Send, registry, reader
<1>5. ASSUME NEW new \in Readers, NEW from \in StartFrom, Subscribe(new, from) PROVE EraOf(r)'
  <2>1. Underway(r)' = Underway(r)
    BY <1>5 DEF Subscribe, delivery, Underway
  <2>2. CASE r # new
    BY <1>0, <1>5, <2>1, <2>2, EraFrame DEF Subscribe, TypeOK, registry, delivery
  <2>3. CASE r = new
    <3>1. /\ phase[r] = "idle" /\ phase'[r] = "firstPoll" /\ born'[r] = epoch /\ epoch' = epoch
          /\ received' = received
          /\ \A slot \in Slots : polls'[r][slot] = IF slot = 1 THEN Asked(from) ELSE polls[r][slot]
      BY <1>5, <2>3 DEF Subscribe, TypeOK, registry
    <3>2. Untouched(r)
      BY <1>0, <3>1 DEF EraOf
    <3>3. \A slot \in Slots : polls'[r][slot].kind # "answered"
      BY <3>1, <3>2 DEF Untouched, Asked, Idle
    <3> QED BY <1>0, <2>1, <3>1, <3>2, <3>3 DEF EraOf, Untouched, OneEpoch
  <2> QED BY <2>2, <2>3
<1>6. ASSUME NEW to \in Readers, NEW slot \in Slots, Tick(to, slot) PROVE EraOf(r)'
  <2>1. Underway(r)' = Underway(r)
    BY <1>6 DEF Tick, delivery, Underway
  <2>2. CASE r # to
    BY <1>0, <1>6, <2>1, <2>2, EraFrame DEF Tick, TypeOK, registry, delivery
  <2>3. CASE r = to
    <3>1. /\ phase'[r] = "live" /\ phase[r] = "live" /\ born' = born /\ epoch' = epoch /\ received' = received
          /\ \A k \in Slots : polls'[r][k] = IF k = slot THEN Asked(cursor[r]) ELSE polls[r][k]
      BY <1>6, <2>3 DEF Tick, TypeOK, registry
    <3>2. \A k \in Slots : polls'[r][k].kind = "answered" => polls'[r][k] = polls[r][k]
      BY <3>1 DEF Asked
    <3> QED BY <1>0, <2>1, <3>1, <3>2 DEF EraOf, OneEpoch, Current
  <2> QED BY <2>2, <2>3
<1>7. ASSUME NEW to \in Readers, NEW slot \in Slots, Answer(to, slot) PROVE EraOf(r)'
  <2>1. Underway(r)' = Underway(r)
    BY <1>7 DEF Answer, delivery, Underway
  <2>2. CASE r # to
    BY <1>0, <1>7, <2>1, <2>2, EraFrame DEF Answer, TypeOK, registry, delivery
  <2>3. CASE r = to
    <3>1. /\ phase' = phase /\ born' = born /\ epoch' = epoch /\ received' = received
          /\ polls[r][slot].kind \in {"asked", "askedBare"}
          /\ \A k \in Slots \ {slot} : polls'[r][k] = polls[r][k]
      BY <1>7, <2>3 DEF Answer, TypeOK, registry
    <3>2. polls'[r][slot].kind = "answered" => polls'[r][slot].epoch = epoch
      BY <1>7, <2>3 DEF Answer, TypeOK, Answered, AskedBare, Failed
    <3>3. phase[r] # "idle"
      BY <1>0, <3>1 DEF EraOf, Untouched, Idle
    <3> QED BY <1>0, <2>1, <3>1, <3>2, <3>3 DEF EraOf, OneEpoch, Current
  <2> QED BY <2>2, <2>3
<1>8. ASSUME NEW to \in Readers, NEW slot \in Slots, Apply(to, slot) PROVE EraOf(r)'
  <2>1. Underway(r)' = Underway(r)
    BY <1>8 DEF Apply, delivery, Underway
  <2>2. CASE r # to
    BY <1>0, <1>8, <2>1, <2>2, EraFrame DEF Apply, TypeOK, registry, delivery
  <2>3. CASE r = to
    <3> DEFINE poll == polls[r][slot]
               got == {<<poll.epoch, s>> : s \in {n \in poll.lo..poll.hi : n < poll.hi}}
    <3>1. /\ born' = born /\ epoch' = epoch /\ poll.kind \in {"answered", "failed"}
          /\ phase'[r] = IF phase[r] = "firstPoll" THEN "subscribe" ELSE phase[r]
          /\ \A k \in Slots : polls'[r][k] = IF k = slot THEN Idle ELSE polls[r][k]
          /\ received'[r] = IF poll.kind = "failed" THEN received[r] ELSE DeliverOnce(received[r], got)
      BY <1>8, <2>3 DEF Apply, TypeOK, registry
    <3>2. phase[r] # "idle"
      BY <1>0, <3>1 DEF EraOf, Untouched, Idle
    <3>3. Idle.kind # "answered"
      BY DEF Idle
    <3>4. ASSUME Current(r) PROVE \A packet \in received'[r] : packet[1] = epoch
      <4>1. OneEpoch(r)
        BY <1>0, <3>4 DEF EraOf
      <4>2. CASE poll.kind = "failed"
        BY <3>1, <4>1, <4>2 DEF OneEpoch
      <4>3. CASE poll.kind = "answered"
        <5>1. \A packet \in received[r] \cup got : packet[1] = epoch
          BY <4>1, <4>3 DEF OneEpoch
        <5> HIDE DEF got
        <5>2. \A packet \in DeliverOnce(received[r], got) : packet[1] = epoch
          BY <5>1, DeliverOnceOneEpoch
        <5> QED BY <3>1, <4>3, <5>2
      <4> QED BY <3>1, <4>2, <4>3
    <3> HIDE DEF got
    <3> QED BY <1>0, <2>1, <3>1, <3>2, <3>3, <3>4 DEF EraOf, OneEpoch, Current
  <2> QED BY <2>2, <2>3
<1>9. ASSUME NEW to \in Readers, SubscribeChannel(to) PROVE EraOf(r)'
  <2>1. CASE r # to
    <3>0. replaying'[r] = replaying[r] /\ channel' = channel /\ sending' = sending
      BY <1>9, <2>1 DEF SubscribeChannel, TypeOK
    <3>1. Underway(r)' = Underway(r)
      BY <3>0 DEF Underway
    <3> QED BY <1>0, <1>9, <2>1, <3>1, EraFrame DEF SubscribeChannel, TypeOK, registry
  <2>2. CASE r = to
    <3>1. /\ phase[r] # "idle" /\ phase'[r] # "idle" /\ born' = born /\ epoch' = epoch
          /\ polls' = polls /\ received' = received /\ sending' = sending /\ channel' = channel
      BY <1>9, <2>2 DEF SubscribeChannel, TypeOK, registry
    <3>2. \A packet \in PacketsIn(replaying'[r]) :
            packet[1] = epoch \/ packet \in PacketsIn(replaying[r])
      <4> DEFINE w == FeedReplay(start[r])
                 copy == [k \in 1..(Greatest(w.lo, w.hi) - w.lo) |-> <<epoch, w.lo + k - 1>>]
      <4>1. replaying'[r] \in {replaying[r], <<>>, copy}
        BY <1>9, <2>2 DEF SubscribeChannel, TypeOK
      <4>2. Greatest(w.lo, w.hi) - w.lo \in Nat
        BY WindowType, LengthType, LimitAssumption DEF FeedReplay, TypeOK
      <4>3. \A packet \in PacketsIn(copy) : packet[1] = epoch
        <5> DEFINE n == Greatest(w.lo, w.hi) - w.lo
        <5>1. Len(copy) = n /\ \A k \in 1..n : copy[k][1] = epoch
          BY <4>2
        <5> HIDE DEF copy, n
        <5> QED BY <5>1 DEF PacketsIn
      <4> HIDE DEF copy
      <4> QED BY <4>1, <4>3, PacketsInEmpty
    <3>3. \A packet \in Underway(r)' : packet[1] = epoch \/ packet \in Underway(r)
      BY <3>1, <3>2 DEF Underway
    <3> QED BY <1>0, <3>1, <3>3 DEF EraOf, OneEpoch, Current
  <2> QED BY <2>1, <2>2
<1>10. ASSUME NEW to \in Readers, SendReplay(to) PROVE EraOf(r)'
  <2>1. Underway(r)' = Underway(r)
    BY <1>10, SendReplayUnderway
  <2>2. phase'[r] = "idle" <=> phase[r] = "idle"
    BY <1>10 DEF SendReplay, TypeOK
  <2> QED BY <1>0, <1>10, <2>1, <2>2, EraFrame DEF SendReplay, registry
<1>11. ASSUME NEW to \in Readers, ChannelMessage(to) PROVE EraOf(r)'
  <2>1. Underway(r) = Underway(r)' \cup IF r = to THEN {Head(channel[r])} ELSE {}
    BY <1>11, ChannelUnderway
  <2>2. /\ phase' = phase /\ born' = born /\ epoch' = epoch /\ polls' = polls
        /\ subscribers' = subscribers
        /\ received'[r] = IF r = to THEN DeliverOnce(received[r], {Head(channel[r])}) ELSE received[r]
    BY <1>11 DEF ChannelMessage, TypeOK, registry
  <2>3. CASE r # to
    BY <1>0, <2>1, <2>2, <2>3, EraFrame
  <2>4. CASE r = to
    <3>1. phase[r] # "idle"
      BY <1>0, <2>1, <2>4 DEF EraOf, Untouched
    <3>2. ASSUME Current(r) PROVE \A packet \in received'[r] : packet[1] = epoch
      <4>1. \A packet \in received[r] \cup {Head(channel[r])} : packet[1] = epoch
        BY <1>0, <2>1, <2>4, <3>2 DEF EraOf, OneEpoch
      <4>2. \A packet \in DeliverOnce(received[r], {Head(channel[r])}) : packet[1] = epoch
        BY <4>1, DeliverOnceOneEpoch
      <4> QED BY <2>2, <2>4, <4>2
    <3> QED BY <1>0, <2>1, <2>2, <2>4, <3>1, <3>2 DEF EraOf, OneEpoch, Current
  <2> QED BY <2>3, <2>4
<1>12. ASSUME NEW to \in Readers, Stop(to) \/ Unsubscribe(to) PROVE EraOf(r)'
  <2>1. Underway(r)' = Underway(r)
    BY <1>12 DEF Stop, Unsubscribe, delivery, Underway
  <2>2. phase'[r] = "idle" <=> phase[r] = "idle"
    BY <1>12 DEF Stop, Unsubscribe, TypeOK, reader
  <2> QED BY <1>0, <1>12, <2>1, <2>2, EraFrame DEF Stop, Unsubscribe, registry, delivery, reader
<1>13. CASE UNCHANGED vars
  <2>1. Underway(r)' = Underway(r)
    BY <1>13 DEF vars, delivery, Underway
  <2> QED BY <1>0, <1>13, <2>1, EraFrame DEF vars, registry, delivery, reader
<1> QED
  BY <1>1, <1>2, <1>3, <1>4, <1>5, <1>6, <1>7, <1>8, <1>9, <1>10, <1>11, <1>12, <1>13 DEF Next

-----------------------------------------------------------------------------
(* The cursor.  A replay call is asked from a sequence everything below      *)
(* which is covered, and its answer starts where covered packets end.       *)

Covered(r, s) == <<epoch, s>> \in received[r] \/ s < oldest

PollCovers(r, poll) ==
  /\ poll.kind = "asked" => poll.from <= cursor[r]
  /\ poll.kind = "answered" =>
       \A s \in Nat : start[r] <= s /\ s < poll.lo => Covered(r, s)

CursorOf(r) ==
  Current(r) => /\ \A s \in Nat : start[r] <= s /\ s < cursor[r] => Covered(r, s)
                /\ \A slot \in Slots : PollCovers(r, polls[r][slot])

Cursors == \A r \in Readers : CursorOf(r)

LEMMA CursorsImply == TypeOK /\ Cursors => CursorCovers
<1> SUFFICES ASSUME TypeOK, Cursors, NEW r \in Readers, Current(r),
                    NEW s \in start[r]..cursor[r], s < cursor[r]
             PROVE  <<epoch, s>> \in received[r] \/ s < oldest
  BY DEF CursorCovers
<1>1. s \in Nat /\ start[r] <= s
  BY DEF TypeOK
<1> QED BY <1>1 DEF Cursors, CursorOf, Covered

\* A step that leaves a reader's cursor and calls as they were and takes nothing
\* from its listener.
LEMMA CursorFrame ==
  ASSUME TypeOK, NEW r \in Readers, CursorOf(r), epoch' = epoch, oldest <= oldest', oldest' \in Nat,
         phase'[r] = "idle" => phase[r] = "idle", phase[r] = "idle" => phase'[r] = "idle",
         born'[r] = born[r], start'[r] = start[r], cursor'[r] = cursor[r],
         polls'[r] = polls[r], received[r] \subseteq received'[r]
  PROVE  CursorOf(r)'
<1>1. \A s \in Nat : Covered(r, s) => Covered(r, s)'
  BY DEF Covered, TypeOK
<1>2. \A slot \in Slots : PollCovers(r, polls[r][slot]) => PollCovers(r, polls[r][slot])'
  BY <1>1 DEF PollCovers
<1>3. Current(r)' => Current(r)
  BY DEF Current
<1> QED BY <1>1, <1>2, <1>3 DEF CursorOf

LEMMA PublishOldest ==
  ASSUME TypeOK, NEW p \in Publishers, Publish(p)
  PROVE  oldest' \in Nat /\ oldest <= oldest'
<1>1. oldest' \in {o \in oldest..next : next + 1 - o <= MaxMessages}
  BY DEF Publish, OldestAfterWrite
<1> QED BY <1>1 DEF TypeOK

LEMMA CursorsInductive == TypeOK /\ Eras /\ Cursors /\ [Next]_vars => Cursors'
<1> SUFFICES ASSUME TypeOK, Eras, Cursors, [Next]_vars, NEW r \in Readers PROVE CursorOf(r)'
  BY DEF Cursors
<1>0. /\ EraOf(r) /\ CursorOf(r) /\ epoch \in Nat /\ born[r] \in Nat /\ oldest \in Nat
      /\ oldest <= oldest /\ received[r] \in SUBSET (Nat \X Nat)
      /\ cursor[r] \in Nat /\ start[r] \in Nat
  BY DEF Eras, Cursors, TypeOK
<1>1. CASE RegisterStream
  <2>1. epoch' = epoch + 1 /\ born'[r] = born[r] /\ phase'[r] = phase[r]
    BY <1>1 DEF RegisterStream, reader
  <2> QED BY <1>0, <2>1 DEF EraOf, CursorOf, Current
<1>2. CASE CloseStream
  BY <1>0, <1>2, CursorFrame DEF CloseStream, reader
<1>3. ASSUME NEW p \in Publishers, Publish(p) PROVE CursorOf(r)'
  <2>1. oldest' \in Nat /\ oldest <= oldest'
    BY <1>3, PublishOldest
  <2> QED BY <1>0, <1>3, <2>1, CursorFrame DEF Publish, reader
<1>4. ASSUME NEW p \in Publishers, NEW to \in Readers, Send(p, to) PROVE CursorOf(r)'
  BY <1>0, <1>4, CursorFrame DEF Send, registry, reader
<1>5. ASSUME NEW new \in Readers, NEW from \in StartFrom, Subscribe(new, from) PROVE CursorOf(r)'
  <2>1. CASE r # new
    BY <1>0, <1>5, <2>1, CursorFrame DEF Subscribe, TypeOK, registry
  <2>2. CASE r = new
    <3>1. /\ phase[r] = "idle" /\ start'[r] = from /\ cursor'[r] = from /\ from \in Nat
          /\ \A slot \in Slots : polls'[r][slot] = IF slot = 1 THEN Asked(from) ELSE polls[r][slot]
      BY <1>5, <2>2, StartAssumption DEF Subscribe, TypeOK
    <3>2. Untouched(r)
      BY <1>0, <3>1 DEF EraOf
    <3>3. \A slot \in Slots : polls'[r][slot] \in {Asked(from), Idle}
      BY <3>1, <3>2 DEF Untouched
    <3>4. \A slot \in Slots : PollCovers(r, polls[r][slot])'
      BY <3>1, <3>3 DEF PollCovers, Asked, Idle
    <3>5. \A s \in Nat : ~(start'[r] <= s /\ s < cursor'[r])
      BY <3>1
    <3> QED BY <3>4, <3>5 DEF CursorOf
  <2> QED BY <2>1, <2>2
<1>6. ASSUME NEW to \in Readers, NEW slot \in Slots, Tick(to, slot) PROVE CursorOf(r)'
  <2>1. CASE r # to
    BY <1>0, <1>6, <2>1, CursorFrame DEF Tick, TypeOK, registry
  <2>2. CASE r = to
    <3>1. /\ phase' = phase /\ born' = born /\ start' = start /\ cursor' = cursor
          /\ epoch' = epoch /\ oldest' = oldest /\ received' = received
          /\ \A k \in Slots : polls'[r][k] = IF k = slot THEN Asked(cursor[r]) ELSE polls[r][k]
      BY <1>6, <2>2 DEF Tick, TypeOK, registry
    <3>2. PollCovers(r, Asked(cursor[r]))
      BY <1>0 DEF PollCovers, Asked
    <3>3. Current(r) => \A k \in Slots : PollCovers(r, polls'[r][k])
      BY <1>0, <3>1, <3>2 DEF CursorOf
    <3> QED BY <1>0, <3>1, <3>3 DEF CursorOf, PollCovers, Covered, Current
  <2> QED BY <2>1, <2>2
<1>7. ASSUME NEW to \in Readers, NEW slot \in Slots, Answer(to, slot) PROVE CursorOf(r)'
  <2>1. CASE r # to
    BY <1>0, <1>7, <2>1, CursorFrame DEF Answer, TypeOK, registry
  <2>2. CASE r = to
    <3> DEFINE poll == polls[r][slot]
    <3>1. /\ phase' = phase /\ born' = born /\ start' = start /\ cursor' = cursor
          /\ epoch' = epoch /\ oldest' = oldest /\ received' = received
          /\ poll.kind \in {"asked", "askedBare"}
          /\ polls'[r][slot] \in {AskedBare, Failed,
                 Answered(Window(poll.from, Least(PollLimit, ReplayLimit))), Answered(Window(0, ReplayLimit))}
          /\ poll.kind = "askedBare" =>
               polls'[r][slot] \in {Failed, Answered(Window(0, ReplayLimit))}
          /\ poll.kind = "asked" =>
               polls'[r][slot] \in {AskedBare, Answered(Window(poll.from, Least(PollLimit, ReplayLimit)))}
          /\ \A k \in Slots \ {slot} : polls'[r][k] = polls[r][k]
      BY <1>7, <2>2 DEF Answer, TypeOK, registry
    <3>2. poll \in PollType
      BY DEF TypeOK
    <3>3. PollCovers(r, AskedBare) /\ PollCovers(r, Failed)
      BY DEF PollCovers, AskedBare, Failed
    <3>4. ASSUME Current(r), NEW from \in Nat, from <= cursor[r], NEW limit
          PROVE  PollCovers(r, Answered(Window(from, limit)))
      <4>1. /\ Answered(Window(from, limit)).kind = "answered"
            /\ Answered(Window(from, limit)).lo = Greatest(from, oldest)
        BY DEF Answered, Window
      <4>2. \A s \in Nat : start[r] <= s /\ s < Greatest(from, oldest) => Covered(r, s)
        BY <1>0, <3>4 DEF Greatest, CursorOf, Covered
      <4> QED BY <4>1, <4>2 DEF PollCovers
    <3>5. Current(r) => PollCovers(r, polls'[r][slot])
      <4> SUFFICES ASSUME Current(r) PROVE PollCovers(r, polls'[r][slot])
        OBVIOUS
      <4>1. CASE poll.kind = "asked"
        <5>1. poll.from \in Nat /\ poll.from <= cursor[r]
          BY <1>0, <3>2, <4>1, PollTypes DEF CursorOf, PollCovers
        <5>2. PollCovers(r, Answered(Window(poll.from, Least(PollLimit, ReplayLimit))))
          BY <3>4, <5>1
        <5> QED BY <3>1, <3>3, <4>1, <5>2
      <4>2. CASE poll.kind = "askedBare"
        <5>1. PollCovers(r, Answered(Window(0, ReplayLimit)))
          BY <1>0, <3>4
        <5> QED BY <3>1, <3>3, <4>2, <5>1
      <4> QED BY <3>1, <4>1, <4>2
    <3>6. Current(r) => \A k \in Slots : PollCovers(r, polls'[r][k])
      BY <1>0, <3>1, <3>5 DEF CursorOf
    <3> QED BY <1>0, <3>1, <3>6 DEF CursorOf, PollCovers, Covered, Current
  <2> QED BY <2>1, <2>2
<1>8. ASSUME NEW to \in Readers, NEW slot \in Slots, Apply(to, slot) PROVE CursorOf(r)'
  <2>1. CASE r # to
    BY <1>0, <1>8, <2>1, CursorFrame DEF Apply, TypeOK, registry
  <2>2. CASE r = to
    <3> DEFINE poll == polls[r][slot]
               got == {<<poll.epoch, s>> : s \in {n \in poll.lo..poll.hi : n < poll.hi}}
    <3>1. /\ born' = born /\ start' = start /\ epoch' = epoch /\ oldest' = oldest
          /\ poll.kind \in {"answered", "failed"}
          /\ phase'[r] = IF phase[r] = "firstPoll" THEN "subscribe" ELSE phase[r]
          /\ \A k \in Slots : polls'[r][k] = IF k = slot THEN Idle ELSE polls[r][k]
          /\ poll.kind = "failed" => cursor' = cursor /\ received' = received
          /\ poll.kind = "answered" => /\ cursor'[r] = CursorAfter(cursor[r], poll)
                                       /\ received'[r] = DeliverOnce(received[r], got)
      BY <1>8, <2>2 DEF Apply, TypeOK, registry
    <3>2. phase[r] # "idle"
      BY <1>0, <3>1 DEF EraOf, Untouched, Idle
    <3>3. poll \in PollType
      BY DEF TypeOK
    <3> SUFFICES ASSUME Current(r)
                 PROVE  /\ \A s \in Nat : start[r] <= s /\ s < cursor'[r] => Covered(r, s)'
                        /\ \A k \in Slots : PollCovers(r, polls[r][k])'
      BY <3>1, <3>2 DEF CursorOf, Current
    <3>4. OneEpoch(r)
      BY <1>0 DEF EraOf
    <3>5. /\ \A s \in Nat : Covered(r, s) => Covered(r, s)'
          /\ cursor[r] <= cursor'[r] /\ cursor'[r] \in Nat
          /\ \A s \in Nat : start[r] <= s /\ s < cursor'[r] => Covered(r, s)'
      <4>1. CASE poll.kind = "failed"
        BY <1>0, <3>1, <4>1 DEF Covered, CursorOf
      <4>2. CASE poll.kind = "answered"
        <5>1. poll.epoch = epoch /\ poll.lo \in Nat /\ poll.hi \in Nat
          BY <3>3, <3>4, <4>2, PollTypes DEF OneEpoch
        <5>2. /\ got \in SUBSET (Nat \X Nat) /\ \A packet \in received[r] \cup got : packet[1] = epoch
              /\ \A s \in Nat : poll.lo <= s /\ s < poll.hi => <<epoch, s>> \in got
          BY <1>0, <3>4, <5>1 DEF OneEpoch
        <5> HIDE DEF got
        <5>3. received[r] \subseteq received'[r]
          BY <3>1, <4>2 DEF DeliverOnce
        <5>4. got \subseteq received'[r]
          <6>1. got \subseteq DeliverOnce(received[r], got)
            BY <1>0, <5>2, DeliverOnceKeeps
          <6> QED BY <3>1, <4>2, <6>1
        <5>5. \A s \in Nat : Covered(r, s) => Covered(r, s)'
          BY <3>1, <5>3 DEF Covered
        <5>6. \A s \in Nat : start[r] <= s /\ s < poll.lo => Covered(r, s)
          BY <1>0, <4>2 DEF CursorOf, PollCovers
        <5>7. \A s \in Nat : poll.lo <= s /\ s < poll.hi => Covered(r, s)'
          BY <3>1, <5>2, <5>4 DEF Covered
        <5>8. /\ cursor'[r] \in {cursor[r], poll.hi} /\ cursor[r] <= cursor'[r]
          BY <1>0, <3>1, <4>2, <5>1 DEF CursorAfter, Greatest
        <5>9. \A s \in Nat : start[r] <= s /\ s < cursor[r] => Covered(r, s)
          BY <1>0 DEF CursorOf
        <5>10. \A s \in Nat : start[r] <= s /\ s < cursor'[r] => Covered(r, s)'
          BY <1>0, <5>1, <5>5, <5>6, <5>7, <5>8, <5>9
        <5> QED BY <1>0, <5>1, <5>5, <5>8, <5>10
      <4> QED BY <3>1, <4>1, <4>2
    <3>6. ASSUME NEW k \in Slots PROVE PollCovers(r, polls[r][k])'
      <4>1. CASE k = slot
        BY <3>1, <4>1 DEF PollCovers, Idle
      <4>2. CASE k # slot
        <5>1. polls'[r][k] = polls[r][k] /\ polls[r][k] \in PollType
          BY <3>1, <4>2 DEF TypeOK
        <5>2. PollCovers(r, polls[r][k])
          BY <1>0 DEF CursorOf
        <5>3. polls[r][k].kind = "asked" => polls[r][k].from <= cursor'[r]
          BY <1>0, <3>5, <5>1, <5>2, PollTypes DEF PollCovers
        <5>4. polls[r][k].kind = "answered" =>
                \A s \in Nat : start[r] <= s /\ s < polls[r][k].lo => Covered(r, s)'
          BY <3>5, <5>2 DEF PollCovers
        <5> QED BY <3>1, <5>1, <5>3, <5>4 DEF PollCovers
      <4> QED BY <4>1, <4>2
    <3> QED BY <3>5, <3>6
  <2> QED BY <2>1, <2>2
<1>9. ASSUME NEW to \in Readers, SubscribeChannel(to) PROVE CursorOf(r)'
  <2>1. (phase'[r] = "idle" <=> phase[r] = "idle") /\ epoch' = epoch /\ oldest' = oldest
        /\ UNCHANGED <<born, start, cursor, polls, received>>
    BY <1>9 DEF SubscribeChannel, TypeOK, registry
  <2> QED BY <1>0, <2>1, CursorFrame
<1>10. ASSUME NEW to \in Readers, SendReplay(to) PROVE CursorOf(r)'
  <2>1. (phase'[r] = "idle" <=> phase[r] = "idle") /\ epoch' = epoch /\ oldest' = oldest
        /\ UNCHANGED <<born, start, cursor, polls, received>>
    BY <1>10 DEF SendReplay, TypeOK, registry
  <2> QED BY <1>0, <2>1, CursorFrame
<1>11. ASSUME NEW to \in Readers, ChannelMessage(to) PROVE CursorOf(r)'
  <2>1. received[r] \subseteq received'[r]
    BY <1>11 DEF ChannelMessage, TypeOK, DeliverOnce
  <2> QED BY <1>0, <1>11, <2>1, CursorFrame DEF ChannelMessage, registry
<1>12. ASSUME NEW to \in Readers, Stop(to) \/ Unsubscribe(to) PROVE CursorOf(r)'
  <2>1. (phase'[r] = "idle" <=> phase[r] = "idle") /\ epoch' = epoch /\ oldest' = oldest
        /\ UNCHANGED <<born, start, cursor, polls, received>>
    BY <1>12 DEF Stop, Unsubscribe, TypeOK, registry, reader
  <2> QED BY <1>0, <2>1, CursorFrame
<1>13. CASE UNCHANGED vars
  BY <1>0, <1>13, CursorFrame DEF vars, registry, reader
<1> QED
  BY <1>1, <1>2, <1>3, <1>4, <1>5, <1>6, <1>7, <1>8, <1>9, <1>10, <1>11, <1>12, <1>13 DEF Next

LEMMA CursorsInit == Init => Cursors
BY DEF Init, Cursors, CursorOf, Current

\* Everything below a reader's cursor was given to its listener or had left the
\* ring, whatever order the answers of its replay calls come in.
THEOREM CursorCoversCorrect == Spec => []CursorCovers
<1>1. Init => TypeOK /\ Eras /\ Cursors
  BY TypeInit, ErasInit, CursorsInit
<1>2. TypeOK /\ Eras /\ Cursors /\ [Next]_vars => TypeOK' /\ Eras' /\ Cursors'
  BY TypeInductive, ErasInductive, CursorsInductive
<1>3. TypeOK /\ Cursors => CursorCovers
  BY CursorsImply
<1> QED BY <1>1, <1>2, <1>3, PTL DEF Spec

-----------------------------------------------------------------------------
(* The channel.                                                            *)

Fed(r) == \A s \in Nat : fedFrom[r] <= s /\ s < next =>
            <<epoch, s>> \in received[r] \cup Underway(r)

Feeds == MaxMessages <= ReplayLimit =>
           \A r \in Readers : r \in subscribers /\ Current(r) => Fed(r)

LEMMA FeedsImply == TypeOK /\ Feeds => LiveFeedComplete
<1> SUFFICES ASSUME TypeOK, Feeds, MaxMessages <= ReplayLimit, NEW r \in subscribers, Current(r),
                    NEW s \in fedFrom[r]..next, s < next
             PROVE  <<epoch, s>> \in received[r] \cup Underway(r)
  BY DEF LiveFeedComplete
<1>1. r \in Readers /\ s \in Nat /\ fedFrom[r] <= s
  BY DEF TypeOK
<1> QED BY <1>1 DEF Feeds, Fed

\* A step that publishes nothing and loses nothing of what a reader received or
\* is to receive.
LEMMA FeedFrame ==
  ASSUME NEW r \in Readers, Feeds, MaxMessages <= ReplayLimit,
         r \in subscribers' => r \in subscribers,
         epoch' = epoch, next' = next, fedFrom'[r] = fedFrom[r], Current(r)' => Current(r),
         \A packet \in received[r] \cup Underway(r) :
           Current(r) => packet \in received'[r] \cup Underway(r)'
  PROVE  r \in subscribers' /\ Current(r)' => Fed(r)'
BY DEF Feeds, Fed

LEMMA FeedsInductive == TypeOK /\ Eras /\ Feeds /\ [Next]_vars => Feeds'
<1> SUFFICES ASSUME TypeOK, Eras, Feeds, [Next]_vars, MaxMessages <= ReplayLimit, NEW r \in Readers
             PROVE  r \in subscribers' /\ Current(r)' => Fed(r)'
  BY DEF Feeds
<1>0. /\ EraOf(r) /\ epoch \in Nat /\ born[r] \in Nat
      /\ received[r] \in SUBSET (Nat \X Nat)
  BY DEF Eras, TypeOK
<1>1. CASE RegisterStream
  <2>1. epoch' = epoch + 1 /\ born'[r] = born[r]
    BY <1>1 DEF RegisterStream, reader
  <2> QED BY <1>0, <2>1 DEF EraOf, Current
<1>2. CASE CloseStream
  BY <1>2 DEF CloseStream
<1>3. ASSUME NEW p \in Publishers, Publish(p) PROVE r \in subscribers' /\ Current(r)' => Fed(r)'
  <2>1. /\ epoch' = epoch /\ next' = next + 1 /\ next \in Nat /\ subscribers' = subscribers
        /\ phase' = phase /\ born' = born /\ received' = received /\ fedFrom' = fedFrom
        /\ fedFrom[r] \in Nat
    BY <1>3 DEF Publish, TypeOK, reader
  <2>2. r \in subscribers => Underway(r)' = Underway(r) \cup {<<epoch, next>>}
    BY <1>3, PublishUnderway
  <2>3. \A s \in Nat : s < next + 1 <=> s < next \/ s = next
    BY <2>1
  <2> QED BY <2>1, <2>2, <2>3 DEF Feeds, Fed, Current
<1>4. ASSUME NEW p \in Publishers, NEW to \in Readers, Send(p, to)
      PROVE  r \in subscribers' /\ Current(r)' => Fed(r)'
  <2>1. Underway(r)' = Underway(r)
    BY <1>4, SendUnderway
  <2> QED BY <1>4, <2>1, FeedFrame DEF Send, registry, reader, Current
<1>5. ASSUME NEW new \in Readers, NEW from \in StartFrom, Subscribe(new, from)
      PROVE  r \in subscribers' /\ Current(r)' => Fed(r)'
  <2>1. Underway(r)' = Underway(r)
    BY <1>5 DEF Subscribe, delivery, Underway
  <2>2. CASE r # new
    <3>1. phase'[r] = phase[r] /\ born'[r] = born[r] /\ received' = received
          /\ subscribers' = subscribers /\ epoch' = epoch /\ next' = next /\ fedFrom' = fedFrom
      BY <1>5, <2>2 DEF Subscribe, TypeOK, registry, delivery
    <3> QED BY <2>1, <3>1, FeedFrame DEF Current
  <2>3. CASE r = new
    BY <1>0, <1>5, <2>3 DEF Subscribe, delivery, EraOf, Untouched
  <2> QED BY <2>2, <2>3
<1>6. ASSUME NEW to \in Readers, NEW slot \in Slots, Tick(to, slot) \/ Answer(to, slot)
      PROVE  r \in subscribers' /\ Current(r)' => Fed(r)'
  <2>1. Underway(r)' = Underway(r)
    BY <1>6 DEF Tick, Answer, delivery, Underway
  <2> QED BY <1>6, <2>1, FeedFrame DEF Tick, Answer, registry, delivery, Current
<1>7. ASSUME NEW to \in Readers, NEW slot \in Slots, Apply(to, slot)
      PROVE  r \in subscribers' /\ Current(r)' => Fed(r)'
  <2>1. Underway(r)' = Underway(r)
    BY <1>7 DEF Apply, delivery, Underway
  <2>2. received[r] \subseteq received'[r]
    <3> DEFINE poll == polls[to][slot]
               got == {<<poll.epoch, s>> : s \in {n \in poll.lo..poll.hi : n < poll.hi}}
    <3>1. \/ received' = received
          \/ received' = [received EXCEPT ![to] = DeliverOnce(received[to], got)]
      BY <1>7 DEF Apply
    <3> HIDE DEF got
    <3> QED BY <3>1 DEF TypeOK, DeliverOnce
  <2>3. Current(r)' => Current(r)
    <3>1. polls[to][slot] # Idle
      BY <1>7 DEF Apply, Idle
    <3>2. phase[to] # "idle"
      BY <3>1 DEF Eras, EraOf, Untouched
    <3> QED BY <1>7, <3>2 DEF Apply, TypeOK, registry, Current
  <2> QED BY <1>7, <2>1, <2>2, <2>3, FeedFrame DEF Apply, registry, delivery
<1>8. ASSUME NEW to \in Readers, SubscribeChannel(to)
      PROVE  r \in subscribers' /\ Current(r)' => Fed(r)'
  <2>1. CASE r # to
    <3>1. /\ replaying'[r] = replaying[r] /\ channel' = channel /\ sending' = sending
          /\ phase'[r] = phase[r] /\ born' = born /\ received' = received /\ fedFrom'[r] = fedFrom[r]
          /\ epoch' = epoch /\ next' = next /\ (r \in subscribers' => r \in subscribers)
      BY <1>8, <2>1 DEF SubscribeChannel, TypeOK, registry
    <3>2. Underway(r)' = Underway(r)
      BY <3>1 DEF Underway
    <3> QED BY <3>1, <3>2, FeedFrame DEF Current
  <2>2. CASE r = to /\ ~registered
    <3>1. /\ UNCHANGED <<replaying, channel, sending, born, received, fedFrom, subscribers, epoch, next>>
          /\ phase[r] # "idle"
      BY <1>8, <2>2 DEF SubscribeChannel, registry
    <3>2. Underway(r)' = Underway(r)
      BY <3>1 DEF Underway
    <3> QED BY <3>1, <3>2, FeedFrame DEF Current
  <2>3. CASE r = to /\ registered /\ phase[r] = "subscribeBare"
    <3>1. fedFrom'[r] = next /\ next' = next /\ next \in Nat
      BY <1>8, <2>3 DEF SubscribeChannel, TypeOK, registry
    <3> QED BY <3>1 DEF Fed
  <2>4. CASE r = to /\ registered /\ phase[r] = "subscribe"
    <3> DEFINE w == FeedReplay(start[r])
               n == Greatest(w.lo, w.hi) - w.lo
               copy == [k \in 1..n |-> <<epoch, w.lo + k - 1>>]
    <3>1. /\ replaying'[r] = copy /\ fedFrom'[r] = Greatest(start[r], oldest)
          /\ epoch' = epoch /\ next' = next
      BY <1>8, <2>4 DEF SubscribeChannel, TypeOK, registry
    <3>2. w.lo = Greatest(start[r], oldest) /\ w.hi = Least(next, w.lo + ReplayLimit)
      BY DEF FeedReplay, Window
    <3>3. /\ w.lo \in Nat /\ w.hi \in Nat /\ n \in Nat
          /\ \A s \in Nat : w.lo <= s /\ s < next => s < w.lo + n
      <4>1. /\ start[r] \in Nat /\ oldest \in Nat /\ next \in Nat /\ oldest <= next
            /\ next - oldest <= MaxMessages /\ MaxMessages \in Nat /\ ReplayLimit \in Nat
        BY LimitAssumption DEF TypeOK
      <4>2. w.lo \in Nat /\ oldest <= w.lo
        BY <3>2, <4>1 DEF Greatest
      <4>3. next <= w.lo + ReplayLimit
        BY <4>1, <4>2
      <4>4. w.hi = next
        BY <3>2, <4>1, <4>2, <4>3 DEF Least
      <4> QED BY <4>1, <4>2, <4>4 DEF Greatest
    <3>4. Len(copy) = n /\ \A k \in 1..n : copy[k] = <<epoch, w.lo + k - 1>>
      BY <3>3
    <3> HIDE DEF w, n, copy
    <3>5. ASSUME NEW s \in Nat, w.lo <= s, s < next PROVE <<epoch, s>> \in PacketsIn(copy)
      <4> DEFINE k == s - w.lo + 1
      <4>1. k \in 1..n /\ w.lo + k - 1 = s
        BY <3>3, <3>5
      <4>2. copy[k] = <<epoch, s>>
        BY <3>4, <4>1
      <4> HIDE DEF k
      <4> QED BY <3>4, <4>1, <4>2 DEF PacketsIn
    <3>6. PacketsIn(copy) \subseteq Underway(r)'
      BY <3>1 DEF Underway
    <3> QED BY <3>1, <3>2, <3>5, <3>6 DEF Fed
  <2> QED BY <1>8, <2>1, <2>2, <2>3, <2>4 DEF SubscribeChannel
<1>9. ASSUME NEW to \in Readers, SendReplay(to) PROVE r \in subscribers' /\ Current(r)' => Fed(r)'
  <2>1. Underway(r)' = Underway(r)
    BY <1>9, SendReplayUnderway
  <2>2. phase'[r] = "idle" <=> phase[r] = "idle"
    BY <1>9 DEF SendReplay, TypeOK
  <2> QED BY <1>9, <2>1, <2>2, FeedFrame DEF SendReplay, registry, Current
<1>10. ASSUME NEW to \in Readers, ChannelMessage(to)
       PROVE  r \in subscribers' /\ Current(r)' => Fed(r)'
  <2>1. Underway(r) = Underway(r)' \cup IF r = to THEN {Head(channel[r])} ELSE {}
    BY <1>10, ChannelUnderway
  <2>2. received'[r] = IF r = to THEN DeliverOnce(received[r], {Head(channel[r])}) ELSE received[r]
    BY <1>10 DEF ChannelMessage, TypeOK
  <2>3. ASSUME Current(r), r = to PROVE {Head(channel[r])} \subseteq received'[r]
    <3>1. /\ {Head(channel[r])} \in SUBSET (Nat \X Nat)
          /\ \A packet \in received[r] \cup {Head(channel[r])} : packet[1] = epoch
      <4>1. Head(channel[r]) \in Nat \X Nat
        BY <1>10, <2>3 DEF ChannelMessage, TypeOK
      <4>2. \A packet \in received[r] \cup {Head(channel[r])} : packet[1] = epoch
        BY <1>0, <2>1, <2>3 DEF EraOf, OneEpoch
      <4> QED BY <4>1, <4>2
    <3>2. {Head(channel[r])} \subseteq DeliverOnce(received[r], {Head(channel[r])})
      BY <1>0, <3>1, DeliverOnceKeeps
    <3> QED BY <2>2, <2>3, <3>2
  <2>4. received[r] \subseteq received'[r]
    BY <2>2 DEF DeliverOnce
  <2>5. \A packet \in received[r] \cup Underway(r) :
          Current(r) => packet \in received'[r] \cup Underway(r)'
    BY <2>1, <2>3, <2>4
  <2> QED BY <1>10, <2>5, FeedFrame DEF ChannelMessage, registry, Current
<1>11. ASSUME NEW to \in Readers, Stop(to) \/ Unsubscribe(to)
       PROVE  r \in subscribers' /\ Current(r)' => Fed(r)'
  <2>1. Underway(r)' = Underway(r)
    BY <1>11 DEF Stop, Unsubscribe, delivery, Underway
  <2>2. (phase'[r] = "idle" <=> phase[r] = "idle") /\ subscribers' \subseteq subscribers
        /\ UNCHANGED <<born, received, fedFrom, epoch, next>>
    BY <1>11 DEF Stop, Unsubscribe, TypeOK, registry, delivery, reader
  <2> QED BY <2>1, <2>2, FeedFrame DEF Current
<1>12. CASE UNCHANGED vars
  <2>1. Underway(r)' = Underway(r)
    BY <1>12 DEF vars, delivery, Underway
  <2> QED BY <1>12, <2>1, FeedFrame DEF vars, registry, delivery, reader, Current
<1> QED
  BY <1>1, <1>2, <1>3, <1>4, <1>5, <1>6, <1>7, <1>8, <1>9, <1>10, <1>11, <1>12 DEF Next

LEMMA FeedsInit == Init => Feeds
BY DEF Init, Feeds

\* A subscribed channel has no hole, when the ring fits into one replay: every
\* packet since the first replayed one was received or is on its way.
THEOREM LiveFeedCorrect == Spec => []LiveFeedComplete
<1>1. Init => TypeOK /\ Eras /\ Feeds
  BY TypeInit, ErasInit, FeedsInit
<1>2. TypeOK /\ Eras /\ Feeds /\ [Next]_vars => TypeOK' /\ Eras' /\ Feeds'
  BY TypeInductive, ErasInductive, FeedsInductive
<1>3. TypeOK /\ Feeds => LiveFeedComplete
  BY FeedsImply
<1> QED BY <1>1, <1>2, <1>3, PTL DEF Spec
=============================================================================
