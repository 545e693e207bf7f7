------------------------- MODULE MessageEvents_proofs -------------------------
(***************************************************************************)
(* No goroutine of a round sleeps through what it waits for, for all sets  *)
(* of validators, quorums, views and arriving messages.                    *)
(***************************************************************************)
EXTENDS MessageEvents, TLAPS

\* The goroutines whose condition is one view's quorum.
Watchful == {"worker", "certificates"}

-----------------------------------------------------------------------------
(* The conditions *)

\* What is stored for a view comes from validators, and nothing is stored for a
\* round that does not exist.
LEMMA StoredSenders ==
  ASSUME TypeOK, NEW type, NEW h, NEW r
  PROVE  /\ SendersOf(ValidMessages(type, h, r)) \subseteq SendersOf(MessagesOf(type, h, r))
         /\ SendersOf(MessagesOf(type, h, r)) \in SUBSET Validators
         /\ SendersOf(MessagesOf(type, h, r)) # {} => r \in Rounds
<1>1. store \subseteq Message
  BY DEF TypeOK
<1> QED
  BY <1>1 DEF SendersOf, ValidMessages, MessagesOf, Message

\* More senders keep a quorum, but for the proposer among those of a PREPARE.
LEMMA QuorumGrows ==
  ASSUME TypeOK, NEW type, NEW S, NEW T \in SUBSET Validators, S \subseteq T,
         HasQuorumByMsgType(type, S),
         type = "PREPARE" => ProposerOf[round] \notin T
  PROVE  HasQuorumByMsgType(type, T)
<1> USE QuorumsAssumption, EventsAssumption
<1>1. CASE type = "PREPREPARE"
  BY <1>1 DEF HasQuorumByMsgType
<1>2. CASE type = "PREPARE"
  <2>1. ProposerOf[round] \in Validators
    BY DEF TypeOK
  <2> DEFINE p == ProposerOf[round]
  <2>2. S \cup {p} \in Quorums /\ accepted # None
    BY <1>2 DEF HasQuorumByMsgType
  <2>3. T \cup {p} \in SUBSET Validators /\ S \cup {p} \subseteq T \cup {p}
    BY <2>1
  <2>4. T \cup {p} \in Quorums
    BY <2>2, <2>3
  <2> QED
    BY <1>2, <2>2, <2>4 DEF HasQuorumByMsgType
<1>3. CASE type \notin {"PREPREPARE", "PREPARE"}
  BY <1>3 DEF HasQuorumByMsgType
<1> QED
  BY <1>1, <1>2, <1>3

\* No quorum is empty, but that of a proposer alone.
LEMMA QuorumNotEmpty ==
  ASSUME NEW type, type # "PREPARE", HasQuorumByMsgType(type, {})
  PROVE  FALSE
BY QuorumsAssumption DEF HasQuorumByMsgType

\* A condition that is met is one that counting the whole view finds.
LEMMA SatisfiedCounts ==
  ASSUME TypeOK, NEW l, Satisfied(l)
  PROVE  LET d == SubscriptionDetails(l)
         IN  HasQuorumByMsgType(d.type, SendersOf(MessagesOf(d.type, d.height, d.round)))
<1> DEFINE d == SubscriptionDetails(l)
           S == SendersOf(ValidMessages(d.type, d.height, d.round))
           T == SendersOf(MessagesOf(d.type, d.height, d.round))
<1>1. S \subseteq T /\ T \in SUBSET Validators
  BY StoredSenders
<1>2. HasQuorumByMsgType(d.type, S) /\ (d.type = "PREPARE" => ProposerOf[round] \notin T)
  BY DEF Satisfied
<1> HIDE DEF d, S, T
<1>3. HasQuorumByMsgType(d.type, T)
  BY <1>1, <1>2, QuorumGrows
<1> QED
  BY <1>3 DEF d, T


-----------------------------------------------------------------------------
(* What a step leaves alone *)

\* What l's condition reads of the state.
SameView(l) ==
    /\ UNCHANGED <<height, round>>
    /\ l = "worker" => UNCHANGED <<stage, accepted>>

LEMMA SameDetails ==
  ASSUME NEW l \in Watchful, SameView(l)
  PROVE  /\ SubscriptionDetails(l)' = SubscriptionDetails(l)
         /\ \A S : HasQuorumByMsgType(SubscriptionDetails(l).type, S)'
                      <=> HasQuorumByMsgType(SubscriptionDetails(l).type, S)
         /\ \A m : m.type = SubscriptionDetails(l).type =>
                      (IsValidMessage(m)' <=> IsValidMessage(m))
<1>1. CASE l = "worker"
  BY <1>1 DEF SameView, SubscriptionDetails, HasQuorumByMsgType, IsValidMessage
<1>2. CASE l = "certificates"
  BY <1>2 DEF SameView, SubscriptionDetails, HasQuorumByMsgType, IsValidMessage
<1> QED
  BY <1>1, <1>2 DEF Watchful

\* m is of the view that l waits for.
Concerns(m, l) ==
    /\ m.type = SubscriptionDetails(l).type
    /\ m.height = SubscriptionDetails(l).height
    /\ m.round = SubscriptionDetails(l).round

\* The messages of l's view are left alone, but for some that are not valid and
\* are no PREPARE.
SameMessages(l) ==
    \A m : Concerns(m, l) =>
        /\ m \in store' => m \in store
        /\ m \in store /\ (m.type = "PREPARE" \/ IsValidMessage(m)) => m \in store'

\* What wakes l still will, or has become an event.
SameWakeups(l) ==
    /\ UNCHANGED scenario
    /\ Pending(l) => Pending(l)'
    /\ \A m \in Arriving : Concerns(m, l) /\ Signals(m) => Signals(m)' \/ Pending(l)'

LEMMA SameSatisfied ==
  ASSUME NEW l \in Watchful, SameView(l), SameMessages(l), Satisfied(l)'
  PROVE  Satisfied(l)
<1> DEFINE d == SubscriptionDetails(l)
           V == ValidMessages(d.type, d.height, d.round)
           M == MessagesOf(d.type, d.height, d.round)
<1>1. d' = d
  BY SameDetails
<1>2. V' = V
  BY <1>1, SameDetails DEF ValidMessages, MessagesOf, SameMessages, Concerns
<1>3. d.type = "PREPARE" => M' = M
  BY <1>1 DEF MessagesOf, SameMessages, Concerns
<1>4. HasQuorumByMsgType(d.type, SendersOf(V))' /\ (d.type = "PREPARE" => ProposerOf[round] \notin SendersOf(M))'
  BY DEF Satisfied
<1>5. HasQuorumByMsgType(d.type, SendersOf(V)) 
  <2>1. HasQuorumByMsgType(d.type, SendersOf(V))' <=> HasQuorumByMsgType(d.type, SendersOf(V))
    <3>1. SendersOf(V)' = SendersOf(V)
      BY <1>2 DEF SendersOf
    <3> QED
      BY <1>1, <3>1, SameDetails
  <2> QED
    BY <2>1, <1>4
<1>6. d.type = "PREPARE" => ProposerOf[round] \notin SendersOf(M)
  BY <1>1, <1>3, <1>4 DEF SendersOf, SameView
<1> QED
  BY <1>5, <1>6 DEF Satisfied

\* A thread that is to signal l's view still is, when it has not moved.
LEMMA SameSignals ==
  ASSUME NEW l \in Watchful, SameView(l), NEW m,
         m.type = SubscriptionDetails(l).type,
         thread'[m] = thread[m], heard'[m] = heard[m],
         Signals(m)
  PROVE  Signals(m)'
BY SameDetails DEF Signals


\* A step that does neither meet l's condition nor take a wakeup from it.
LEMMA AttendsKept ==
  ASSUME NEW l \in Watchful, Attends(l), SameView(l), SameMessages(l), SameWakeups(l),
         phase'[l] = phase[l], seen'[l] = seen[l]
  PROVE  Attends(l)'
<1>1. Satisfied(l)' => Satisfied(l)
  BY SameSatisfied
<1>2. WillWake(l) => WillWake(l)'
  <2>1. SubscriptionDetails(l)' = SubscriptionDetails(l) /\ Arriving' = Arriving
    BY SameDetails DEF SameWakeups, Arriving
  <2> QED
    BY <2>1 DEF WillWake, SameWakeups, Concerns
<1>3. HasQuorumByMsgType(SubscriptionDetails(l).type, seen[l])
        => HasQuorumByMsgType(SubscriptionDetails(l).type, seen[l])'
  BY SameDetails
<1> QED
  BY <1>1, <1>2, <1>3 DEF Attends

\* A goroutine that does not wait, and has no look to check, has nothing to attend to.
LEMMA NotAttending ==
  ASSUME NEW l, phase'[l] \notin {"waiting", "counted"}
  PROVE  Attends(l)'
BY DEF Attends


-----------------------------------------------------------------------------
(* The operations of the event manager *)

SubscriptionsOK == subscription \in [Listeners -> Subscription \cup {None}]

LEMMA DetailsTyped ==
  ASSUME TypeOK, NEW l \in Listeners
  PROVE  SubscriptionDetails(l) \in Details
<1> USE EventsAssumption DEF TypeOK, Details, Types
<1>1. WorkerType[stage] \in Types
  BY DEF WorkerType, Stages
<1>2. round \in Int /\ round + 1 \in Int
  OBVIOUS
<1> QED
  BY <1>1, <1>2 DEF SubscriptionDetails

\* A new subscription has no event, and those of the others stay.
LEMMA Added ==
  ASSUME SubscriptionsOK, NEW l \in Listeners, NEW d \in Details, AddSubscription(l, d)
  PROVE  /\ SubscriptionsOK'
         /\ subscription'[l] # None /\ subscription'[l].details = d
         /\ \A k \in Listeners \ {l} : subscription'[k] = subscription[k]
<1> DEFINE s == [details |-> d, event |-> [ch \in Channels |-> None]]
<1>1. s \in Subscription
  BY DEF Subscription
<1>2. subscription' = [subscription EXCEPT ![l] = s]
  BY DEF AddSubscription
<1>3. s # None
  BY <1>1, NoneAssumption
<1>4. s.details = d
  OBVIOUS
<1> HIDE DEF s
<1> QED
  BY <1>1, <1>2, <1>3, <1>4 DEF SubscriptionsOK

LEMMA Removed ==
  ASSUME SubscriptionsOK, NEW l \in Listeners, CancelSubscription(l)
  PROVE  /\ SubscriptionsOK'
         /\ subscription'[l] = None
         /\ \A k \in Listeners \ {l} : subscription'[k] = subscription[k]
BY DEF SubscriptionsOK, CancelSubscription

\* An event that is pushed is in notifyCh then, or one was.
LEMMA Pushed ==
  ASSUME NEW s \in Subscription, NEW type, NEW h, NEW r \in Rounds
  PROVE  LET t == PushEvent(s, type, h, r)
         IN  /\ t \in Subscription
             /\ t.details = s.details
             /\ \A ch \in Channels : s.event[ch] # None => t.event[ch] # None
             /\ EventSupported(s.details, type, h, r) => t.event["notifyCh"] # None
<1>1. r # None
  BY NoneAssumption
<1>2. "notifyCh" \in Channels
  BY DEF Channels
<1> QED
  BY <1>1, <1>2 DEF PushEvent, Subscription

\* Signalling leaves every subscription, and its events, and wakes those that
\* support the event.
LEMMA Signalled ==
  ASSUME SubscriptionsOK, NEW type, NEW h, NEW r \in Rounds, SignalEvent(type, h, r)
  PROVE  /\ SubscriptionsOK'
         /\ \A l \in Listeners :
               /\ subscription'[l] = None <=> subscription[l] = None
               /\ subscription[l] # None => subscription'[l].details = subscription[l].details
               /\ Pending(l) => Pending(l)'
               /\ subscription[l] # None /\ EventSupported(subscription[l].details, type, h, r)
                     => Pending(l)'
<1>1. SUFFICES ASSUME NEW l \in Listeners
               PROVE  /\ subscription'[l] \in Subscription \cup {None}
                      /\ subscription'[l] = None <=> subscription[l] = None
                      /\ subscription[l] # None => subscription'[l].details = subscription[l].details
                      /\ Pending(l) => Pending(l)'
                      /\ subscription[l] # None /\ EventSupported(subscription[l].details, type, h, r)
                            => Pending(l)'
  BY DEF SubscriptionsOK, SignalEvent
<1>2. CASE subscription[l] = None
  BY <1>2 DEF SignalEvent, Pending, HasEvent
<1>3. CASE subscription[l] # None
  <2>1. subscription[l] \in Subscription
    BY <1>3 DEF SubscriptionsOK
  <2>2. subscription'[l] = PushEvent(subscription[l], type, h, r)
    BY <1>3 DEF SignalEvent
  <2>3. subscription'[l] \in Subscription /\ subscription'[l] # None
    BY <2>1, <2>2, Pushed, NoneAssumption
  <2>4. /\ subscription'[l].details = subscription[l].details
        /\ \A ch \in Channels : subscription[l].event[ch] # None => subscription'[l].event[ch] # None
        /\ EventSupported(subscription[l].details, type, h, r)
              => subscription'[l].event["notifyCh"] # None
    BY <2>1, <2>2, Pushed
  <2> QED
    BY <1>3, <2>3, <2>4 DEF Pending, HasEvent, Channels
<1> QED
  BY <1>2, <1>3

\* An event moves along the subscription of l only.
LEMMA Passed ==
  ASSUME SubscriptionsOK, NEW l \in Listeners, NEW from \in Channels, NEW to,
         HasEvent(l, from), PassEvent(l, from, to)
  PROVE  /\ SubscriptionsOK'
         /\ subscription'[l] # None /\ subscription'[l].details = subscription[l].details
         /\ to \in Channels => Pending(l)'
         /\ \A k \in Listeners \ {l} : subscription'[k] = subscription[k]
<1> DEFINE s == subscription[l]
           t == [s EXCEPT !.event = [ch \in Channels |->
                   IF ch = to THEN @[from] ELSE IF ch = from THEN None ELSE @[ch]]]
<1>1. s \in Subscription /\ s.event[from] # None
  BY DEF SubscriptionsOK, HasEvent
<1>2. t \in Subscription /\ t.details = s.details
  BY <1>1 DEF Subscription
<1>3. to \in Channels => t.event[to] # None
  BY <1>1 DEF Subscription
<1>4. subscription' = [subscription EXCEPT ![l] = t]
  BY DEF PassEvent
<1>5. t # None
  BY <1>2, NoneAssumption
<1> HIDE DEF t
<1>6. subscription'[l] = t
  BY <1>4 DEF SubscriptionsOK
<1> QED
  BY <1>2, <1>3, <1>4, <1>5, <1>6 DEF SubscriptionsOK, Pending, HasEvent


-----------------------------------------------------------------------------
(* Invariance *)

LEMMA ArrivingTyped ==
  ASSUME TypeOK, NEW m \in Arriving
  PROVE  m \in Message
BY EventsAssumption DEF TypeOK, Arriving

\* Inv holds before the first call.
LEMMA InitInv == Init => Inv
<1> SUFFICES ASSUME Init PROVE Inv
  OBVIOUS
<1> USE EventsAssumption DEF Init
<1>1. TypeOK
  BY DEF TypeOK, Stages, MessagePhases, GoroutinePhases, Arriving
<1>2. SubscriptionsAreCurrent
  BY DEF SubscriptionsAreCurrent
<1>3. GoroutinesPlaced
  BY DEF GoroutinesPlaced
<1>4. \A l \in {"worker", "certificates"} : Attends(l)
  BY DEF Attends, Goroutines
<1> QED
  BY <1>1, <1>2, <1>3, <1>4 DEF Inv

\* A subscription supports the events of the view it names.
LEMMA OwnView ==
  ASSUME TypeOK, NEW l \in Listeners
  PROVE  LET d == SubscriptionDetails(l) IN EventSupported(d, d.type, d.height, d.round)
<1> DEFINE d == SubscriptionDetails(l)
<1>1. d.round \in Int
  BY DetailsTyped DEF Details
<1>2. d.round >= d.round
  BY <1>1
<1> QED
  BY <1>2 DEF EventSupported

\* A step of a thread in AddMessage leaves the goroutines where they are.
LEMMA ThreadsLeavePlaces ==
  ASSUME SubscriptionsAreCurrent, GoroutinesPlaced, TypeOK,
         UNCHANGED <<stateVars, mainVars, goroutineVars>>,
         \A l \in Listeners :
            /\ subscription'[l] = None <=> subscription[l] = None
            /\ subscription[l] # None => subscription'[l].details = subscription[l].details
  PROVE  SubscriptionsAreCurrent' /\ GoroutinesPlaced'
<1>1. \A l \in Listeners : SubscriptionDetails(l)' = SubscriptionDetails(l)
  BY DEF stateVars, SubscriptionDetails
<1>2. SubscriptionsAreCurrent'
  BY <1>1 DEF SubscriptionsAreCurrent, stateVars, mainVars, goroutineVars
<1>3. GoroutinesPlaced'
  BY <1>1 DEF GoroutinesPlaced, stateVars, mainVars, goroutineVars
<1> QED
  BY <1>2, <1>3

LEMMA AddMessageInv ==
  ASSUME Inv, NEW m \in Arriving, AddMessage(m)
  PROVE  Inv'
<1> USE DEF Inv
<1>0. /\ UNCHANGED <<stateVars, mainVars, goroutineVars>>
      /\ m \in Message /\ Arriving' = Arriving
      /\ \A l \in Watchful : SameView(l) /\ phase'[l] = phase[l] /\ seen'[l] = seen[l]
  BY ArrivingTyped DEF AddMessage, Consider, Store, Count, CheckQuorum, Signal,
     Arriving, SameView, mainVars, stateVars, goroutineVars
<1>1. ASSUME UNCHANGED subscription
      PROVE  SubscriptionsAreCurrent' /\ GoroutinesPlaced' /\ \A l \in Listeners : Pending(l)' = Pending(l)
  BY <1>0, <1>1, ThreadsLeavePlaces DEF Pending, HasEvent
<1>2. CASE Consider(m)
  <2>1. TypeOK'
    BY <1>0, <1>2 DEF Consider, Goes, TypeOK, MessagePhases, stateVars, mainVars, goroutineVars
  <2>2. ASSUME NEW l \in Watchful PROVE Attends(l)'
    <3>1. SameMessages(l)
      BY <1>2 DEF Consider, SameMessages
    <3>2. SameWakeups(l)
      <4>1. ASSUME NEW n \in Arriving, Concerns(n, l), Signals(n) PROVE Signals(n)'
        <5>1. n # m
          BY <1>2, <4>1 DEF Consider, Goes, Signals
        <5> QED
          BY <1>0, <1>2, <4>1, <5>1, SameSignals DEF Consider, Goes, TypeOK, Concerns
      <4> QED
        BY <1>0, <1>1, <1>2, <4>1 DEF Consider, SameWakeups, EventsAssumption, mainVars, Pending, HasEvent
    <3> QED
      BY <1>0, <3>1, <3>2, AttendsKept DEF Watchful
  <2> QED
    BY <1>1, <1>2, <2>1, <2>2 DEF Consider, Watchful
<1>3. CASE Store(m)
  <2>1. TypeOK'
    BY <1>0, <1>3 DEF Store, Goes, Put, TypeOK, MessagePhases, stateVars, mainVars, goroutineVars
  <2>2. ASSUME NEW l \in Watchful PROVE Attends(l)'
    <3>1. CASE Concerns(m, l)
      <4>1. Signals(m)'
        BY <1>3 DEF Store, Goes, Signals, TypeOK
      <4>2. SubscriptionDetails(l)' = SubscriptionDetails(l)
        BY <1>0, SameDetails
      <4> QED
        BY <1>0, <3>1, <4>1, <4>2 DEF Attends, WillWake, Concerns
    <3>2. CASE ~Concerns(m, l)
      <4>1. SameMessages(l)
        BY <1>3, <3>2 DEF Store, Put, SameKey, SameMessages, Concerns
      <4>2. SameWakeups(l)
        <5>1. ASSUME NEW n \in Arriving, Concerns(n, l), Signals(n) PROVE Signals(n)'
          BY <1>0, <1>3, <3>2, <5>1, SameSignals DEF Store, Goes, TypeOK, Concerns
        <5> QED
          BY <1>0, <1>3, <5>1 DEF Store, SameWakeups, mainVars, Pending, HasEvent
      <4> QED
        BY <1>0, <4>1, <4>2, AttendsKept DEF Watchful
    <3> QED
      BY <3>1, <3>2
  <2> QED
    BY <1>1, <1>3, <2>1, <2>2 DEF Store, Watchful
<1>4. CASE Count(m)
  <2> DEFINE S == SendersOf(MessagesOf(m.type, m.height, m.round))
  <2>0. S \in SUBSET Validators
    BY StoredSenders
  <2>1. TypeOK'
    BY <1>0, <1>4, <2>0 DEF Count, Goes, TypeOK, MessagePhases, stateVars, mainVars, goroutineVars
  <2>2. ASSUME NEW l \in Watchful PROVE Attends(l)'
    <3>1. CASE Concerns(m, l)
      <4>1. ASSUME Satisfied(l)' PROVE Signals(m)'
        <5>1. Satisfied(l)
          BY <1>0, <1>4, <4>1, SameSatisfied DEF Count, SameMessages
        <5>2. HasQuorumByMsgType(m.type, S)
          BY <3>1, <5>1, SatisfiedCounts DEF Concerns
        <5>3. HasQuorumByMsgType(m.type, S)'
          <6>1. S' = S
            BY <1>4 DEF Count, SendersOf, MessagesOf
          <6> QED
            BY <1>0, <5>2, <6>1 DEF HasQuorumByMsgType, stateVars
        <5>4. m.height = height
          BY <3>1 DEF Concerns, SubscriptionDetails
        <5>5. thread'[m] = "counted" /\ heard'[m] = S
          BY <1>4, <5>4 DEF Count, Goes, TypeOK
        <5> QED
          BY <1>0, <5>2, <5>5 DEF Signals, HasQuorumByMsgType, stateVars
      <4>2. SubscriptionDetails(l)' = SubscriptionDetails(l)
        BY <1>0, SameDetails
      <4> QED
        BY <1>0, <3>1, <4>1, <4>2 DEF Attends, WillWake, Concerns
    <3>2. CASE ~Concerns(m, l)
      <4>1. SameMessages(l)
        BY <1>4 DEF Count, SameMessages
      <4>2. SameWakeups(l)
        <5>1. ASSUME NEW n \in Arriving, Concerns(n, l), Signals(n) PROVE Signals(n)'
          BY <1>0, <1>4, <3>2, <5>1, SameSignals DEF Count, Goes, TypeOK, Concerns
        <5> QED
          BY <1>0, <1>4, <5>1 DEF Count, SameWakeups, mainVars, Pending, HasEvent
      <4> QED
        BY <1>0, <4>1, <4>2, AttendsKept DEF Watchful
    <3> QED
      BY <3>1, <3>2
  <2> QED
    BY <1>1, <1>4, <2>1, <2>2 DEF Count, Watchful
<1>5. CASE CheckQuorum(m)
  <2>1. TypeOK'
    BY <1>0, <1>5 DEF CheckQuorum, Goes, TypeOK, MessagePhases, stateVars, mainVars, goroutineVars
  <2>2. ASSUME NEW l \in Watchful PROVE Attends(l)'
    <3>1. SameMessages(l)
      BY <1>5 DEF CheckQuorum, SameMessages
    <3>2. SameWakeups(l)
      <4>1. ASSUME NEW n \in Arriving, Concerns(n, l), Signals(n) PROVE Signals(n)'
        <5>1. CASE n = m
          BY <1>5, <4>1, <5>1 DEF CheckQuorum, Goes, Signals, TypeOK
        <5>2. CASE n # m
          BY <1>0, <1>5, <4>1, <5>2, SameSignals DEF CheckQuorum, Goes, TypeOK, Concerns
        <5> QED
          BY <5>1, <5>2
      <4> QED
        BY <1>0, <1>5, <4>1 DEF CheckQuorum, SameWakeups, mainVars, Pending, HasEvent
    <3> QED
      BY <1>0, <3>1, <3>2, AttendsKept DEF Watchful
  <2> QED
    BY <1>1, <1>5, <2>1, <2>2 DEF CheckQuorum, Watchful
<1>6. CASE Signal(m)
  <2>0. SubscriptionsOK /\ m.round \in Rounds
    BY <1>0 DEF TypeOK, SubscriptionsOK, Message
  <2>1. /\ SubscriptionsOK'
        /\ \A l \in Listeners :
              /\ subscription'[l] = None <=> subscription[l] = None
              /\ subscription[l] # None => subscription'[l].details = subscription[l].details
              /\ Pending(l) => Pending(l)'
              /\ subscription[l] # None /\ EventSupported(subscription[l].details, m.type, m.height, m.round)
                    => Pending(l)'
    BY <1>6, <2>0, Signalled DEF Signal
  <2>2. TypeOK'
    BY <1>0, <1>6, <2>1 DEF Signal, Goes, TypeOK, SubscriptionsOK, MessagePhases, stateVars, mainVars, goroutineVars
  <2>3. SubscriptionsAreCurrent' /\ GoroutinesPlaced'
    BY <1>0, <2>1, ThreadsLeavePlaces
  <2>4. ASSUME NEW l \in Watchful PROVE Attends(l)'
    <3>0. l \in Listeners
      BY EventsAssumption DEF Watchful, Goroutines
    <3>1. CASE phase[l] \notin {"waiting", "counted"}
      BY <1>0, <3>1, NotAttending
    <3>2. CASE phase[l] \in {"waiting", "counted"}
      <4>1. subscription[l] # None /\ subscription[l].details = SubscriptionDetails(l)
        BY <3>0, <3>2 DEF SubscriptionsAreCurrent
      <4>2. SameMessages(l)
        BY <1>6 DEF Signal, SameMessages
      <4>3. SameWakeups(l)
        <5>1. ASSUME NEW n \in Arriving, Concerns(n, l), Signals(n) PROVE Signals(n)' \/ Pending(l)'
          <6>1. CASE n = m
            <7>1. EventSupported(subscription[l].details, m.type, m.height, m.round)
              BY <3>0, <4>1, <5>1, <6>1, OwnView DEF Concerns
            <7> QED
              BY <2>1, <3>0, <4>1, <7>1
          <6>2. CASE n # m
            BY <1>0, <1>6, <5>1, <6>2, SameSignals DEF Signal, Goes, TypeOK, Concerns
          <6> QED
            BY <6>1, <6>2
        <5> QED
          BY <1>0, <2>1, <3>0, <5>1 DEF SameWakeups, mainVars
      <4> QED
        BY <1>0, <4>2, <4>3, AttendsKept DEF Watchful
    <3> QED
      BY <3>1, <3>2
  <2> QED
    BY <2>2, <2>3, <2>4 DEF Watchful
<1> QED
  BY <1>2, <1>3, <1>4, <1>5, <1>6 DEF AddMessage


\* What no goroutine but l sees of a step of l: the state of the others, and the
\* view that l keeps.
Alone(l) ==
    /\ UNCHANGED <<height, round, main, next, scenario>>
    /\ \A k \in Listeners \ {l} :
          /\ phase'[k] = phase[k] /\ seen'[k] = seen[k] /\ found'[k] = found[k]
          /\ subscription'[k] = subscription[k]

\* The other goroutines stay where they are.
LEMMA OthersStay ==
  ASSUME NEW l \in Listeners, NEW k \in Listeners \ {l}, Alone(l),
         SubscriptionsAreCurrent, GoroutinesPlaced, main \in {"running", "teardown"},
         k = "worker" => UNCHANGED stage
  PROVE  /\ subscription'[k] # None =>
              /\ main' \in {"running", "teardown"}
              /\ subscription'[k].details.height = height'
              /\ subscription'[k].details.round = SubscriptionDetails(k)'.round
         /\ phase'[k] \in {"subscribed", "counted", "signal", "waiting"} =>
              subscription'[k] # None /\ subscription'[k].details = SubscriptionDetails(k)'
         /\ phase'[k] \in {"off", "starting", "building"} => subscription'[k] = None
         /\ k # "worker" => phase'[k] \notin {"finished", "building"}
         /\ k # "worker" /\ phase'[k] = "signalling" => found'[k] # None
         /\ k = "worker" /\ stage' = "building" /\ subscription'[k] # None => round' > 0
         /\ phase'[k] = "signal" \/ (phase'[k] = "counted" /\ seen'[k] # {}) =>
              SubscriptionDetails(k)'.round \in Rounds
<1>1. SubscriptionDetails(k)' = SubscriptionDetails(k)
  BY DEF Alone, SubscriptionDetails
<1> QED
  BY <1>1 DEF Alone, SubscriptionsAreCurrent, GoroutinesPlaced

\* And go on attending.
LEMMA OthersAttend ==
  ASSUME Inv, NEW l \in Listeners, NEW k \in Watchful \ {l}, Alone(l),
         k = "worker" => UNCHANGED <<stage, accepted>>,
         SameMessages(k), UNCHANGED threadVars
  PROVE  Attends(k)'
<1>1. k \in Listeners
  BY EventsAssumption DEF Watchful, Goroutines
<1>2. SameView(k)
  BY DEF Alone, SameView
<1>3. SameWakeups(k)
  <2>1. ASSUME NEW n \in Arriving, Concerns(n, k), Signals(n) PROVE Signals(n)'
    BY <1>2, <2>1, SameSignals DEF Concerns, threadVars
  <2> QED
    BY <1>1, <2>1 DEF SameWakeups, Alone, Pending, HasEvent
<1> QED
  BY <1>1, <1>2, <1>3, AttendsKept DEF Inv, Alone, Watchful

\* The places of all, from those of l and of the others.
LEMMA PlacesOf ==
  ASSUME NEW l \in Listeners, Alone(l), SubscriptionsAreCurrent, GoroutinesPlaced,
         main \in {"running", "teardown"},
         l # "worker" => UNCHANGED stage,
         stage' = "building" => accepted' = None,
         subscription'[l] # None =>
            /\ subscription'[l].details.height = height
            /\ subscription'[l].details.round = SubscriptionDetails(l)'.round,
         phase'[l] \in {"subscribed", "counted", "signal", "waiting"} =>
            subscription'[l] # None /\ subscription'[l].details = SubscriptionDetails(l)',
         phase'[l] \in {"off", "starting", "building"} => subscription'[l] = None,
         l # "worker" => phase'[l] \notin {"finished", "building"},
         l # "worker" /\ phase'[l] = "signalling" => found'[l] # None,
         l = "worker" /\ stage' = "building" /\ subscription'[l] # None => round > 0,
         phase'[l] = "signal" \/ (phase'[l] = "counted" /\ seen'[l] # {}) =>
            SubscriptionDetails(l)'.round \in Rounds
  PROVE  SubscriptionsAreCurrent' /\ GoroutinesPlaced'
<1>1. main' \in {"running", "teardown"} /\ (main' = "teardown" => next' # None) /\ height' = height /\ round' = round
  BY DEF Alone, GoroutinesPlaced
<1>2. SubscriptionsAreCurrent'
  BY <1>1, OthersStay DEF SubscriptionsAreCurrent
<1>3. GoroutinesPlaced'
  BY <1>1, OthersStay DEF GoroutinesPlaced
<1> QED
  BY <1>2, <1>3


\* A goroutine that is out of "off" runs in a round.
LEMMA InRound ==
  ASSUME GoroutinesPlaced, NEW l \in Listeners, phase[l] # "off"
  PROVE  main \in {"running", "teardown"}
BY DEF GoroutinesPlaced

LEMMA SubscribeStepInv ==
  ASSUME Inv, NEW l \in Listeners, SubscribeStep(l)
  PROVE  Inv'
<1> USE DEF Inv
<1> DEFINE d == SubscriptionDetails(l)
<1>0. /\ UNCHANGED <<stateVars, mainVars, threadVars, found, store>>
      /\ phase[l] # "off" /\ main \in {"running", "teardown"}
      /\ \A k \in Listeners : SubscriptionDetails(k)' = SubscriptionDetails(k)
      /\ SubscriptionsOK /\ d \in Details
  <2>1. UNCHANGED <<stateVars, mainVars, threadVars, found, store>> /\ phase[l] # "off"
    BY DEF SubscribeStep, Subscribe, LookAtStore, CheckSeen, SignalSeen, Unsubscribe, Step
  <2>2. main \in {"running", "teardown"}
    BY <2>1, InRound
  <2>3. \A k \in Listeners : SubscriptionDetails(k)' = SubscriptionDetails(k)
    BY <2>1 DEF stateVars, SubscriptionDetails
  <2> QED
    BY <2>1, <2>2, <2>3, DetailsTyped DEF TypeOK, SubscriptionsOK
<1>t. ASSUME SubscriptionsOK', phase' \in [Listeners -> GoroutinePhases],
             seen' \in [Listeners -> SUBSET Validators]
      PROVE  TypeOK'
  BY <1>0, <1>t DEF TypeOK, SubscriptionsOK, stateVars, mainVars, threadVars, Arriving
<1>a. ASSUME Alone(l), NEW k \in Watchful \ {l} PROVE Attends(k)'
  BY <1>0, <1>a, OthersAttend DEF SameMessages, stateVars
<1>l. ASSUME l \in Watchful
      PROVE  SameView(l) /\ SameMessages(l) /\ (\A n : Signals(n)' <=> Signals(n))
  BY <1>0 DEF SameView, SameMessages, stateVars, Signals, HasQuorumByMsgType, threadVars
<1>w. ASSUME l \in Watchful, Satisfied(l)' PROVE Satisfied(l)
  BY <1>l, <1>w, SameSatisfied
<1>1. CASE Subscribe(l)
  <2>1. /\ SubscriptionsOK' /\ subscription'[l] # None /\ subscription'[l].details = d
        /\ \A k \in Listeners \ {l} : subscription'[k] = subscription[k]
    BY <1>0, <1>1, Added DEF Subscribe
  <2>2. /\ phase' = [phase EXCEPT ![l] = "subscribed"] /\ seen' = seen
        /\ stage = "building" => l # "worker" \/ round > 0
    BY <1>1 DEF Subscribe, Step
  <2>3. Alone(l)
    BY <1>0, <2>1, <2>2 DEF Alone, stateVars, mainVars, TypeOK
  <2>4. TypeOK'
    BY <1>t, <2>1, <2>2 DEF TypeOK, GoroutinePhases
  <2>5. phase'[l] = "subscribed"
    BY <2>2 DEF TypeOK
  <2>6. stage' = stage /\ accepted' = accepted /\ d.height = height
    BY <1>0 DEF stateVars, SubscriptionDetails
  <2>7. SubscriptionsAreCurrent' /\ GoroutinesPlaced'
    BY <1>0, <2>1, <2>2, <2>3, <2>5, <2>6, PlacesOf DEF GoroutinesPlaced
  <2> QED
    BY <1>a, <2>3, <2>4, <2>5, <2>7, NotAttending DEF Watchful
<1>2. CASE LookAtStore(l)
  <2> DEFINE S == SendersOf(MessagesOf(d.type, d.height, d.round))
  <2>1. /\ phase[l] = "subscribed" /\ phase' = [phase EXCEPT ![l] = "counted"]
        /\ seen' = [seen EXCEPT ![l] = S] /\ UNCHANGED subscription
    BY <1>2 DEF LookAtStore, Step
  <2>2. S \in SUBSET Validators /\ (S # {} => d.round \in Rounds)
    BY StoredSenders
  <2>3. Alone(l)
    BY <1>0, <2>1 DEF Alone, stateVars, mainVars, TypeOK
  <2>4. TypeOK'
    BY <1>0, <1>t, <2>1, <2>2 DEF TypeOK, GoroutinePhases, SubscriptionsOK
  <2>5. phase'[l] = "counted" /\ seen'[l] = S
    BY <2>1 DEF TypeOK
  <2>6. stage' = stage /\ accepted' = accepted /\ subscription[l] # None /\ subscription[l].details = d /\ d.height = height
    BY <1>0, <2>1 DEF stateVars, SubscriptionDetails, SubscriptionsAreCurrent
  <2>7. SubscriptionsAreCurrent' /\ GoroutinesPlaced'
    BY <1>0, <2>1, <2>2, <2>3, <2>5, <2>6, PlacesOf DEF GoroutinesPlaced
  <2>8. l \in Watchful => Attends(l)'
    <3>1. ASSUME l \in Watchful, Satisfied(l)' PROVE HasQuorumByMsgType(d.type, S)
      BY <1>w, <3>1, SatisfiedCounts
    <3> QED
      BY <1>l, <1>0, <2>5, <3>1, SameDetails DEF Attends
  <2> QED
    BY <1>a, <2>3, <2>4, <2>7, <2>8 DEF Watchful
<1>3. CASE CheckSeen(l)
  <2>1. /\ phase[l] = "counted"
        /\ phase' = [phase EXCEPT ![l] = IF HasQuorumByMsgType(d.type, seen[l]) THEN "signal" ELSE "waiting"]
        /\ seen' = [seen EXCEPT ![l] = {}] /\ UNCHANGED subscription
    BY <1>3 DEF CheckSeen, Step
  <2>3. Alone(l)
    BY <1>0, <2>1 DEF Alone, stateVars, mainVars, TypeOK
  <2>4. TypeOK'
    BY <1>0, <1>t, <2>1 DEF TypeOK, GoroutinePhases, SubscriptionsOK
  <2>5. /\ phase'[l] \in {"signal", "waiting"} /\ seen'[l] = {}
        /\ phase'[l] = "signal" <=> HasQuorumByMsgType(d.type, seen[l])
    BY <2>1 DEF TypeOK
  <2>6. stage' = stage /\ accepted' = accepted /\ subscription[l] # None /\ subscription[l].details = d /\ d.height = height
    BY <1>0, <2>1 DEF stateVars, SubscriptionDetails, SubscriptionsAreCurrent
  <2>r. phase'[l] = "signal" => d.round \in Rounds
    <3>1. CASE seen[l] # {}
      BY <2>1, <3>1 DEF GoroutinesPlaced
    <3>2. CASE seen[l] = {} /\ d.type # "PREPARE"
      BY <2>5, <3>2, QuorumNotEmpty
    <3>3. CASE d.type = "PREPARE"
      BY <3>3 DEF SubscriptionDetails, TypeOK
    <3> QED
      BY <3>1, <3>2, <3>3
  <2>7. SubscriptionsAreCurrent' /\ GoroutinesPlaced'
    BY <1>0, <2>1, <2>3, <2>5, <2>6, <2>r, PlacesOf DEF GoroutinesPlaced
  <2>8. l \in Watchful => Attends(l)'
    <3>1. ASSUME l \in Watchful, phase'[l] = "waiting", Satisfied(l)' PROVE WillWake(l)'
      <4>1. WillWake(l)
        BY <1>w, <2>1, <2>5, <3>1 DEF Attends, Watchful
      <4> QED
        BY <1>0, <1>l, <2>1, <3>1, <4>1 DEF WillWake, Pending, HasEvent, Arriving, mainVars
    <3> QED
      BY <2>5, <3>1 DEF Attends
  <2> QED
    BY <1>a, <2>3, <2>4, <2>7, <2>8 DEF Watchful
<1>4. CASE SignalSeen(l)
  <2>1. /\ phase[l] = "signal" /\ phase' = [phase EXCEPT ![l] = "waiting"]
        /\ seen' = seen /\ SignalEvent(d.type, d.height, d.round)
    BY <1>4 DEF SignalSeen, Step
  <2>2. d.round \in Rounds
    BY <2>1 DEF GoroutinesPlaced
  <2>3. /\ SubscriptionsOK'
        /\ \A k \in Listeners :
              /\ subscription'[k] = None <=> subscription[k] = None
              /\ subscription[k] # None => subscription'[k].details = subscription[k].details
              /\ Pending(k) => Pending(k)'
              /\ subscription[k] # None /\ EventSupported(subscription[k].details, d.type, d.height, d.round)
                    => Pending(k)'
    BY <1>0, <2>1, <2>2, Signalled
  <2>4. TypeOK'
    BY <1>t, <2>1, <2>3 DEF TypeOK, GoroutinePhases
  <2>5. phase'[l] = "waiting" /\ \A k \in Listeners \ {l} : phase'[k] = phase[k]
    BY <2>1 DEF TypeOK
  <2>6. subscription[l] # None /\ subscription[l].details = d
    BY <2>1 DEF SubscriptionsAreCurrent
  <2>7. SubscriptionsAreCurrent'
    BY <1>0, <2>1, <2>3, <2>5, <2>6 DEF SubscriptionsAreCurrent, stateVars, mainVars
  <2>8. GoroutinesPlaced'
    BY <1>0, <2>1, <2>3, <2>5, <2>6 DEF GoroutinesPlaced, stateVars, mainVars
  <2>9. l \in Watchful => Attends(l)'
    BY <2>3, <2>5, <2>6, OwnView DEF Attends, WillWake
  <2>0. ASSUME NEW k \in Watchful \ {l} PROVE Attends(k)'
    <3>1. k \in Listeners
      BY EventsAssumption DEF Watchful, Goroutines
    <3>2. SameView(k) /\ SameMessages(k)
      BY <1>0 DEF SameView, SameMessages, stateVars
    <3>3. SameWakeups(k)
      <4>1. \A n : Signals(n)' <=> Signals(n)
        BY <1>0 DEF stateVars, Signals, HasQuorumByMsgType, threadVars
      <4> QED
        BY <1>0, <2>3, <3>1, <4>1 DEF SameWakeups, mainVars
    <3> QED
      BY <2>1, <2>5, <3>1, <3>2, <3>3, AttendsKept DEF Watchful
  <2> QED
    BY <2>4, <2>7, <2>8, <2>9, <2>0 DEF Watchful
<1>5. CASE Unsubscribe(l)
  <2>1. /\ SubscriptionsOK' /\ subscription'[l] = None
        /\ \A k \in Listeners \ {l} : subscription'[k] = subscription[k]
    BY <1>0, <1>5, Removed DEF Unsubscribe
  <2>2. /\ seen' = seen
        /\ \E p \in {"off", "building", "signalling", "starting"} :
              /\ phase' = [phase EXCEPT ![l] = p]
              /\ p # "off" => phase[l] = "finished"
    BY <1>5, Zenon DEF Unsubscribe, Step
  <2>3. Alone(l)
    BY <1>0, <2>1, <2>2 DEF Alone, stateVars, mainVars, TypeOK
  <2>4. TypeOK'
    BY <1>t, <2>1, <2>2 DEF TypeOK, GoroutinePhases
  <2>5. /\ phase'[l] \in {"off", "building", "signalling", "starting"}
        /\ phase'[l] # "off" => l = "worker"
    BY <2>2 DEF TypeOK, GoroutinesPlaced
  <2>6. stage' = stage /\ accepted' = accepted
    BY <1>0 DEF stateVars
  <2>7. SubscriptionsAreCurrent' /\ GoroutinesPlaced'
    BY <1>0, <2>1, <2>3, <2>5, <2>6, PlacesOf DEF GoroutinesPlaced
  <2> QED
    BY <1>a, <2>3, <2>4, <2>5, <2>7, NotAttending DEF Watchful
<1> QED
  BY <1>1, <1>2, <1>3, <1>4, <1>5 DEF SubscribeStep


LEMMA RunLoopInv ==
  ASSUME Inv, NEW l \in Listeners, RunLoopStep(l)
  PROVE  Inv'
<1> USE DEF Inv
<1>1. /\ UNCHANGED <<stateVars, mainVars, threadVars, goroutineVars, store>>
      /\ SubscriptionsOK
      /\ \E from \in Channels, to \in Channels : HasEvent(l, from) /\ PassEvent(l, from, to)
  BY DEF RunLoopStep, RunLoop, Channels, TypeOK, SubscriptionsOK
<1>2. /\ SubscriptionsOK'
      /\ subscription'[l] # None /\ subscription'[l].details = subscription[l].details
      /\ Pending(l)'
      /\ \A k \in Listeners \ {l} : subscription'[k] = subscription[k]
  BY <1>1, Passed
<1>3. subscription[l] # None
  BY <1>1 DEF HasEvent
<1>4. TypeOK'
  BY <1>1, <1>2 DEF TypeOK, SubscriptionsOK, stateVars, mainVars, threadVars, goroutineVars, Arriving
<1>5. \A k \in Listeners :
         /\ subscription'[k] = None <=> subscription[k] = None
         /\ subscription[k] # None => subscription'[k].details = subscription[k].details
         /\ Pending(k) => Pending(k)'
  BY <1>2, <1>3 DEF Pending, HasEvent
<1>6. SubscriptionsAreCurrent' /\ GoroutinesPlaced'
  BY <1>1, <1>5, ThreadsLeavePlaces
<1>7. ASSUME NEW k \in Watchful PROVE Attends(k)'
  <2>1. k \in Listeners
    BY EventsAssumption DEF Watchful, Goroutines
  <2>2. SameView(k) /\ SameMessages(k)
    BY <1>1 DEF SameView, SameMessages, stateVars
  <2>3. SameWakeups(k)
    <3>1. \A n : Signals(n)' <=> Signals(n)
      BY <1>1 DEF stateVars, Signals, HasQuorumByMsgType, threadVars
    <3> QED
      BY <1>1, <1>5, <2>1, <3>1 DEF SameWakeups, mainVars
  <2> QED
    BY <1>1, <2>2, <2>3, AttendsKept DEF Watchful, goroutineVars
<1> QED
  BY <1>4, <1>6, <1>7 DEF Watchful

\* The receive that wakes l leaves its subscription, and the others alone.
LEMMA Woke ==
  ASSUME Inv, NEW l \in Listeners, Wakes(l)
  PROVE  /\ SubscriptionsOK'
         /\ phase[l] = "waiting" /\ main \in {"running", "teardown"}
         /\ subscription'[l] # None /\ subscription'[l].details = SubscriptionDetails(l)
         /\ subscription[l] # None /\ subscription[l].details = SubscriptionDetails(l)
         /\ subscription[l].event["outputCh"] \in Rounds
         /\ \A k \in Listeners \ {l} : subscription'[k] = subscription[k]
<1>1. HasEvent(l, "outputCh") /\ PassEvent(l, "outputCh", None) /\ "outputCh" \in Channels
  BY DEF Wakes, Receive, Channels
<1>2. SubscriptionsOK /\ phase[l] = "waiting"
  BY DEF Inv, TypeOK, SubscriptionsOK, Wakes
<1>3. subscription[l] # None /\ subscription[l].details = SubscriptionDetails(l)
  BY <1>2 DEF Inv, SubscriptionsAreCurrent
<1>4. main \in {"running", "teardown"}
  BY <1>2, InRound DEF Inv
<1>5. subscription[l].event["outputCh"] \in Rounds
  BY <1>1, <1>2 DEF SubscriptionsOK, Subscription, HasEvent
<1> QED
  BY <1>1, <1>2, <1>3, <1>4, <1>5, Passed

\* Pruning what is not valid leaves what is, and the messages of other views.
LEMMA PruneKeepsValid ==
  ASSUME NEW type, NEW h, NEW r, PruneInvalid(type, h, r, ValidMessages(type, h, r))
  PROVE  /\ store' \subseteq store
         /\ \A m : m \in store /\ (m.type # type \/ IsValidMessage(m)) => m \in store'
         /\ UNCHANGED accepted => ValidMessages(type, h, r)' = ValidMessages(type, h, r)
<1>1. store' = store \ (MessagesOf(type, h, r) \ ValidMessages(type, h, r))
  BY DEF PruneInvalid
<1>2. \A m : m \in store /\ (m.type # type \/ IsValidMessage(m)) => m \in store'
  BY <1>1 DEF MessagesOf, ValidMessages
<1>3. ASSUME UNCHANGED accepted
      PROVE  ValidMessages(type, h, r)' = ValidMessages(type, h, r)
  <2>1. \A m : IsValidMessage(m)' <=> IsValidMessage(m)
    BY <1>3 DEF IsValidMessage
  <2> QED
    BY <1>1, <2>1 DEF ValidMessages, MessagesOf
<1> QED
  BY <1>1, <1>2, <1>3


\* The certificates do not change when the worker drops other messages.
LEMMA CertificatesUnconcerned ==
  ASSUME NEW type, type # "ROUND_CHANGE", NEW h, NEW r,
         PruneInvalid(type, h, r, ValidMessages(type, h, r))
  PROVE  SameMessages("certificates")
BY PruneKeepsValid DEF SameMessages, Concerns, SubscriptionDetails

\* A handler of the worker that was woken: it retries with its condition not met,
\* or is finished with the stage it was in.
LEMMA WorkerHandled ==
  ASSUME Inv, Wakes("worker"), UNCHANGED <<height, round, mainVars, threadVars, seen, found>>,
         store' \subseteq store, SameMessages("certificates"),
         stage' \in Stages, accepted' \in Hashes \cup {None},
         \/ /\ UNCHANGED <<stage, accepted, phase>>
            /\ ~Satisfied("worker")'
         \/ /\ Step("worker", "waiting", "finished")
            /\ stage' = "building" => stage = "building" /\ accepted' = None
  PROVE  Inv'
<1> USE DEF Inv
<1>0. "worker" \in Listeners
  BY EventsAssumption DEF Goroutines
<1>1. /\ SubscriptionsOK'
      /\ phase["worker"] = "waiting" /\ main \in {"running", "teardown"}
      /\ subscription'["worker"] # None
      /\ subscription'["worker"].details = SubscriptionDetails("worker")
      /\ subscription["worker"] # None
      /\ \A k \in Listeners \ {"worker"} : subscription'[k] = subscription[k]
  BY <1>0, Woke
<1>2. \/ phase' = phase
      \/ phase' = [phase EXCEPT !["worker"] = "finished"]
  BY DEF Step
<1>3. TypeOK'
  BY <1>1, <1>2 DEF TypeOK, SubscriptionsOK, GoroutinePhases, mainVars, threadVars, Arriving
<1>4. Alone("worker")
  BY <1>1, <1>2 DEF Alone, mainVars, TypeOK
<1>5. \/ /\ phase'["worker"] = "waiting" /\ stage' = stage /\ accepted' = accepted
         /\ ~Satisfied("worker")'
      \/ phase'["worker"] = "finished"
  <2>1. CASE UNCHANGED <<stage, accepted, phase>> /\ ~Satisfied("worker")'
    BY <1>1, <2>1
  <2>2. CASE Step("worker", "waiting", "finished")
    BY <1>0, <2>2 DEF Step, TypeOK
  <2> QED
    BY <2>1, <2>2
<1>6. /\ SubscriptionDetails("worker").height = height
      /\ SubscriptionDetails("worker").round = SubscriptionDetails("worker")'.round
      /\ UNCHANGED stage => SubscriptionDetails("worker")' = SubscriptionDetails("worker")
  BY DEF SubscriptionDetails
<1>7. (stage' = "building" => accepted' = None) /\ (stage' = "building" => stage = "building")
  BY DEF GoroutinesPlaced
<1>b. stage' = "building" => round > 0
  BY <1>0, <1>1, <1>7 DEF GoroutinesPlaced
<1>8. SubscriptionsAreCurrent' /\ GoroutinesPlaced'
  <2>1. phase'["worker"] \in {"subscribed", "counted", "signal", "waiting"} =>
            subscription'["worker"] # None
            /\ subscription'["worker"].details = SubscriptionDetails("worker")'
    BY <1>1, <1>5, <1>6
  <2>2. phase'["worker"] \notin {"off", "starting", "building", "signal", "counted"}
    BY <1>5
  <2> QED
    BY <1>0, <1>1, <1>4, <1>6, <1>7, <1>b, <2>1, <2>2, PlacesOf
<1>9. Attends("worker")'
  BY <1>5 DEF Attends
<1>10. Attends("certificates")'
  BY <1>0, <1>4, OthersAttend DEF Watchful
<1> QED
  BY <1>3, <1>8, <1>9, <1>10


LEMMA RunNewRoundInv ==
  ASSUME Inv, RunNewRound
  PROVE  Inv'
<1> DEFINE V == ValidMessages("PREPREPARE", height, round)
<1>1. /\ stage = "newRound" /\ Wakes("worker")
      /\ PruneInvalid("PREPREPARE", height, round, V)
      /\ UNCHANGED <<mainVars, threadVars, seen, found, height, round>>
      /\ \/ V = {} /\ UNCHANGED <<stateVars, phase>>
         \/ /\ \E m \in V : accepted' = m.hash
            /\ stage' = "prepare" /\ Step("worker", "waiting", "finished")
  BY DEF RunNewRound, Retry, AcceptProposal, Finishes, stateVars
<1>2. store' \subseteq store /\ SameMessages("certificates")
  BY <1>1, PruneKeepsValid, CertificatesUnconcerned
<1>3. CASE V = {} /\ UNCHANGED <<stateVars, phase>>
  <2>1. V' = {}
    BY <1>1, <1>3, PruneKeepsValid DEF stateVars
  <2>2. SubscriptionDetails("worker") = [type |-> "PREPREPARE", height |-> height, round |-> round,
                                          hasMinRound |-> FALSE]
    BY <1>1 DEF SubscriptionDetails, WorkerType
  <2>3. SubscriptionDetails("worker")' = SubscriptionDetails("worker")
    BY <1>3 DEF SubscriptionDetails, stateVars
  <2>4. ~Satisfied("worker")'
    BY <1>1, <1>3, <2>1, <2>2, <2>3 DEF Satisfied, SendersOf, HasQuorumByMsgType, stateVars
  <2>5. stage' \in Stages /\ accepted' \in Hashes \cup {None}
    BY <1>3 DEF Inv, TypeOK, stateVars
  <2> QED
    BY <1>1, <1>2, <1>3, <2>4, <2>5, WorkerHandled DEF stateVars
<1>4. CASE /\ \E m \in V : accepted' = m.hash
           /\ stage' = "prepare" /\ Step("worker", "waiting", "finished")
  <2>1. stage' \in Stages /\ accepted' \in Hashes \cup {None}
    BY <1>4 DEF Inv, TypeOK, Stages, ValidMessages, MessagesOf, Message
  <2> QED
    BY <1>1, <1>2, <1>4, <2>1, WorkerHandled
<1> QED
  BY <1>1, <1>3, <1>4

LEMMA HandleVotesInv ==
  ASSUME Inv, NEW type \in {"PREPARE", "COMMIT"}, NEW nextStage \in {"commit", "fin"},
         type = WorkerType[stage], HandleVotes(type, nextStage)
  PROVE  Inv'
<1> DEFINE V == ValidMessages(type, height, round)
<1>1. /\ Wakes("worker")
      /\ PruneInvalid(type, height, round, V)
      /\ UNCHANGED <<mainVars, threadVars, seen, found, height, round, accepted>>
      /\ \/ ~HasQuorumByMsgType(type, SendersOf(V)) /\ UNCHANGED <<stateVars, phase>>
         \/ stage' = nextStage /\ Step("worker", "waiting", "finished")
  BY DEF HandleVotes, Retry, Finishes, stateVars
<1>2. store' \subseteq store /\ SameMessages("certificates")
  BY <1>1, PruneKeepsValid, CertificatesUnconcerned
<1>3. CASE ~HasQuorumByMsgType(type, SendersOf(V)) /\ UNCHANGED <<stateVars, phase>>
  <2>1. V' = V
    BY <1>1, PruneKeepsValid
  <2>2. /\ SubscriptionDetails("worker").type = type
        /\ SubscriptionDetails("worker").height = height
        /\ SubscriptionDetails("worker").round = round
    BY DEF SubscriptionDetails
  <2>3. SubscriptionDetails("worker")' = SubscriptionDetails("worker")
    BY <1>3 DEF SubscriptionDetails, stateVars
  <2>5. ~HasQuorumByMsgType(type, SendersOf(V))'
    BY <1>1, <1>3, <2>1 DEF SendersOf, HasQuorumByMsgType
  <2>4. ~Satisfied("worker")'
    BY <1>1, <2>2, <2>3, <2>5 DEF Satisfied
  <2>6. stage' \in Stages /\ accepted' \in Hashes \cup {None}
    BY <1>3 DEF Inv, TypeOK, stateVars
  <2> QED
    BY <1>1, <1>2, <1>3, <2>4, <2>6, WorkerHandled DEF stateVars
<1>4. CASE stage' = nextStage /\ Step("worker", "waiting", "finished")
  <2>1. stage' \in Stages /\ accepted' \in Hashes \cup {None} /\ stage' # "building"
    BY <1>1, <1>4 DEF Inv, TypeOK, Stages
  <2> QED
    BY <1>1, <1>2, <1>4, <2>1, WorkerHandled
<1> QED
  BY <1>1, <1>3, <1>4

\* A proposer, or the watcher, that finds no certificate has none for the round of
\* its subscription.
LEMMA NoCertificate ==
  ASSUME Inv, NEW l \in Watchful, CertificateRounds = {},
         SubscriptionDetails(l).type = "ROUND_CHANGE",
         SubscriptionDetails(l).round \in Nat \ {0},
         SubscriptionDetails(l).round = round => accepted = None
  PROVE  ~Satisfied(l)
<1> DEFINE d == SubscriptionDetails(l)
           S == SendersOf(ValidMessages(d.type, d.height, d.round))
<1> SUFFICES ASSUME Satisfied(l) PROVE FALSE
  OBVIOUS
<1>1. HasQuorumByMsgType("ROUND_CHANGE", S)
  BY DEF Satisfied
<1>2. S # {}
  BY <1>1, QuorumNotEmpty
<1>3. d.round \in Rounds
  BY <1>2, StoredSenders DEF Inv
<1>4. S \in Quorums /\ d.height = height
  BY <1>1 DEF HasQuorumByMsgType, SubscriptionDetails
<1>5. d.round \in CertificateRounds
  BY <1>3, <1>4 DEF CertificateRounds
<1> QED
  BY <1>5

LEMMA WaitForRCCInv ==
  ASSUME Inv, WaitForRCC
  PROVE  Inv'
<1>0. "worker" \in Listeners
  BY EventsAssumption DEF Goroutines
<1>1. /\ stage = "building" /\ Wakes("worker")
      /\ UNCHANGED <<mainVars, threadVars, seen, found, store, stateVars>>
      /\ \/ CertificateRounds = {} /\ UNCHANGED phase
         \/ Step("worker", "waiting", "finished")
  BY DEF WaitForRCC, Retry, Finishes
<1>2. UNCHANGED <<height, round, stage, accepted>> /\ accepted = None /\ stage' \in Stages
  BY <1>1 DEF stateVars, Inv, GoroutinesPlaced, TypeOK
<1>3. SameMessages("certificates") /\ store' \subseteq store
  BY <1>1 DEF SameMessages
<1>4. CASE CertificateRounds = {} /\ UNCHANGED phase
  <2>1. round > 0 /\ round \in Nat
    BY <1>0, <1>1, Woke, EventsAssumption DEF Inv, GoroutinesPlaced, TypeOK
  <2>2. ~Satisfied("worker")
    BY <1>1, <1>2, <1>4, <2>1, NoCertificate DEF SubscriptionDetails, WorkerType, Watchful
  <2>3. ~Satisfied("worker")'
    BY <1>1, <1>2, <2>2, SameSatisfied DEF Watchful, SameView, SameMessages
  <2> QED
    BY <1>1, <1>2, <1>3, <1>4, <2>3, WorkerHandled
<1>5. CASE Step("worker", "waiting", "finished")
  BY <1>1, <1>2, <1>3, <1>5, WorkerHandled
<1> QED
  BY <1>1, <1>4, <1>5

LEMMA ProposeInv ==
  ASSUME Inv, Propose
  PROVE  Inv'
<1> USE DEF Inv
<1>0. "worker" \in Listeners
  BY EventsAssumption DEF Goroutines
<1>1. /\ stage' = "prepare" /\ accepted' \in Hashes /\ phase["worker"] \in {"starting", "building"}
      /\ phase' = [phase EXCEPT !["worker"] = "starting"]
      /\ UNCHANGED <<height, round, mainVars, threadVars, seen, found, store, subscription>>
  BY DEF Propose, AcceptProposal, Step
<1>2. main \in {"running", "teardown"} /\ subscription["worker"] = None
  BY <1>0, <1>1, InRound DEF GoroutinesPlaced
<1>3. TypeOK'
  BY <1>1 DEF TypeOK, GoroutinePhases, Stages, mainVars, threadVars, Arriving
<1>4. Alone("worker") /\ phase'["worker"] = "starting"
  BY <1>0, <1>1 DEF Alone, mainVars, TypeOK
<1>5. SubscriptionsAreCurrent' /\ GoroutinesPlaced'
  BY <1>0, <1>1, <1>2, <1>4, PlacesOf
<1>6. Attends("worker")'
  BY <1>4, NotAttending
<1>7. Attends("certificates")'
  BY <1>0, <1>1, <1>4, OthersAttend DEF Watchful, SameMessages
<1> QED
  BY <1>3, <1>5, <1>6, <1>7


\* A watcher that was woken retries, or sends what it found.
LEMMA WatcherHandled ==
  ASSUME Inv, NEW l \in {"proposals", "certificates"}, Wakes(l),
         UNCHANGED <<stateVars, mainVars, threadVars, seen>>,
         store' \subseteq store, SameMessages("worker"), SameMessages("certificates"),
         \/ UNCHANGED <<phase, found>> /\ (l = "certificates" => ~Satisfied(l))
         \/ \E r \in Rounds, hash \in Hashes \cup {None} : Finds(l, r, hash)
  PROVE  Inv'
<1> USE DEF Inv
<1>0. l \in Listeners /\ l # "worker"
  BY EventsAssumption DEF Goroutines
<1>1. /\ SubscriptionsOK'
      /\ phase[l] = "waiting" /\ main \in {"running", "teardown"}
      /\ subscription'[l] # None /\ subscription'[l].details = SubscriptionDetails(l)
      /\ \A k \in Listeners \ {l} : subscription'[k] = subscription[k]
  BY <1>0, Woke
<1>2. /\ SubscriptionDetails(l)' = SubscriptionDetails(l)
      /\ SubscriptionDetails(l).height = height
      /\ stage' = stage /\ accepted' = accepted
  BY DEF SubscriptionDetails, stateVars
<1>3. \/ phase' = phase /\ found' = found /\ (l = "certificates" => ~Satisfied(l))
      \/ /\ phase' = [phase EXCEPT ![l] = "signalling"]
         /\ \E t \in Target : found' = [found EXCEPT ![l] = t]
  <2>1. ASSUME NEW r \in Rounds, NEW hash \in Hashes \cup {None}, Finds(l, r, hash)
        PROVE  /\ phase' = [phase EXCEPT ![l] = "signalling"]
               /\ \E t \in Target : found' = [found EXCEPT ![l] = t]
    <3> DEFINE t == [main |-> "running", round |-> r, accepted |-> hash]
    <3>1. t \in Target
      BY DEF Target
    <3>2. found' = [found EXCEPT ![l] = t] /\ phase' = [phase EXCEPT ![l] = "signalling"]
      BY <2>1 DEF Finds, Step
    <3> QED
      BY <3>1, <3>2
  <2> QED
    BY <2>1
<1>4. /\ phase' \in [Listeners -> GoroutinePhases] /\ found' \in [Listeners -> Target \cup {None}]
      /\ \A k \in Listeners \ {l} : phase'[k] = phase[k] /\ found'[k] = found[k]
      /\ \/ phase'[l] = "waiting" /\ (l = "certificates" => ~Satisfied(l))
         \/ phase'[l] = "signalling" /\ found'[l] # None
  BY <1>0, <1>1, <1>3, NoneAssumption DEF TypeOK, GoroutinePhases
<1>5. TypeOK'
  BY <1>1, <1>4 DEF TypeOK, SubscriptionsOK, stateVars, mainVars, threadVars, Arriving
<1>6. Alone(l)
  BY <1>1, <1>4 DEF Alone, stateVars, mainVars
<1>7. stage' = "building" => accepted' = None
  BY <1>2 DEF GoroutinesPlaced
<1>8. SubscriptionsAreCurrent' /\ GoroutinesPlaced'
  BY <1>0, <1>1, <1>2, <1>4, <1>6, <1>7, PlacesOf
<1>9. Attends("worker")'
  BY <1>0, <1>2, <1>6, OthersAttend DEF Watchful
<1>10. Attends("certificates")'
  <2>1. CASE l = "certificates"
    <3>1. ~Satisfied(l) => ~Satisfied(l)'
      BY <2>1, SameSatisfied DEF Watchful, SameView, stateVars
    <3> QED
      BY <1>4, <2>1, <3>1 DEF Attends
  <2>2. CASE l # "certificates"
    BY <1>0, <1>6, <2>2, OthersAttend DEF Watchful
  <2> QED
    BY <2>1, <2>2
<1> QED
  BY <1>5, <1>8, <1>9, <1>10

LEMMA WatchForFutureProposalInv ==
  ASSUME Inv, WatchForFutureProposal
  PROVE  Inv'
<1> DEFINE r == subscription["proposals"].event["outputCh"]
           V == ValidMessages("PREPREPARE", height, r)
<1>0. "proposals" \in Listeners
  BY EventsAssumption DEF Goroutines
<1>1. /\ Wakes("proposals")
      /\ PruneInvalid("PREPREPARE", height, r, V)
      /\ UNCHANGED <<mainVars, threadVars, seen, stateVars>>
      /\ \/ UNCHANGED <<phase, found>>
         \/ \E m \in V : Finds("proposals", r, m.hash)
  BY DEF WatchForFutureProposal, Retry, Finds
<1>2. r \in Rounds
  BY <1>0, <1>1, Woke
<1>3. \A m \in V : m.hash \in Hashes
  BY DEF Inv, TypeOK, ValidMessages, MessagesOf, Message
<1>4. store' \subseteq store /\ SameMessages("worker") /\ SameMessages("certificates")
  BY <1>1, PruneKeepsValid DEF SameMessages, Concerns
<1> HIDE DEF r, V
<1> QED
  BY <1>1, <1>2, <1>3, <1>4, WatcherHandled

LEMMA WatchForRoundChangeCertificatesInv ==
  ASSUME Inv, WatchForRoundChangeCertificates
  PROVE  Inv'
<1>1. /\ Wakes("certificates")
      /\ UNCHANGED <<mainVars, threadVars, seen, store, stateVars>>
      /\ \/ CertificateRounds = {} /\ UNCHANGED <<phase, found>>
         \/ \E r \in CertificateRounds : Finds("certificates", r, None)
  BY DEF WatchForRoundChangeCertificates, Retry, Finds
<1>2. store' \subseteq store /\ SameMessages("worker") /\ SameMessages("certificates")
  BY <1>1 DEF SameMessages
<1>3. CertificateRounds \subseteq Rounds
  BY DEF CertificateRounds
<1>4. CertificateRounds = {} => ~Satisfied("certificates")
  <2>1. round \in Nat
    BY EventsAssumption DEF Inv, TypeOK
  <2> QED
    BY <2>1, NoCertificate DEF Watchful, SubscriptionDetails
<1> QED
  BY <1>1, <1>2, <1>3, <1>4, WatcherHandled

\* A goroutine that stops: out of the round, or about to unsubscribe.
LEMMA LeaveInv ==
  ASSUME Inv, NEW l \in Listeners, phase[l] \in {"waiting", "signalling"}, Leave(l),
         UNCHANGED <<stateVars, scenario, threadVars, seen, found, store, subscription>>,
         main' \in {"running", "teardown"}, next' \in Target \cup {None},
         main' = "teardown" => next' # None
  PROVE  Inv'
<1> USE DEF Inv
<1>1. /\ phase' \in [Listeners -> GoroutinePhases]
      /\ \A k \in Listeners \ {l} : phase'[k] = phase[k]
      /\ \/ phase'[l] = "off" /\ subscription[l] = None
         \/ phase'[l] = "leaving"
  BY DEF Leave, TypeOK, GoroutinePhases
<1>2. TypeOK'
  BY <1>1 DEF TypeOK, stateVars, threadVars, Arriving
<1>3. \A k \in Listeners : SubscriptionDetails(k)' = SubscriptionDetails(k)
  BY DEF stateVars, SubscriptionDetails
<1>4. SubscriptionsAreCurrent'
  BY <1>1, <1>3 DEF SubscriptionsAreCurrent, stateVars
<1>5. GoroutinesPlaced'
  BY <1>1, <1>3 DEF GoroutinesPlaced, stateVars
<1>6. ASSUME NEW k \in Watchful PROVE Attends(k)'
  <2>0. k \in Listeners
    BY EventsAssumption DEF Watchful, Goroutines
  <2>1. CASE k = l
    BY <1>1, <2>1, NotAttending
  <2>2. CASE k # l
    <3>1. SameView(k) /\ SameMessages(k)
      BY DEF SameView, SameMessages, stateVars
    <3>2. SameWakeups(k)
      BY DEF SameWakeups, stateVars, Signals, HasQuorumByMsgType, threadVars, Pending, HasEvent
    <3> QED
      BY <1>1, <2>0, <2>2, <3>1, <3>2, AttendsKept DEF Watchful
  <2> QED
    BY <2>1, <2>2
<1> QED
  BY <1>2, <1>4, <1>5, <1>6 DEF Watchful


\* All goroutines are out: what is left of Inv.
LEMMA AllOff ==
  ASSUME TypeOK', (main = "teardown")' => (next # None)', (stage = "building" => accepted = None)',
         \A l \in Listeners : subscription'[l] = None /\ phase'[l] = "off"
  PROVE  Inv'
<1>1. SubscriptionsAreCurrent' /\ GoroutinesPlaced'
  BY DEF SubscriptionsAreCurrent, GoroutinesPlaced
<1>2. \A l \in Watchful : Attends(l)'
  BY EventsAssumption DEF Attends, Watchful, Goroutines
<1> QED
  BY <1>1, <1>2 DEF Inv, Watchful

\* The goroutines of a round start when all others are out.
LEMMA StartRoundInv ==
  ASSUME Inv, \A l \in Listeners : phase[l] = "off",
         NEW r \in Rounds, NEW hash \in Hashes \cup {None}, StartRound(r, hash),
         main' = "running", next' \in Target \cup {None},
         store' \subseteq store, UNCHANGED <<height, scenario, threadVars, subscription>>
  PROVE  Inv'
<1> USE DEF Inv
<1>1. /\ round' = r /\ accepted' = hash
      /\ stage' \in {"prepare", "building", "newRound"}
      /\ stage' = "building" => hash = None
      /\ phase' \in [Listeners -> {"starting", "off"}]
      /\ seen' = [l \in Listeners |-> {}] /\ found' = [l \in Listeners |-> None]
  BY DEF StartRound
<1>2. TypeOK'
  BY <1>1 DEF TypeOK, Stages, GoroutinePhases, threadVars, Arriving
<1>3. \A l \in Listeners : subscription'[l] = None /\ phase'[l] \in {"starting", "off"}
  BY <1>1 DEF GoroutinesPlaced
<1>4. SubscriptionsAreCurrent' /\ GoroutinesPlaced'
  BY <1>1, <1>3 DEF SubscriptionsAreCurrent, GoroutinesPlaced
<1>5. \A l \in Watchful : Attends(l)'
  BY <1>3, NotAttending, EventsAssumption DEF Watchful, Goroutines
<1> QED
  BY <1>2, <1>4, <1>5 DEF Watchful

LEMMA SequenceInv ==
  ASSUME Inv, SequenceStep
  PROVE  Inv'
<1> USE DEF Inv
<1>0. main \notin {"running", "teardown"} =>
         \A l \in Listeners : phase[l] = "off" /\ subscription[l] = None
  BY DEF GoroutinesPlaced
<1>1. ASSUME NEW h \in Heights, Call(h) PROVE Inv'
  <2>1. /\ main = "idle" /\ main' = "reset"
        /\ height' = h /\ round' = 0 /\ accepted' = None /\ stage' = "newRound"
        /\ UNCHANGED <<next, scenario, threadVars, goroutineVars, store, subscription>>
    BY <1>1 DEF Call
  <2>2. TypeOK'
    BY <2>1, EventsAssumption DEF TypeOK, Stages, threadVars, goroutineVars, Arriving
  <2> QED
    BY <1>0, <2>1, <2>2, AllOff DEF goroutineVars
<1>2. CASE StartSequence
  <2>1. CASE main' = "running" /\ PruneByHeight(height) /\ StartRound(0, None) /\ UNCHANGED height
    <3>1. store' \subseteq store /\ UNCHANGED <<scenario, threadVars, subscription, next>> /\ main = "reset"
      BY <1>2, <2>1 DEF StartSequence, PruneByHeight
    <3> QED
      BY <1>0, <2>1, <3>1, StartRoundInv, EventsAssumption DEF TypeOK
  <2>2. CASE main' = "idle" /\ UNCHANGED <<store, stateVars, goroutineVars>>
    <3>1. UNCHANGED <<scenario, threadVars, subscription, next>> /\ main = "reset"
      BY <1>2 DEF StartSequence
    <3>2. TypeOK'
      BY <2>2, <3>1 DEF TypeOK, stateVars, threadVars, goroutineVars, Arriving
    <3> QED
      BY <1>0, <2>2, <3>1, <3>2, AllOff DEF goroutineVars, stateVars, GoroutinesPlaced
  <2> QED
    BY <1>2, <2>1, <2>2 DEF StartSequence
<1>3. CASE TornDown
  <2>1. /\ next \in Target /\ main' = next.main /\ next' = None
        /\ \A l \in Listeners : phase[l] = "off" /\ subscription[l] = None
        /\ UNCHANGED <<scenario, threadVars, store, subscription>>
    BY <1>3 DEF TornDown, TypeOK, GoroutinesPlaced
  <2>2. CASE next.main = "running"
    <3>1. StartRound(next.round, next.accepted) /\ UNCHANGED height
      BY <1>3, <2>2 DEF TornDown
    <3>2. next.round \in Rounds /\ next.accepted \in Hashes \cup {None}
      BY <2>1 DEF Target
    <3> QED
      BY <2>1, <2>2, <3>1, <3>2, StartRoundInv
  <2>3. CASE next.main # "running"
    <3>1. UNCHANGED <<stateVars, goroutineVars>> /\ main' \in {"inserting", "idle"}
      BY <1>3, <2>1, <2>3 DEF TornDown, Target
    <3>2. TypeOK'
      BY <2>1, <3>1 DEF TypeOK, stateVars, threadVars, goroutineVars, Arriving
    <3> QED
      BY <2>1, <3>1, <3>2, AllOff DEF goroutineVars, stateVars, GoroutinesPlaced
  <2> QED
    BY <2>2, <2>3
<1>4. CASE InsertBlock
  <2>1. /\ main = "inserting" /\ main' = "idle" /\ store' \subseteq store
        /\ UNCHANGED <<stateVars, next, scenario, threadVars, goroutineVars, subscription>>
    BY <1>4 DEF InsertBlock, PruneByHeight
  <2>2. TypeOK'
    BY <2>1 DEF TypeOK, stateVars, threadVars, goroutineVars, Arriving
  <2> QED
    BY <1>0, <2>1, <2>2, AllOff DEF goroutineVars, stateVars, GoroutinesPlaced
<1>t. ASSUME NEW t, Takes(t) 
      PROVE  /\ main = "running" /\ main' = "teardown" /\ next' = t
             /\ UNCHANGED <<stateVars, scenario, threadVars, seen, found, store, subscription>>
  BY <1>t DEF Takes
<1>5. ASSUME NEW l \in Listeners, TakeSignal(l) PROVE Inv'
  <2> DEFINE t == IF l = "worker"
                  THEN [main |-> "inserting", round |-> round, accepted |-> accepted]
                  ELSE found[l]
  <2>1. phase[l] = "signalling" /\ Leave(l) /\ Takes(t)
    BY <1>5 DEF TakeSignal
  <2>2. t \in Target
    BY <2>1 DEF TypeOK, Target, GoroutinesPlaced
  <2> HIDE DEF t
  <2> QED
    BY <1>t, <2>1, <2>2, LeaveInv, NoneAssumption
<1>6. ASSUME NEW t \in Target, Takes(t), UNCHANGED phase PROVE Inv'
  <2>1. /\ main = "running" /\ main' = "teardown" /\ next' = t
        /\ UNCHANGED <<stateVars, scenario, threadVars, seen, found, store, subscription>>
    BY <1>t, <1>6
  <2>2. TypeOK'
    BY <1>6, <2>1 DEF TypeOK, stateVars, threadVars, Arriving
  <2>3. \A k \in Listeners : SubscriptionDetails(k)' = SubscriptionDetails(k)
    BY <2>1 DEF stateVars, SubscriptionDetails
  <2>4. SubscriptionsAreCurrent'
    BY <1>6, <2>1, <2>3 DEF SubscriptionsAreCurrent, stateVars
  <2>5. GoroutinesPlaced'
    BY <1>6, <2>1, <2>3, NoneAssumption DEF GoroutinesPlaced, stateVars
  <2>6. ASSUME NEW k \in Watchful PROVE Attends(k)'
    <3>1. SameView(k) /\ SameMessages(k)
      BY <2>1 DEF SameView, SameMessages, stateVars
    <3>2. SameWakeups(k)
      BY <2>1 DEF SameWakeups, stateVars, Signals, HasQuorumByMsgType, threadVars, Pending, HasEvent
    <3> QED
      BY <1>6, <2>1, <3>1, <3>2, AttendsKept DEF Watchful
  <2> QED
    BY <2>2, <2>4, <2>5, <2>6 DEF Watchful
<1>7. CASE RoundExpired
  <2>1. round + 1 \in Rounds
    BY <1>7, EventsAssumption DEF RoundExpired, TypeOK
  <2>2. [main |-> "running", round |-> round + 1, accepted |-> None] \in Target
    BY <2>1 DEF Target
  <2> QED
    BY <1>6, <1>7, <2>2 DEF RoundExpired
<1>8. CASE Cancelled
  <2>1. [main |-> "idle", round |-> round, accepted |-> accepted] \in Target
    BY DEF Target, TypeOK
  <2> QED
    BY <1>6, <1>8, <2>1 DEF Cancelled
<1> QED
  BY <1>1, <1>2, <1>3, <1>4, <1>5, <1>7, <1>8 DEF SequenceStep

LEMMA GiveUpInv ==
  ASSUME Inv, NEW l \in Listeners, GiveUp(l)
  PROVE  Inv'
BY LeaveInv DEF GiveUp, Inv, TypeOK, GoroutinesPlaced, mainVars

LEMMA NextInv == Inv /\ [Next]_vars => Inv'
<1> SUFFICES ASSUME Inv, [Next]_vars PROVE Inv'
  OBVIOUS
<1>1. CASE UNCHANGED vars
  <2> USE <1>1 DEF vars, stateVars, mainVars, threadVars, goroutineVars, Inv
  <2>1. TypeOK'
    BY DEF TypeOK, Arriving
  <2>2. SubscriptionsAreCurrent' /\ GoroutinesPlaced'
    BY ThreadsLeavePlaces
  <2>3. ASSUME NEW k \in Watchful PROVE Attends(k)'
    <3>1. SameView(k) /\ SameMessages(k)
      BY DEF SameView, SameMessages
    <3>2. SameWakeups(k)
      BY DEF SameWakeups, Signals, HasQuorumByMsgType, Pending, HasEvent
    <3> QED
      BY <3>1, <3>2, AttendsKept DEF Watchful
  <2> QED
    BY <2>1, <2>2, <2>3 DEF Watchful
<1>2. ASSUME NEW m \in Arriving, AddMessage(m) PROVE Inv'
  BY <1>2, AddMessageInv
<1>3. ASSUME NEW l \in Listeners, SubscribeStep(l) \/ RunLoopStep(l) \/ GiveUp(l) PROVE Inv'
  BY <1>3, SubscribeStepInv, RunLoopInv, GiveUpInv
<1>4. ASSUME NEW l \in Listeners, Handle(l) PROVE Inv'
  <2>1. CASE RunPrepare
    BY <2>1, HandleVotesInv DEF RunPrepare, WorkerType
  <2>2. CASE RunCommit
    BY <2>2, HandleVotesInv DEF RunCommit, WorkerType
  <2> QED
    BY <1>4, <2>1, <2>2, RunNewRoundInv, WaitForRCCInv, WatchForFutureProposalInv,
       WatchForRoundChangeCertificatesInv DEF Handle
<1>5. CASE Propose
  BY <1>5, ProposeInv
<1>6. CASE SequenceStep
  BY <1>6, SequenceInv
<1> QED
  BY <1>1, <1>2, <1>3, <1>4, <1>5, <1>6 DEF Next

-----------------------------------------------------------------------------
(* The theorems *)

LEMMA Invariance == Spec => []Inv
<1>1. Init => Inv
  BY InitInv
<1>2. Inv /\ [Next]_vars => Inv'
  BY NextInv
<1> QED
  BY <1>1, <1>2, PTL DEF Spec

\* Types, for any number of threads and any order of their steps.
THEOREM TypeCorrect == Spec => []TypeOK
BY Invariance, PTL DEF Inv

\* Every subscription is for the view the validator is in, and none outlives its
\* round: deferred calls of Unsubscribe and the wait in teardown see to it.
THEOREM SubscriptionsCurrent == Spec => []SubscriptionsAreCurrent
BY Invariance, PTL DEF Inv

\* subscribe's look at the store after registering, and AddMessage's count after
\* storing, leave no order of the two in which a wakeup is lost.
THEOREM WakeupsKept == Spec => []NoLostWakeup
<1>1. Inv => NoLostWakeup
  BY DEF Inv, Attends, NoLostWakeup
<1> QED
  BY <1>1, Invariance, PTL


\* What a step does to the store: a thread puts its message there, a handler drops
\* what is not valid in its view, RunSequence drops what is below the height.
LEMMA StoreSteps ==
  ASSUME TypeOK, Next
  PROVE  \/ store' = store
         \/ \E m \in Arriving : thread[m] = "accepted" /\ Put(m)
         \/ PruneByHeight(height)
         \/ \E type \in {"PREPREPARE", "PREPARE", "COMMIT"}, r \in Int \cup {None} :
               PruneInvalid(type, height, r, ValidMessages(type, height, r))
<1>1. ASSUME NEW m \in Arriving, AddMessage(m)
      PROVE  store' = store \/ (thread[m] = "accepted" /\ Put(m))
  BY <1>1 DEF AddMessage, Consider, Store, Count, CheckQuorum, Signal, Goes
<1>2. ASSUME NEW l \in Listeners, SubscribeStep(l) \/ RunLoopStep(l) \/ GiveUp(l)
      PROVE  store' = store
  BY <1>2 DEF SubscribeStep, Subscribe, LookAtStore, CheckSeen, SignalSeen, Unsubscribe,
     RunLoopStep, GiveUp
<1>3. CASE Propose \/ WaitForRCC \/ WatchForRoundChangeCertificates
  BY <1>3 DEF Propose, WaitForRCC, WatchForRoundChangeCertificates
<1>4. CASE RunNewRound
  BY <1>4, EventsAssumption DEF RunNewRound, TypeOK
<1>5. CASE RunPrepare \/ RunCommit
  BY <1>5, EventsAssumption DEF RunPrepare, RunCommit, HandleVotes, TypeOK
<1>6. CASE WatchForFutureProposal
  <2> DEFINE r == subscription["proposals"].event["outputCh"]
  <2>1. PruneInvalid("PREPREPARE", height, r, ValidMessages("PREPREPARE", height, r))
    BY <1>6 DEF WatchForFutureProposal
  <2>2. "proposals" \in Listeners /\ HasEvent("proposals", "outputCh")
    BY <1>6, EventsAssumption DEF Goroutines, WatchForFutureProposal, Wakes, Receive
  <2>3. subscription["proposals"] \in Subscription
    BY <2>2 DEF TypeOK, HasEvent
  <2>4. "outputCh" \in Channels
    BY DEF Channels
  <2>5. r \in Rounds \cup {None}
    BY <2>3, <2>4 DEF Subscription
  <2>6. \A i \in Rounds \cup {None} : i \in Int \cup {None}
    BY EventsAssumption
  <2>7. r \in Int \cup {None}
    BY <2>5, <2>6
  <2> QED
    BY <2>1, <2>7
<1>7. CASE SequenceStep
  BY <1>7 DEF SequenceStep, Call, StartSequence, TornDown, InsertBlock, TakeSignal, RoundExpired,
     Cancelled, Takes
<1> QED
  BY <1>1, <1>2, <1>3, <1>4, <1>5, <1>6, <1>7 DEF Next, Handle

\* The height never goes back, and threads do not go back to storing.
LEMMA Progress ==
  ASSUME TypeOK, Next
  PROVE  /\ height' >= height /\ height \in Int /\ height' \in Int
         /\ Arriving' = Arriving
         /\ \A m \in Arriving : thread'[m] = thread[m]
                \/ (thread[m] = "accepted" /\ Put(m))
                \/ thread[m] \notin {"sent", "accepted", "refused"}
                \/ thread'[m] \in {"sent", "accepted", "refused"}
<1>0. height \in Int /\ height >= height /\ \A h \in Heights : h \in Int
  BY EventsAssumption DEF TypeOK
<1>1. ASSUME UNCHANGED <<height, scenario, thread>>
      PROVE  height' = height /\ Arriving' = Arriving /\ thread' = thread
  BY <1>1 DEF Arriving
<1>2. CASE \E n \in Arriving : AddMessage(n)
  <2>1. PICK n \in Arriving : AddMessage(n)
    BY <1>2
  <2>2. UNCHANGED <<height, scenario>>
    BY <2>1 DEF AddMessage, Consider, Store, Count, CheckQuorum, Signal, stateVars, mainVars
  <2>3. \A m \in Arriving \ {n} : thread'[m] = thread[m]
    BY <2>1 DEF AddMessage, Consider, Store, Count, CheckQuorum, Signal, Goes, TypeOK
  <2>4. \/ thread[n] = "accepted" /\ Put(n)
        \/ thread[n] \notin {"sent", "accepted", "refused"}
        \/ thread'[n] \in {"sent", "accepted", "refused"}
    BY <2>1 DEF AddMessage, Consider, Store, Count, CheckQuorum, Signal, Goes, TypeOK
  <2>5. Arriving' = Arriving
    BY <2>2 DEF Arriving
  <2> QED
    BY <1>0, <2>2, <2>3, <2>4, <2>5
<1>3. CASE \E l \in Listeners : SubscribeStep(l) \/ RunLoopStep(l) \/ GiveUp(l)
  <2>1. UNCHANGED <<height, scenario, thread>>
    BY <1>3 DEF SubscribeStep, Subscribe, LookAtStore, CheckSeen, SignalSeen, Unsubscribe,
       RunLoopStep, GiveUp, stateVars, mainVars, threadVars
  <2> QED
    BY <1>0, <1>1, <2>1
<1>4. CASE \E l \in Listeners : Handle(l)
  <2>1. UNCHANGED <<height, scenario, thread>>
    BY <1>4 DEF Handle, RunNewRound, RunPrepare, RunCommit, HandleVotes, WaitForRCC,
       WatchForFutureProposal, WatchForRoundChangeCertificates, Retry, Finds, AcceptProposal,
       stateVars, mainVars, threadVars
  <2> QED
    BY <1>0, <1>1, <2>1
<1>5. CASE Propose
  <2>1. UNCHANGED <<height, scenario, thread>>
    BY <1>5 DEF Propose, AcceptProposal, mainVars, threadVars
  <2> QED
    BY <1>0, <1>1, <2>1
<1>6. CASE SequenceStep
  <2>1. UNCHANGED <<scenario, thread>>
    BY <1>6 DEF SequenceStep, Call, StartSequence, TornDown, InsertBlock, TakeSignal, RoundExpired,
       Cancelled, Takes, threadVars
  <2>2. height' = height \/ \E h \in Heights : height' = h /\ h >= height
    BY <1>6 DEF SequenceStep, Call, StartSequence, TornDown, InsertBlock, TakeSignal, RoundExpired,
       Cancelled, Takes, stateVars
  <2>3. height' \in Int /\ height' >= height
    BY <1>0, <2>2
  <2>4. Arriving' = Arriving
    BY <2>1 DEF Arriving
  <2> QED
    BY <1>0, <2>1, <2>3, <2>4
<1> QED
  BY <1>2, <1>3, <1>4, <1>5, <1>6 DEF Next

\* Early messages stay: every step that drops messages drops others.
LEMMA EarlyStep ==
  ASSUME TypeOK, EarlyMessagesKept, Next
  PROVE  EarlyMessagesKept'
<1> SUFFICES ASSUME NEW m \in Arriving, Delivered(m)',
                    \/ m.height > height'
                    \/ /\ m.height = height' /\ m.type \in {"PREPREPARE", "ROUND_CHANGE"}
                       /\ IsValidMessage(m)'
             PROVE  m \in store'
  BY Progress DEF EarlyMessagesKept
<1>1. CASE thread[m] = "accepted" /\ Put(m)
  BY <1>1 DEF Put
<1>2. CASE ~(thread[m] = "accepted" /\ Put(m))
  <2>1. Delivered(m)
    BY <1>2, Progress DEF Delivered
  <2>0. m.height \in Int
    <3>1. m \in Message
      BY ArrivingTyped
    <3>2. m.height \in Heights
      BY <3>1 DEF Message
    <3>3. \A h \in Heights : h \in Int
      BY EventsAssumption
    <3> QED
      BY <3>2, <3>3
  <2>2. \/ m.height > height
        \/ m.height = height /\ m.type \in {"PREPREPARE", "ROUND_CHANGE"}
    BY <2>0, Progress
  <2>3. m.type \in {"PREPREPARE", "ROUND_CHANGE"} => (IsValidMessage(m)' <=> IsValidMessage(m))
    BY DEF IsValidMessage
  <2>4. ASSUME m.height = height, ~IsValidMessage(m) PROVE FALSE
    <3>1. height' = height
      BY <2>4, <2>0, Progress
    <3>2. m.type \in {"PREPREPARE", "ROUND_CHANGE"} /\ IsValidMessage(m)'
      BY <2>4, <3>1, Progress
    <3> QED
      BY <2>3, <2>4, <3>2
  <2>5. m \in store
    BY <2>1, <2>2, <2>4 DEF EarlyMessagesKept
  <2>6. CASE store' = store
    BY <2>5, <2>6
  <2>7. ASSUME NEW n \in Arriving, thread[n] = "accepted", Put(n) PROVE m \in store'
    <3>1. n # m
      BY <1>2, <2>7
    <3>2. ~SameKey(n, m)
      BY <2>1, <3>1 DEF Delivered, SameKey
    <3> QED
      BY <2>5, <2>7, <3>2 DEF Put
  <2>8. CASE PruneByHeight(height)
    BY <2>2, <2>5, <2>8, <2>0, Progress DEF PruneByHeight
  <2>9. ASSUME NEW type \in {"PREPREPARE", "PREPARE", "COMMIT"}, NEW r \in Int \cup {None},
               PruneInvalid(type, height, r, ValidMessages(type, height, r))
        PROVE  m \in store'
    <3>1. CASE m.height # height
      BY <2>5, <2>9, <3>1 DEF PruneInvalid, MessagesOf
    <3>2. CASE m.height = height
      BY <2>4, <2>5, <2>9, <3>2, PruneKeepsValid
    <3> QED
      BY <3>1, <3>2
  <2> QED
    BY <2>6, <2>7, <2>8, <2>9, StoreSteps
<1> QED
  BY <1>1, <1>2

\* A message that was stored before its view begins is there when it does.
THEOREM EarlyMessages == Spec => []EarlyMessagesKept
<1>1. Init => EarlyMessagesKept
  BY DEF Init, EarlyMessagesKept, Delivered, Arriving
<1>2. TypeOK /\ EarlyMessagesKept /\ [Next]_vars => EarlyMessagesKept'
  <2> SUFFICES ASSUME TypeOK, EarlyMessagesKept, [Next]_vars PROVE EarlyMessagesKept'
    OBVIOUS
  <2>1. CASE UNCHANGED vars
    BY <2>1 DEF vars, stateVars, mainVars, threadVars, EarlyMessagesKept, Delivered, Arriving, IsValidMessage
  <2> QED
    BY <2>1, EarlyStep
<1> QED
  BY <1>1, <1>2, TypeCorrect, PTL DEF Spec
=============================================================================
