---------------------------- MODULE MessageEvents ----------------------------
(***************************************************************************)
(* How a validator hears of messages: the transport's threads add them to  *)
(* the store and signal the subscriptions, while the goroutines of a round *)
(* subscribe, look at what is already there, wait, and handle what they    *)
(* are woken for.  None of them holds a lock over more than one step.      *)
(*                                                                         *)
(* A message is what a handler tells apart: hash Bad stands for content    *)
(* that its handler refuses.  RunSequence models the round timer, the      *)
(* channels of the goroutines and the teardown in detail; here they are    *)
(* the steps that begin and end subscriptions.                             *)
(***************************************************************************)
EXTENDS MessageStore, EventManager

CONSTANTS
    Us,             \* backend.ID
    ProposerOf,     \* backend.IsProposer: the proposer of each round
    Quorums,        \* sets of senders that ValidatorManager.HasQuorum accepts
    Bad,            \* a hash, or content, that does not pass validation
    Scenarios       \* bounds: the messages that arrive, the goroutines that run,
                    \* the heights that are called, the rounds the timer leads to

Goroutines == {"worker", "proposals", "certificates"}

ASSUME EventsAssumption ==
    /\ Heights \subseteq Nat /\ Rounds \subseteq Nat /\ 0 \in Heights /\ 0 \in Rounds
    /\ Listeners = Goroutines
    /\ Us \in Validators
    /\ ProposerOf \in [Rounds -> Validators]
    /\ Bad \in Hashes /\ Hashes # {Bad}
    /\ Scenarios \subseteq [arriving : SUBSET Message, running : SUBSET Goroutines,
                            heights : SUBSET Heights, rounds : SUBSET Rounds]

ASSUME QuorumsAssumption ==
    /\ Quorums \subseteq SUBSET Validators
    /\ {} \notin Quorums
    /\ \A Q \in Quorums, S \in SUBSET Validators : Q \subseteq S => S \in Quorums

\* Where the worker is: a proposer begins in "building", the others in
\* state.name.
Stages == {"building", "newRound", "prepare", "commit", "fin"}

MessagePhases == {"sent", "refused", "accepted", "stored", "counted", "signal", "done"}

\* "finished": the worker's handler succeeded;  "leaving": the goroutine is about
\* to return;  both run the deferred Unsubscribe.  "signalling": blocked in the
\* send to RunSequence.
GoroutinePhases == {"off", "starting", "subscribed", "counted", "signal", "waiting",
                    "finished", "building", "signalling", "leaving"}

\* SubscriptionDetails, and a subscription with the event in each channel.
Details == [type : Types, height : Heights, round : Int, hasMinRound : BOOLEAN]
Subscription == [details : Details, event : [Channels -> Rounds \cup {None}]]

\* Where a case of RunSequence's select leads.
Target == [main : {"running", "inserting", "idle"}, round : Rounds, accepted : Hashes \cup {None}]

ASSUME NoneAssumption ==
    None \notin Rounds \cup Hashes \cup Subscription \cup Target

VARIABLES
    height, round,  \* state.view
    accepted,       \* the hash of state.proposalMessage, None without one
    stage,
    main,           \* where RunSequence is
    next,           \* in teardown: where the select case it took goes
    scenario,
    thread,         \* thread[m] runs AddMessage(m): its phase
    heard,          \* heard[m]: the senders of the messages it read
    phase,          \* phase[l] of goroutine l
    seen,           \* seen[l]: the senders of the messages subscribe read
    found           \* found[l]: what l sends to RunSequence

stateVars == <<height, round, accepted, stage>>
mainVars == <<main, next, scenario>>
threadVars == <<thread, heard>>
goroutineVars == <<phase, seen, found>>
vars == <<stateVars, mainVars, threadVars, goroutineVars, store, subscription>>

Arriving == scenario.arriving

Init ==
    /\ store = {}
    /\ subscription = [l \in Listeners |-> None]
    /\ height = 0 /\ round = 0 /\ accepted = None /\ stage = "newRound"
    /\ main = "idle" /\ next = None
    /\ scenario \in Scenarios
    /\ thread = [m \in Arriving |-> "sent"]
    /\ heard = [m \in Arriving |-> {}]
    /\ phase = [l \in Listeners |-> "off"]
    /\ seen = [l \in Listeners |-> {}]
    /\ found = [l \in Listeners |-> None]

-----------------------------------------------------------------------------
(* What messages say *)

\* hasQuorumByMsgType, with HasPrepareQuorum: it reads the proposal the state
\* holds now, and gives up on a PREPARE of its proposer.
HasQuorumByMsgType(type, senders) ==
    CASE type = "PREPREPARE" -> senders # {}
      [] type = "PREPARE" ->
            /\ accepted # None
            /\ ProposerOf[round] \notin senders
            /\ senders \cup {ProposerOf[round]} \in Quorums
      [] OTHER -> senders \in Quorums

\* The isValid functions of the handlers.
IsValidMessage(m) ==
    CASE m.type = "PREPREPARE" ->
            m.hash # Bad /\ m.from = ProposerOf[m.round] /\ m.from # Us
      [] m.type = "ROUND_CHANGE" -> m.hash # Bad
      [] OTHER -> m.hash = accepted

ValidMessages(type, h, r) == {m \in MessagesOf(type, h, r) : IsValidMessage(m)}

\* Rounds whose ROUND_CHANGE messages are a certificate for handleRoundChangeMessage.
CertificateRounds ==
    {r \in Rounds \ {0} :
        /\ SendersOf(ValidMessages("ROUND_CHANGE", height, r)) \in Quorums
        /\ ~(r = round /\ accepted # None)}

-----------------------------------------------------------------------------
(* AddMessage, one thread per message *)

Goes(m, from, to) == thread[m] = from /\ thread' = [thread EXCEPT ![m] = to]

IsAcceptableMessage(m) ==
    m.height > height \/ (m.height = height /\ m.round >= round)

Consider(m) ==
    /\ Goes(m, "sent", IF IsAcceptableMessage(m) THEN "accepted" ELSE "refused")
    /\ UNCHANGED <<stateVars, mainVars, heard, goroutineVars, store, subscription>>

Store(m) ==
    /\ Goes(m, "accepted", "stored")
    /\ Put(m)
    /\ UNCHANGED <<stateVars, mainVars, heard, goroutineVars, subscription>>

\* Only messages of the current height are counted, valid or not.
Count(m) ==
    /\ Goes(m, "stored", IF m.height = height THEN "counted" ELSE "done")
    /\ heard' = [heard EXCEPT ![m] = IF m.height = height
                                     THEN SendersOf(MessagesOf(m.type, m.height, m.round))
                                     ELSE {}]
    /\ UNCHANGED <<stateVars, mainVars, goroutineVars, store, subscription>>

CheckQuorum(m) ==
    /\ Goes(m, "counted", IF HasQuorumByMsgType(m.type, heard[m]) THEN "signal" ELSE "done")
    /\ heard' = [heard EXCEPT ![m] = {}]
    /\ UNCHANGED <<stateVars, mainVars, goroutineVars, store, subscription>>

Signal(m) ==
    /\ Goes(m, "signal", "done")
    /\ SignalEvent(m.type, m.height, m.round)
    /\ UNCHANGED <<stateVars, mainVars, heard, goroutineVars, store>>

AddMessage(m) == Consider(m) \/ Store(m) \/ Count(m) \/ CheckQuorum(m) \/ Signal(m)

-----------------------------------------------------------------------------
(* Subscribing *)

\* What goroutine l subscribes to.
WorkerType == [building |-> "ROUND_CHANGE", newRound |-> "PREPREPARE",
               prepare |-> "PREPARE", commit |-> "COMMIT", fin |-> "COMMIT"]

SubscriptionDetails(l) ==
    IF l = "worker"
    THEN [type |-> WorkerType[stage], height |-> height, round |-> round, hasMinRound |-> FALSE]
    ELSE [type |-> IF l = "proposals" THEN "PREPREPARE" ELSE "ROUND_CHANGE",
          height |-> height, round |-> round + 1, hasMinRound |-> TRUE]

Step(l, from, to) == phase[l] = from /\ phase' = [phase EXCEPT ![l] = to]

BugSubscribe(l) ==
    /\ stage = "building" => l # "worker" \/ round > 0
    /\ Step(l, "starting", "waiting")
    /\ AddSubscription(l, SubscriptionDetails(l))
    /\ UNCHANGED <<stateVars, mainVars, threadVars, seen, found, store>>

Subscribe(l) ==
    /\ stage = "building" => l # "worker" \/ round > 0
    /\ Step(l, "starting", "subscribed")
    /\ AddSubscription(l, SubscriptionDetails(l))
    /\ UNCHANGED <<stateVars, mainVars, threadVars, seen, found, store>>

\* "Check if any condition is already met": of the view in the details.
LookAtStore(l) ==
    /\ Step(l, "subscribed", "counted")
    /\ LET d == SubscriptionDetails(l)
       IN  seen' = [seen EXCEPT ![l] = SendersOf(MessagesOf(d.type, d.height, d.round))]
    /\ UNCHANGED <<stateVars, mainVars, threadVars, found, store, subscription>>

CheckSeen(l) ==
    /\ Step(l, "counted",
            IF HasQuorumByMsgType(SubscriptionDetails(l).type, seen[l])
            THEN "signal" ELSE "waiting")
    /\ seen' = [seen EXCEPT ![l] = {}]
    /\ UNCHANGED <<stateVars, mainVars, threadVars, found, store, subscription>>

SignalSeen(l) ==
    /\ Step(l, "signal", "waiting")
    /\ LET d == SubscriptionDetails(l) IN SignalEvent(d.type, d.height, d.round)
    /\ UNCHANGED <<stateVars, mainVars, threadVars, seen, found, store>>

\* The deferred Unsubscribe.  The worker that is done with a state goes on.
Unsubscribe(l) ==
    /\ \/ Step(l, "leaving", "off")
       \/ Step(l, "finished", CASE stage = "building" -> "building"
                                [] stage = "fin" -> "signalling"
                                [] OTHER -> "starting")
    /\ CancelSubscription(l)
    /\ UNCHANGED <<stateVars, mainVars, threadVars, seen, found, store>>

-----------------------------------------------------------------------------
(* What the goroutines do when an event wakes them.  Nothing else reads what *)
(* happens between the receive and the handler's look at the store.         *)

AcceptProposal(hash) ==
    /\ accepted' = hash /\ stage' = "prepare"
    /\ UNCHANGED <<height, round>>

Wakes(l) == phase[l] = "waiting" /\ Receive(l)

\* Back to the select.
Retry == UNCHANGED <<stateVars, phase, found>>

\* The worker's handler succeeded.
Finishes == Step("worker", "waiting", "finished") /\ UNCHANGED found

RunNewRound ==
    /\ stage = "newRound" /\ Wakes("worker")
    /\ LET valid == ValidMessages("PREPREPARE", height, round)
       IN  /\ PruneInvalid("PREPREPARE", height, round, valid)
           /\ \/ valid = {} /\ Retry
              \/ \E m \in valid : AcceptProposal(m.hash) /\ Finishes
    /\ UNCHANGED <<mainVars, threadVars, seen>>

\* handlePrepare and handleCommit: the messages that pass count, the others go.
HandleVotes(type, nextStage) ==
    /\ Wakes("worker")
    /\ LET valid == ValidMessages(type, height, round)
       IN  /\ PruneInvalid(type, height, round, valid)
           /\ IF HasQuorumByMsgType(type, SendersOf(valid))
              THEN /\ stage' = nextStage /\ UNCHANGED <<height, round, accepted>>
                   /\ Finishes
              ELSE Retry
    /\ UNCHANGED <<mainVars, threadVars, seen>>

RunPrepare == stage = "prepare" /\ HandleVotes("PREPARE", "commit")

RunCommit == stage = "commit" /\ HandleVotes("COMMIT", "fin")

WaitForRCC ==
    /\ stage = "building" /\ Wakes("worker")
    /\ IF CertificateRounds = {} THEN Retry ELSE Finishes /\ UNCHANGED stateVars
    /\ UNCHANGED <<mainVars, threadVars, seen, store>>

\* buildProposal returns, with the certificate of WaitForRCC or in round 0.
Propose ==
    /\ stage = "building"
    /\ Step("worker", IF round = 0 THEN "starting" ELSE "building", "starting")
    /\ \E hash \in Hashes \ {Bad} : AcceptProposal(hash)
    /\ UNCHANGED <<mainVars, threadVars, seen, found, store, subscription>>

\* l blocks in the send of a round, and of the proposal for it if it found one.
Finds(l, r, hash) ==
    /\ Step(l, "waiting", "signalling")
    /\ found' = [found EXCEPT ![l] = [main |-> "running", round |-> r, accepted |-> hash]]
    /\ UNCHANGED stateVars

WatchForFutureProposal ==
    /\ Wakes("proposals")
    /\ LET r == subscription["proposals"].event["outputCh"]
           valid == ValidMessages("PREPREPARE", height, r)
       IN  /\ PruneInvalid("PREPREPARE", height, r, valid)
           /\ \/ valid = {} /\ Retry
              \/ \E m \in valid : Finds("proposals", r, m.hash)
    /\ UNCHANGED <<mainVars, threadVars, seen>>

WatchForRoundChangeCertificates ==
    /\ Wakes("certificates")
    /\ IF CertificateRounds = {} THEN Retry
       ELSE \E r \in CertificateRounds :
               (\A q \in CertificateRounds : q <= r) /\ Finds("certificates", r, None)
    /\ UNCHANGED <<mainVars, threadVars, seen, store>>

-----------------------------------------------------------------------------
(* RunSequence *)

\* Four goroutines for the round (the timer is a choice of RunSequence here).
StartRound(r, hash) ==
    /\ round' = r /\ accepted' = hash
    /\ stage' = CASE hash # None -> "prepare"
                  [] hash = None /\ ProposerOf[r] = Us -> "building"
                  [] OTHER -> "newRound"
    /\ phase' = [l \in Listeners |-> IF l \in scenario.running THEN "starting" ELSE "off"]
    /\ seen' = [l \in Listeners |-> {}]
    /\ found' = [l \in Listeners |-> None]

Call(h) ==
    /\ main = "idle"
    /\ h \in scenario.heights /\ h >= height
    /\ height' = h /\ round' = 0 /\ accepted' = None /\ stage' = "newRound"
    /\ main' = "reset"
    /\ UNCHANGED <<next, scenario, threadVars, goroutineVars, store, subscription>>

\* After validatorManager.Init, which may fail.
StartSequence ==
    /\ main = "reset"
    /\ \/ /\ main' = "running"
          /\ PruneByHeight(height)
          /\ StartRound(0, None)
          /\ UNCHANGED height
       \/ main' = "idle" /\ UNCHANGED <<store, stateVars, goroutineVars>>
    /\ UNCHANGED <<next, scenario, threadVars, subscription>>

\* RunSequence takes a case of its select, and cancels the round.
Takes(target) ==
    /\ main = "running"
    /\ main' = "teardown" /\ next' = target
    /\ UNCHANGED <<stateVars, scenario, threadVars, seen, found, store, subscription>>

\* l stops; its subscription, if it holds one, is still to be cancelled.
Leave(l) == phase' = [phase EXCEPT ![l] = IF subscription[l] = None THEN "off" ELSE "leaving"]

TakeSignal(l) ==
    /\ phase[l] = "signalling" /\ Leave(l)
    /\ Takes(IF l = "worker"
             THEN [main |-> "inserting", round |-> round, accepted |-> accepted]
             ELSE found[l])

RoundExpired ==
    /\ round + 1 \in scenario.rounds
    /\ Takes([main |-> "running", round |-> round + 1, accepted |-> None])
    /\ UNCHANGED phase

Cancelled ==
    /\ Takes([main |-> "idle", round |-> round, accepted |-> accepted])
    /\ UNCHANGED phase

BugGiveUp(l) ==
    /\ main = "teardown"
    /\ Step(l, "waiting", "off")
    /\ UNCHANGED <<stateVars, mainVars, threadVars, seen, found, store, subscription>>

\* The context of the round is cancelled, and l is where it watches it.
GiveUp(l) ==
    /\ main = "teardown"
    /\ phase[l] \in {"waiting", "signalling"}
    /\ Leave(l)
    /\ UNCHANGED <<stateVars, mainVars, threadVars, seen, found, store, subscription>>

\* wg.Wait returned: the case moves to a round, or the sequence ends.
TornDown ==
    /\ main = "teardown"
    /\ \A l \in Listeners : phase[l] = "off"
    /\ main' = next.main /\ next' = None
    /\ IF next.main = "running" THEN StartRound(next.round, next.accepted) /\ UNCHANGED height
       ELSE UNCHANGED <<stateVars, goroutineVars>>
    /\ UNCHANGED <<scenario, threadVars, store, subscription>>

\* insertBlock removes stale messages.
InsertBlock ==
    /\ main = "inserting"
    /\ PruneByHeight(height)
    /\ main' = "idle"
    /\ UNCHANGED <<stateVars, next, scenario, threadVars, goroutineVars, subscription>>

-----------------------------------------------------------------------------

SubscribeStep(l) ==
    Subscribe(l) \/ LookAtStore(l) \/ CheckSeen(l) \/ SignalSeen(l) \/ Unsubscribe(l)

RunLoopStep(l) ==
    /\ RunLoop(l)
    /\ UNCHANGED <<stateVars, mainVars, threadVars, goroutineVars, store>>

Handle(l) ==
    \/ l = "worker" /\ (RunNewRound \/ RunPrepare \/ RunCommit \/ WaitForRCC)
    \/ l = "proposals" /\ WatchForFutureProposal
    \/ l = "certificates" /\ WatchForRoundChangeCertificates

SequenceStep ==
    \/ \E h \in Heights : Call(h)
    \/ StartSequence \/ TornDown \/ InsertBlock
    \/ \E l \in Listeners : TakeSignal(l)
    \/ RoundExpired \/ Cancelled

Next ==
    \/ \E m \in Arriving : AddMessage(m)
    \/ \E l \in Listeners : SubscribeStep(l) \/ RunLoopStep(l) \/ Handle(l) \/ GiveUp(l)
    \/ Propose
    \/ SequenceStep

\* The program goes on while a thread in AddMessage, or a goroutine that need
\* not wait, can take a step: less than the Go scheduler gives, and enough.
Fairness ==
    WF_vars(\/ \E m \in Arriving : AddMessage(m)
            \/ \E l \in Listeners : SubscribeStep(l) \/ RunLoopStep(l) \/ Handle(l))

Spec == Init /\ [][Next]_vars /\ Fairness

-----------------------------------------------------------------------------
(* Properties *)

TypeOK ==
    /\ store \subseteq Message
    /\ subscription \in [Listeners -> Subscription \cup {None}]
    /\ height \in Heights /\ round \in Rounds
    /\ accepted \in Hashes \cup {None} /\ stage \in Stages
    /\ main \in {"idle", "reset", "running", "teardown", "inserting"}
    /\ next \in Target \cup {None}
    /\ scenario \in Scenarios
    /\ thread \in [Arriving -> MessagePhases]
    /\ heard \in [Arriving -> SUBSET Validators]
    /\ phase \in [Listeners -> GoroutinePhases]
    /\ seen \in [Listeners -> SUBSET Validators]
    /\ found \in [Listeners -> Target \cup {None}]

\* A goroutine that is subscribed hears of the view the validator is in, and no
\* subscription outlives the round it was made in.
SubscriptionsAreCurrent ==
    \A l \in Listeners :
        /\ subscription[l] # None =>
              /\ main \in {"running", "teardown"}
              /\ subscription[l].details.height = height
              /\ subscription[l].details.round = SubscriptionDetails(l).round
        /\ phase[l] \in {"subscribed", "counted", "signal", "waiting"} =>
              subscription[l] # None /\ subscription[l].details = SubscriptionDetails(l)

\* What l waits for in the view of its subscription is in the store.  A PREPARE
\* of the proposer is left out: AddMessage and subscribe count it, and count no
\* quorum then, before handlePrepare could drop it.
Satisfied(l) ==
    LET d == SubscriptionDetails(l)
    IN  /\ HasQuorumByMsgType(d.type, SendersOf(ValidMessages(d.type, d.height, d.round)))
        /\ d.type = "PREPARE" =>
              ProposerOf[round] \notin SendersOf(MessagesOf(d.type, d.height, d.round))

\* The thread of m is to signal m's view.
Signals(m) ==
    \/ thread[m] \in {"stored", "signal"}
    \/ thread[m] = "counted" /\ HasQuorumByMsgType(m.type, heard[m])

\* An event is on its way to l, or will be.
WillWake(l) ==
    \/ Pending(l)
    \/ \E m \in Arriving :
          LET d == SubscriptionDetails(l)
          IN  Signals(m) /\ m.type = d.type /\ m.height = d.height /\ m.round = d.round

\* No wakeup is lost: a goroutine that waits for what the store holds in the
\* view of its subscription is to be woken, whatever the order in which messages
\* were stored, counted and signalled, the subscription was made and its own look
\* at the store was taken, a quorum was seen by a handler that retried, and events
\* were dropped because the channels were full.
NoLostWakeup ==
    \A l \in {"worker", "certificates"} :
        phase[l] = "waiting" /\ Satisfied(l) => WillWake(l)

\* The thread of m stored it, and no other message of its sender replaces it.
Delivered(m) ==
    /\ thread[m] \notin {"sent", "accepted", "refused"}
    /\ \A n \in Arriving : SameKey(m, n) => n = m

\* Messages that came early are there when the validator comes to their view:
\* those of a later height, and the valid proposals and round changes of this
\* one, through pruning, retries and moves to other rounds.
EarlyMessagesKept ==
    \A m \in Arriving :
        /\ Delivered(m)
        /\ \/ m.height > height
           \/ m.height = height /\ m.type \in {"PREPREPARE", "ROUND_CHANGE"} /\ IsValidMessage(m)
        => m \in store

\* A goroutine whose condition is met leaves its select.
Woken ==
    \A l \in {"worker", "certificates"} :
        phase[l] = "waiting" /\ Satisfied(l) ~> phase[l] # "waiting" \/ ~Satisfied(l)

\* "round number is a lower bound": the watchers are woken for what the store
\* holds in any round from that of their subscription on.
MinRoundWakeup ==
    \A l \in {"proposals", "certificates"} :
        /\ phase[l] = "waiting"
        /\ \E r \in Rounds :
              LET d == SubscriptionDetails(l)
              IN  r >= d.round /\ HasQuorumByMsgType(d.type, SendersOf(ValidMessages(d.type, height, r)))
        => \/ Pending(l)
           \/ \E m \in Arriving : Signals(m) /\ m.type = SubscriptionDetails(l).type /\ m.height = height

\* Where the goroutines are: none outside a round, each with its subscription
\* while it uses it, and a proposer in the building stage while it has not proposed.
GoroutinesPlaced ==
    /\ main \notin {"running", "teardown"} => \A l \in Listeners : phase[l] = "off"
    /\ main = "teardown" => next # None
    /\ stage = "building" => accepted = None
    /\ \A l \in Listeners :
          /\ phase[l] \in {"off", "starting", "building"} => subscription[l] = None
          /\ l # "worker" => phase[l] \notin {"finished", "building"}
          /\ l # "worker" /\ phase[l] = "signalling" => found[l] # None
          /\ l = "worker" /\ stage = "building" /\ subscription[l] # None => round > 0
          /\ phase[l] = "signal" \/ (phase[l] = "counted" /\ seen[l] # {}) =>
                SubscriptionDetails(l).round \in Rounds

\* What l has seen of the store, or what is on its way, covers what is there.
Attends(l) ==
    /\ phase[l] = "waiting" /\ Satisfied(l) => WillWake(l)
    /\ phase[l] = "counted" /\ Satisfied(l) =>
          WillWake(l) \/ HasQuorumByMsgType(SubscriptionDetails(l).type, seen[l])

\* The inductive invariant.  A goroutine that looked at the store and has not
\* checked what it saw is like one that waits: its look is the wakeup.
Inv ==
    /\ TypeOK /\ SubscriptionsAreCurrent /\ GoroutinesPlaced
    /\ \A l \in {"worker", "certificates"} : Attends(l)
=============================================================================
