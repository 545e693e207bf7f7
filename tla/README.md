# A TLA+ development of go-ibft

go-ibft is a Go library that runs the IBFT 2.0 consensus protocol for one block
height at a time. A program embeds it by implementing `Backend` (validity,
signatures, block insertion), `Transport` (multicast) and `Logger`, calls
`AddMessage` for every message it receives, and calls `RunSequence(ctx, height)`
for every height.

## The system

| Component | State | Operations | Correct when |
|---|---|---|---|
| Protocol of a height (`core/ibft.go`, `core/state.go`) | `state` (view, accepted proposal, latest prepared certificate, seals, state name, roundStarted), the phase of the worker | `RunSequence`, `startRound`, `buildProposal`, `runNewRound`, `runPrepare`, `runCommit`, the two watchers, `moveToNewRound`, `insertBlock` | no two correct validators insert different blocks; only valid blocks; a block comes with a quorum of seals for it; some block is inserted eventually |
| Goroutines of a round (`core/ibft.go`) | four unbuffered channels, `ctxRound`, `wg` | four goroutines per round, the `select` of `RunSequence`, `teardown` | every round ends with its goroutines gone; no signal of an old round reaches a later one; the finished round is acted on unless another signal came first |
| Round timer (`core/ibft.go:143`, `:1307`) | timeout of the round | `startRoundTimer`, `getRoundTimeout`, `ExtendRoundTimeout` | the timeout grows with the round |
| Validator manager (`core/validator_manager.go`) | voting powers and quorum size of the height | `Init`, `HasQuorum`, `HasPrepareQuorum` | two quorums share more than a third of the power; a failed `Init` is not used |
| Message store (`messages/messages.go`) | a message per (type, height, round, sender) | `AddMessage`, `GetValidMessages`, `GetExtendedRCC`, `PruneByHeight` | never returns an invalid message, or two of one sender; the certificate is of the highest round that has a quorum |
| Event manager (`messages/event_*.go`) | subscriptions with channels of capacity one | `subscribe`, `signalEvent`, `cancelSubscription`, `runLoop` | a subscriber whose messages are there is woken |
| Payload helpers, wire format (`messages/helpers.go`, `messages/proto`) | none | extraction, `HasUniqueSenders`, `AreValidPCMessages` | |
| `Backend`, `Transport`, `Logger` | the embedding program's | interfaces only | |

Interaction. `AddMessage` (any goroutine) stores a message and, on a quorum,
signals the event manager, which wakes the subscriptions that the worker and the
watchers of the current round made. The woken goroutine reads the store with
`GetValidMessages` or `GetExtendedRCC`, changes `state`, multicasts, or blocks
in a send to `RunSequence`. `RunSequence` takes one signal, cancels the round's
context, waits for all four goroutines, and moves to another round or returns.

What is hard here: the worker, the watchers, the timer and `AddMessage` run
concurrently, and one of four signals wins while the others may have been about
to be sent; a round can be given up in any state, also after its decision;
messages are lost, delayed, reordered and duplicated; fewer than a third of the
validators say anything to anybody; the lock (`latestPC`) has to survive every
path through the round changes. `PROJECT.json` lists these hazards one by one.

## Modules

Core of the protocol, in large steps:

* `VotingPower`: the quorum arithmetic of `ValidatorManager` for one height;
  `VotingPower_proofs` has theorems about it.
* `IBFT`: the protocol for one height. Each correct validator `n` has the fields
  of its `state` struct (`round`, `name`, `roundStarted`, `proposal`,
  `latestPC`, `seals`), the phase of its `startRound` worker (`worker`), the
  certificate round blocked in `signalNewRCC` (`rcc`), and the block its backend
  was given (`inserted`). `prePrepares`, `prepares`, `commits` and
  `roundChanges` hold what correct validators have multicast.
* `IBFTLiveness`: `IBFT` with fairness, and termination.
* `Consensus`: what a height promises, a single decision.
* `Validator`: what one validator does, at the grain of `IBFT`.
* `IBFTInvariant`: the inductive invariants `SoundInv` and `IInv` of `IBFT_proofs`,
  which has the theorems.
* `RepeatedHeight`: `IBFT` when the caller runs a height again; `RepeatedHeight_proofs`
  has what is left to prove of that.
* `MCIBFT`, `MCRepeatedHeight` and their `.cfg` files: the instances.

The parts that `IBFT` takes in one step or leaves to a choice, in small steps:

* `RunSequence`: the calls of one validator for several heights, and in each
  round the four goroutines, their signal channels, the context and the wait
  group. What messages say is left to `IBFT`: here a handler finds what it waits
  for at any time or never. `RunSequence_proofs` has its theorems.
* `MessageStore`, `EventManager`: the operations of the store and of the event
  manager, each on its one variable (`store`, `subscription`).
* `MessageEvents`: extends both, and composes them with the threads that are in
  `AddMessage` and the goroutines of a round that subscribe, wait and handle.
  `MCMessageEvents` has its instances, `MessageEvents_proofs` its theorems.
* `Certificates`: one call of `handleRoundChangeMessage` over a store, and of
  `buildProposal` and `validateProposal` over what it returns, message by
  message. `MCCertificates` has its instance, `Certificates_proofs` its theorems.
* `CertificatesMapping`: what `Certificates` computes in terms of `IBFT`, of which it
  has an instance. `CertificatesMapping_proofs` has the theorems.

How they hang together. `IBFT` implements `Consensus` (`ImplementsConsensus`).
Every validator of `IBFT` implements `Validator` (`ValidatorsStep`), and so does
`RunSequence` (`ImplementsValidator`): what is shown of validators in large steps
is about the program that takes the small ones. In the mapping from
`RunSequence` a round is left when the `select` case that was taken has run, an
accepted proposal appears with the second of its two writes, a first proposer is
in `startRound` until its proposal is accepted, and a certificate is signalled
while its round lasts. The loops of `Certificates` compute what `IBFT` has as set
definitions: `CertificatesMapping` maps a store to the messages that correct
validators must have sent for it, since whatever carries their signature is
theirs, and a ROUND_CHANGE to its round and hash; `ReturnsCertificateOfIBFT` then
says that what is collected is one of the `RoundChangeCertificates` of `IBFT`
(hence that `validPC` lets through no more than `ValidPC`), and `ProposesAsInIBFT`
that what is built is one of its `ProposableValues`, and that its `ValidateProposal`
holds whenever `validateProposal` accepts. `IBFT` says that a handler *may* find what is in the
messages; `MessageEvents` shows that it is woken when the store has it. This last
connection is by its properties, not by a refinement that is checked.

How `IBFT` corresponds to the code:

| Action | Code |
|---|---|
| `StartRound`, `StartRoundAsFirstProposer`, `StartRoundAsProposer` | `startRound` up to `runStates` or `waitForRCC` |
| `BuildProposal` | the return of `waitForRCC`, the rest of `buildProposal`, `acceptProposal`, the multicast |
| `RunNewRound`, `RunPrepare`, `RunCommit` | the iteration of the loop in `runNewRound`, `runPrepare`, `runCommit` whose handler succeeds |
| `WatchForRoundChangeCertificates` | `handleRoundChangeMessage` in the watcher, up to the send in `signalNewRCC` |
| `FutureProposal`, `RoundCertificate`, `RoundExpired`, `RoundDone`, `Cancel` | the five cases of the `select` of `RunSequence`, with `teardown` |
| `RunAgain` (of `RepeatedHeight`) | the entry of `RunSequence`, with `state.reset`, for a height whose last call was cancelled |

Abstractions, and why they lose nothing the properties can tell apart:

* *Steps.* A handler of the worker runs to its end before `teardown` returns, and
  only the worker writes `state` until then, so a handler is one step. The
  certificate watcher is split where it matters: `hasAcceptedProposal` is read
  when the certificate is built, and the signal is received later (`rcc`). The
  proposal watcher needs no such split: what it validated stays valid, since
  the messages it used do not go away.
* *Network and stores.* Messages go into sets that only grow, and a handler may
  use any part of them. A store that misses a message (late, lost, pruned,
  overwritten) is a handler that does not use it; `isAcceptableMessage` refuses
  messages of rounds that the receiver has left, which no handler reads again.
* *Faulty validators.* Their messages are not recorded: whatever their signature
  covers is available to every handler (`PrepareSenders`, `ValidRoundChanges`,
  `PrePreparesOf`). A faulty PREPREPARE may carry any ROUND_CHANGE messages of its
  round, also those of correct validators whose certificate `validPC` refuses: each
  counts as one without a certificate, as in `validateProposal`. And faulty
  ROUND_CHANGE messages with refused certificates can complete a quorum that wakes
  a handler (`UnusableQuorum`).
* *Hashes and certificates.* A proposal stands for its hash. A certificate is its
  round and the hash that all its messages carry, since `validPC` refuses anything
  else, and `alone`, that it has no PREPARE: a proposer that is a quorum on its own
  needs none, but an empty list arrives as one that is not set, and is refused
  (`ibft.go:1173`).
* *Payloads.* The round of the `Proposal` inside a PREPREPARE is compared with the view
  only by those who accept it in their own round. When a faulty sender reports the
  PREPREPARE of a faulty proposer it is therefore free (`FreePayload`), and
  `ProposableValues` lets such a report come first or last. A payload without a
  `Proposal`, on which `buildProposal` panics, is in `Certificates` only.
* *Timers.* The timer of a round may expire at any time.

How `RunSequence` corresponds to the code:

| Action | Code |
|---|---|
| `Call`, `InitPowers`, `InitFails` | entry of `RunSequence`: `state.reset`, `validatorManager.Init` |
| `StartOfRound` | the top of the loop: `context.WithCancel`, the four `go` statements |
| `Receive(g)`, `RoundCancelled` | a case of the `select`, with the `cancelRound` of `teardown` |
| `NewProposal`, `MoveToNewRound`, `RoundDone`, `SequenceCancelled` | the rest of the case once `wg.Wait` has returned (`TornDown`) |
| `Subscribe`, `Expire`, `FindProposal`, `FindCertificate` | the watchers and the timer, up to a send |
| `StartRound`, `SetProposal`, `EnterPrepare`, `RunPrepare`, `RunCommit`, `RunFin` | the worker; accepting a proposal is two steps, as it takes two locks |
| `GiveUp(g)` | a `select` on `ctx.Done`, wherever `g` has one (`WatchesContext`), and `wg.Done` |
| `Return(g)` | the return after a send that was received |

A send on an unbuffered channel is a goroutine in phase `signalling` until
`Receive` or `GiveUp`. `main`, `taken` and `view` are the program counter and
the local variables of `RunSequence` and of the goroutines. In `IBFT` a teardown
is part of the step that follows it; `SignalsAreCurrent` and `DecisionStands` are
what makes that right.

How `MessageEvents` corresponds to the code:

| Action | Code |
|---|---|
| `Consider`, `Store`, `Count`, `CheckQuorum`, `Signal` of message `m` | the thread in `AddMessage(m)`: `isAcceptableMessage`; the store; the height compared again and `GetValidMessages` with a function that accepts everything; `hasQuorumByMsgType`; `SignalEvent` |
| `Subscribe`, `LookAtStore`, `CheckSeen`, `SignalSeen` of goroutine `l` | `IBFT.subscribe`: `messages.Subscribe`; the look at the store; the quorum; `SignalEvent` |
| `Unsubscribe` | the deferred `messages.Unsubscribe` |
| `RunLoop` | an iteration of `eventSubscription.runLoop`, in two steps: the receive from `notifyCh`, the send to `outputCh` |
| `RunNewRound`, `RunPrepare`, `RunCommit`, `WaitForRCC`, `WatchForFutureProposal`, `WatchForRoundChangeCertificates` | the receive from `SubCh` and the handler, with the pruning of `GetValidMessages`; a handler that finds too little goes back to its `select` |
| `Propose` | the rest of `buildProposal`, `acceptProposal` |
| `Call`, `StartSequence`, `TakeSignal`, `RoundExpired`, `Cancelled`, `GiveUp`, `TornDown`, `InsertBlock` | `RunSequence`, with less detail than the module of that name: the timer and the cancellation are choices of its `select` |

A message is its type, view, sender and hash; the hash `Bad` stands for content
that a handler refuses. Merged into one step, since nobody can tell: the two
reads of `isAcceptableMessage`, which hold one lock each but only compare with a
view that goes up; the second comparison of heights with the count; the read of
`numSubscriptions` with the push (a subscription added between the two has yet to
look at the store); an event's receipt with the handler.

How `Certificates` corresponds to the code: `VisitRound(r)` is an iteration of
`GetExtendedRCC` over the rounds of the map, `Collected` the return of
`handleRoundChangeMessage` to its `caller`, `TakePrevious(m)` an iteration of
`buildProposal`, `PanicOnPrevious(m)` one that reads the round of a `Proposal` that is nil,
`Propose` the rest of it and what `validateProposal` of another
validator says of the message. `ValidPC`, `AreValidPCMessages`,
`HasUniqueSenders` and `ProposalMatchesCertificate` are the functions of those
names on records with every field they read, fields that are not set included.

Two conditions divide the executions, and the runs and theorems name them.

* `RoundCertificateIsHigher`: no validator is sent back. It fails in the code when a
  ROUND_CHANGE whose certificate `validPC` refuses counts for the quorum of
  `AddMessage` that wakes the watcher: it is then filtered out, and the certificate
  that is found instead may be of the validator's own round or of one it has
  left; `isValidRCCFn` compares for equality only, and `RunSequence` moves to whatever
  round is signalled.
* `ProposersNeedOthers`: no proposer is a quorum with the faulty validators alone. It
  is a condition on powers, and true of equal powers from four validators on.
  Without it a correct proposer can finish a round with nobody but faulty
  validators, and `validateProposal` is never asked about its proposal; and one
  that is a quorum alone builds certificates that `validPC` refuses.

## Runs

The instances of `IBFT` have four validators, at most one of them faulty: the smallest
system in which a fault is tolerated. `d` is the faulty one. All have power 1 (quorum
3), but in `faulty_first`, where a has 2 and the others 1 (quorum 4: none is one without
a, and the correct ones are one only together), and in `old_payload`, where a, b, c and d
have 4, 1, 1 and 2 (quorum 6: a and d are one).

| Run | Instance | What it checks |
|---|---|---|
| `faulty_first` | `d` proposes round 0, a round 1; three values, one of them invalid; unequal powers; with fairness, nobody cancelled | `OwnCertificatesUsable`, `Validity`, the invariant `SoundInv` of the proofs, and `Terminates` |
| `timely_rounds` | proposers b, a, c, `d`, rounds 0 to 3; c may be cancelled; `RoundCertificateIsHigher` as a constraint | `TypeOK`, `Agreement`, `ReportsLock`, `VotesOnce`, `BlockIsSealed`, the inductive invariant `IInv` of the proofs; `ImplementsConsensus` (refinement of `Consensus`), `ValidatorsStep` (each validator refines `Validator`) |
| `sent_back` | the same rounds, without that constraint | violation of `Agreement` |
| `votes_twice` | `d` proposes round 1 of three | violation of `VotesOnce` |
| `old_payload` | proposers `d`, b, a; a and `d` are a quorum | violation of `Agreement` |
| `height_again` | nobody faulty; b and c may be cancelled and run the height twice | violation of `Agreement` |
| `prepare_view` | nobody faulty | violation of `PrepareViewMatchesProposal` |
| `wait_for_rcc` | nobody faulty, three rounds | violation of `OwnProposalsAcceptable` |
| `run_sequence` | two heights, rounds 0 to 2, proposer in rounds 0 and 2 | `SignalsAreCurrent`, `NameMatchesProposal`, `DecisionStands`, `PowersInUse`, `JumpsForward`, the invariant `Inv` of the proofs; `ImplementsValidator` (refinement of `Validator`); the liveness properties `RoundEnds`, `TeardownEnds`, `CancelEnds`; no deadlock |
| `message_events` | a validator c of three, eight scenarios of up to four messages | `SubscriptionsAreCurrent`, `NoLostWakeup`, `EarlyMessagesKept`, `Woken`; no deadlock |
| `min_round` | one proposal two rounds ahead | violation of `MinRoundWakeup` |
| `certificates` | four validators, `d` faulty; stores of up to six ROUND_CHANGE messages for rounds 1 and 2 | `HighestCertificate`, `CertificatesAreSound`; `ReturnsCertificateOfIBFT` and `ProposesAsInIBFT` (agreement with the definitions of `IBFT`); `RefusalNeedsFaulty` |

One run of each of `IBFT`, `RunSequence`, `MessageEvents` and `Certificates` checks its
`TypeOK`.

Bounds. `MaxRound` is the last round: its timer does not expire. Two rounds
suffice to prepare a value, lock it, change the round and decide again, and
`faulty_first` has every behaviour of them. To have locks of two different rounds in
one certificate, and a vote for either after it, takes four: v in round 1, w in
round 2, from a certificate that reports nothing, and the choice in round 3.
`timely_rounds` has these with a bound on who votes where (`FourRoundVotes`): nobody
votes in round 0; a commits v in round 1, and c may, which with d is enough to finish
it; b and c commit w in round 2; in round 3 a and b vote for what they
accept. Beside them it has the behaviours in which c alone votes, in round 3, wherever it
comes from (`LastRoundVotes`). `sent_back` has the same votes, with certificates for c
alone. `votes_twice` has one voter (`OneVoter`), `old_payload` no certificate of a round
that was left and the votes that lead to it (`TimelyCertificates`), and `height_again` the
votes and calls of one scenario (`TwoRuns`); a bound in a run that ends in a violation only
makes it short. `StartRoundFirst` lets `startRound` go before all else, which disables no
step of another validator. No run uses symmetry.

`run_sequence` has the three rounds that let a certificate lead two rounds up or
one down, and two heights so that a call can be for the next height or the same
one, after an end of every kind.

`message_events` starts in one of the `WakeupScenarios`: which messages arrive, which
goroutines a round runs, which heights are called, which rounds the timer leads
to. With three validators of which two are a quorum, two messages complete one
and a third races the handler. The scenarios are the states of the worker and
the two watchers, each with a message that counts until its handler looks at it,
that replaces another, or that comes early for a round or a height; within a
scenario everything interleaves.

`certificates` has every store that combines one of twenty-three sets of ROUND_CHANGE
messages for round 1 with one of forty-two for round 2, certificates of two
rounds that compete among them, and twenty reports of the faulty validator: each
breaks one condition of `validPC` or of `proposalMatchesCertificate`, or none, or has
a payload of another round than its view, of none, or an empty list of PREPAREs.
Both callers ask, in either round, with and without an accepted proposal.

`CHECK_DEADLOCK FALSE` in the runs of `IBFT`: `RunSequence` returns, and the timer
of round `MaxRound` does not expire. In `certificates` the call returns.

Fairness of `RunSequence`: weak fairness of `RunSequence`
itself and of every goroutine's steps that need no message (Go schedules every
runnable goroutine, and a timer fires), and of `BuildProposal` in round 0, which
the backend is expected to return from. Nothing is assumed of messages, of the
caller or of the steps that need a quorum. `RoundCancelled` is strongly fair: a
cancelled sequence can find other signals ready in each of its rounds, and the
language specification says that `select` chooses among ready cases with a
uniform pseudo-random selection, so it cannot miss one forever.

Fairness of `MessageEvents`: the threads in `AddMessage` and the goroutines that
need not wait take a step while one of them can. Nothing is assumed of
`RunSequence`, its timer or its caller, nor of messages to come.

Fairness of `IBFT` (`LiveSpec`): each correct validator takes its `Due` steps: those of
its own goroutines and of its timer, and the handlers for which what *correct*
validators have multicast is enough. For the latter `MessageEvents` is the reason:
messages that reach the store wake the handler. A step that needs a message of a
faulty validator may never come; `RunPrepare` is due only in a round with a
correct proposer, since `HasPrepareQuorum` gives up when a PREPARE of the proposer
is stored, and a faulty one may send it. `RoundExpired` may come before any other
step in the rounds before the last; the last is the round that is long enough.

`Terminates` says what follows in the last round, whatever happened before: every
correct validator inserts a block, unless one of three named things has
happened. A validator returned early and votes no more (with a faulty
validator and four in all everyone is needed). A PREPARE went out in the view
that a jump on a proposal left, which is the divergence of `prepare_view`. Or the
proposer is starved: a validator that changes the round on a certificate sends no
ROUND_CHANGE of its own, so those of correct validators may stay short of a
quorum. The exceptions are weaker guarantees of the code, not of the model; a
later round would get over the last two.

What the violations show.

1. `sent_back`. Four validators of equal power, one of them faulty, insert different
   values. v is prepared in round 1, where a commits it. w is proposed in round 2 from a
   certificate that reports nothing, and b and c commit it, so c is locked on
   w. A refused certificate of round 3 wakes c's watcher, which finds the
   certificate of round 1; c moves there, accepts v, overwrites its lock, and finishes v
   with the COMMIT of a and one of d. The others decide w in round 3. So a
   certificate of an earlier round does not just cost a round: it takes away the
   votes and locks on which agreement rests.
2. `votes_twice`. `hasAcceptedProposal` is read when the certificate is looked up and the
   signal is received later: a validator that has accepted one proposal of an
   equivocating proposer, and prepared it, is sent back into its own round and prepares
   the other. Equality alone is compared, and too early.
3. `old_payload`. A faulty validator reports a prepared proposal of its own with
   the payload of another round. `buildProposal` goes by the payload, `validateProposal` by
   the view, so the next proposer takes the older value. As a rule everybody refuses it, and
   the round is lost (`RefusalNeedsFaulty` says that nothing else makes them refuse).
   But nobody asks a proposer about its own proposal: where it is a quorum with the
   faulty validators (not `ProposersNeedOthers`) the value is finished beside another.
4. `height_again`. Nobody is faulty. Two validators that committed v are cancelled and
   run the height again, as `core/drop_test.go:267-272` does with nodes that failed
   to finish a height. `state.reset` has forgotten their locks; another validator has
   inserted v, and they decide w. What a caller may rely on then is only
   `RepeatedSoundness` and `RepeatedBlocks`.
5. `prepare_view`. After a jump on a future proposal the PREPARE goes out for the
   round that was left, so it counts nowhere.
6. `wait_for_rcc`. A proposer that waits for the certificate of its round is given the
   one of a later round and builds a proposal that everybody refuses. 5 and 6
   cost a round.
7. `min_round`. `subscribe` looks only at the exact round of a subscription with a lower
   bound: a proposal two rounds ahead that is already in the store does not wake
   the watcher of the current round, but that of the next one finds it. `NoLostWakeup` and
   `Woken` are therefore about the worker and the watcher of certificates, in the view
   of their subscription.

One more is not in a run. After a failed `ValidatorManager.Init` the state is at the new
height with the powers of the previous one, which `AddMessage` uses until the next
call; no round is run with them (`PowersInUse`).

## Proofs

`VotingPower_proofs` proves, for every validator set and every assignment of powers:
`QuorumIsTwoThirds` (with its integer division, `calculateQuorum` accepts exactly the
sets with more than two thirds of the power), `ValidatorsAreQuorum`, `QuorumsGrow`,
`QuorumsShareThird`, `QuorumsMeetOutside` (two quorums share a validator outside every
set with at most a third of the power) and `RestIsQuorum` (without a set the rest is a
quorum exactly when the set has *less* than a third). The sums are by induction over
the set of validators: the library's induction theorems take an operator, which
cannot be instantiated here, so `InductionOnSubsets` restates the principle for a set
of subsets, from the well-foundedness of the naturals.

`IBFT_proofs` proves, for every validator set, power assignment, proposer
schedule, set of values and number of rounds,

* of every execution: `TypeCorrect`, `Soundness` (`Spec => []SoundInv`), and from it
  `ValidityHolds`, `BlockIsSealedHolds` and `ValidatorsStepHolds`;
* of every execution in which no validator is sent back, if `ProposersNeedOthers`:
  `TimelyInvariance` (`Spec /\ []RoundCertificateIsHigher => []IInv`), and from it
  `TimelyExecutionsAgree` (agreement, unique votes, reported locks, usable
  certificates) and `TimelyRefinement` (`ImplementsConsensus`). Nothing else is left
  out: certificates that are refused, certificates of later rounds and free payloads
  are all there. The runs `sent_back`, `votes_twice` and `old_payload` show that neither
  condition can be dropped;
* if nobody is faulty (`Faulty = {}`) and `ProposersNeedOthers`, of every execution,
  whoever is cancelled and whatever is lost: `CrashesAgree`. Then no certificate
  sends anybody back, since every ROUND_CHANGE is usable (`NoUnusableQuorum`).

The other assumption on powers is `FaultyAssumption`: the faulty validators have at most a
third of the power. That what is left is a quorum, so that anything can be finished,
needs less than a third (`RestIsQuorum`).

`RepeatedHeight_proofs` proves what survives when heights are run again, of every
execution: `RepeatedSoundness` (`SoundInv`) and `RepeatedBlocks` (a block has the
seals of a commit quorum of its round, though its COMMITs may come from several
runs).

The argument. None of the properties is inductive. `SoundInv` is what holds in every
execution: what the state of a validator says about itself (`LocalInv`: the accepted
proposal is of its round and signed by the proposer; a worker past `startRound` has
the round started); that what is prepared, committed or reported was signed by a
quorum (`PreparedInv`); that a PREPREPARE carries ROUND_CHANGE messages that were sent
and pass `validPC` (`CertificateInv`). `IInv` adds what a validator that goes back to a
round could break: votes are never of a later round than their sender's, and those
of the current round are for the accepted proposal (`VoteInv`), so a second vote would
need the proposal to change within a round; whoever sent a COMMIT still holds a
certificate at least as recent (`CommitInv`), which is what `roundExpired` reports
(`RoundChangeInv`, `ReportsLock`). `SafeInv` is the core: a validator prepares only a
value that is *safe*, that is, for every earlier round there is a quorum whose
correct members have committed to the same value or will commit to nothing in
that round any more. `CertifiedIsSafe` shows it from a certificate: rounds above its
highest prepared one by `ReportsLock`, the round of it because two certificates of a
round carry the same proposal (`OneProposalPerRound`), the rounds below because what
a quorum prepared was prepared by a correct validator (`PreparedIsSafe`).
`AcceptedIsSafe` and `ProposableIsSafe` apply it to what `validateProposal` accepts and
to what `buildProposal` takes, also when its certificate is of a later round, and
`SafeIsStable` shows that a safe value stays safe. Agreement follows: two commit
quorums of one round share a voter that votes once, and a later one was prepared
with a value that was safe for the earlier round. The proofs of the steps do not go
through all thirteen actions each time: `StepCases` shows that a step is one of five
effects (`Quiet`, `Proposes`, `Prepares`, `RunPrepare`, `Moves`) on what the parts of
the invariant mention.

`RunSequence_proofs` proves, for all heights, rounds and rounds in which the
validator proposes: `Invariance` (`Spec => []Inv`), and from it `TypeCorrect`,
`SignalsAreCurrentHolds`, `NameMatchesProposalHolds`, `DecisionStandsHolds`,
`PowersInUseHolds` and the action property `JumpsForwardHolds`. `Inv` adds to the
properties that goroutines exist only in `select` and `teardown` (without it a
call could change the height under a goroutine); which phases a kind of
goroutine can be in; that an accepted proposal means `roundStarted`, so that
`newRound` keeps the state of a future proposal; and what a signal promises (the
worker's: state `fin`; the proposal's: a higher round; the timer's: not the last
round), first while it is being sent and then while `taken` holds it.

It also proves `Refinement` (`Spec => ImplementsValidator`), for which `MappingInv`
adds what ties a worker's phase to its state name while it runs: `HiddenSteps` are
the goroutines' steps that `Validator` does not see, `MainSimulates` and
`GoroutineSimulates` map the others. `IBFT_proofs` proves the other half,
`ValidatorsStepHolds`, from `SoundInv`: `OwnStep` maps the thirteen actions to those
of `Validator`, `OthersKeep` shows that an action leaves the other validators alone.

`MessageEvents_proofs` proves, for every set of validators, quorums, heights,
rounds, hashes and arriving messages: `TypeCorrect`, `SubscriptionsCurrent`,
`WakeupsKept` (`NoLostWakeup`) and `EarlyMessages` (`EarlyMessagesKept`). It assumes of
quorums only that they are not empty and that a larger set is one too
(`QuorumsAssumption`), which `QuorumsGrow` proves of those of `ValidatorManager`.
`NoLostWakeup` is not inductive. `Inv` adds `GoroutinesPlaced`
(which phases hold a subscription, and none outside a round) and `Attends`: a
goroutine that has read the store and not yet checked what it read covers, with
what is on its way, what the store holds now. The argument is then about who
acts last: a message stored after the look has a thread that will signal; one
stored before was read; an event that is dropped found another in the channel;
a handler that retries saw a store without the quorum, so that the
quorum needs another thread.

`Certificates_proofs` proves, for every store, in every order of the maps and
for all voting powers: `TypeCorrect`, `HighestCertificateHolds` and
`CertificatesAreSoundHolds`. They assume nothing of what faulty validators report but
its type (`InputsAssumption`).

`CertificatesMapping_proofs` proves, for every such store,

* `ReturnsCertificateOfIBFTHolds`: `CertificateIsSigned` finds the messages of a
  certificate among those sent, `ValidInIBFT` maps what `isValidMsgFn` accepts to
  `ValidPC` of `IBFT`;
* `ProposesAsInIBFTHolds`: `ProposedInIBFT` maps what the loop of `buildProposal` leaves in
  `previousProposal` to the report whose payload is of the highest round;
* `PreparedOnce`: certificates of one round that are for proposals of that round are for
  the same one, if correct validators vote once, as `TimelyExecutionsAgree` shows;
* `RefusalNeedsFaultyHolds`: a correct proposer with a certificate of its round is
  refused, or panics, only when a faulty validator reports the PREPREPARE of a
  faulty proposer with a payload of another round than its view. The order of the
  loops, and `>` in the one function where the other has `>=`, make no difference.

They assume `MappingAssumption` (at most a third of the power is faulty) and
`PayloadAssumption`: in a PREPREPARE that a correct validator built, or accepted and
reports, the payload is of the round of the view. Both are what the code does:
`buildProposal` and `validateProposalCommon`. Nothing is assumed of a faulty
validator's report of a faulty proposer's message.

Only model-checked: the seven violations; `Terminates`, `Woken`, `RoundEnds`, `TeardownEnds`
and `CancelEnds`, since liveness is out of the prover's reach; and everything
about the instances themselves.

## Not modelled

* `Backend`, `Transport` and `Logger` are interfaces of the embedding program. The
  modules name what they assume of them, among it that their calls return.
* The duration of a round (`getRoundTimeout`, `ExtendRoundTimeout`): a timer expires
  at any time. `baseRoundTimeout * 2^round` leaves the range of `int64` only in a round that comes
  after rounds that last centuries, so no run of the program meets it.
* A payload without a `Proposal` ends the proposer in `Certificates` (`PanicOnPrevious`);
  in `IBFT` there is no such message, and what a program does that panics is not
  modelled.
* Powers with which a proposer is a quorum on its own: `IBFT` has them, with the
  certificate that is refused, but no run does, and the theorems that
  depend on it assume `ProposersNeedOthers`.
* `Messages.Close`, `numMessages` and `GetMostRoundChangeMessages`: no caller in the
  repository outside tests. `ValidatorManager.Init` is in `RunSequence`
  with success and failure; the conversion of its powers is not.
* The generated protobuf code, `PayloadNoSig` and the build tools have no behaviour
  of the protocol. Logging and metrics are left out everywhere.
* Values of the refined parts that `IBFT` does not see: which subset of the PREPARE
  messages a certificate holds, the order of messages in a PREPREPARE, the seals'
  signatures.

## What could come next

The plan of the modules above is carried out. Open are, in order of worth: the theorems
of `TimelyInvariance` for a `RunSequence` that compares the round of a certificate with its
own before it moves, where `RoundCertificateIsHigher` need not be assumed; what
a caller must keep of a height so that running it again is safe; and `Terminates`
with the exception for starved proposers replaced by further rounds,
which is too large for TLC at four validators.
