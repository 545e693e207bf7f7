----------------------------- MODULE RunSequence -----------------------------
(***************************************************************************)
(* RunSequence of one validator and the four goroutines it starts for each *)
(* round, over a sequence of calls for growing or repeated heights: the    *)
(* unbuffered channels they signal on, the context of the round, and the   *)
(* wait group that teardown waits for.                                     *)
(*                                                                         *)
(* What the messages say is left to IBFT: a handler finds what it waits    *)
(* for at any time or never.  A goroutine is its phase and the view it     *)
(* read when it started.                                                   *)
(***************************************************************************)
EXTENDS Integers

CONSTANTS
    Heights,            \* the heights the embedding program runs
    MaxRound,           \* bound: the timer of this round never expires
    ProposerRounds,     \* rounds for which backend.IsProposer says we propose
    None

Rounds == 0 .. MaxRound

\* startRoundTimer, watchForFutureProposal, watchForRoundChangeCertificates,
\* and the startRound worker
Goroutines == {"timer", "proposals", "certificates", "worker"}

ASSUME ParameterAssumption ==
    /\ Heights \subseteq Nat
    /\ MaxRound \in Nat
    /\ None \notin Goroutines /\ None \notin Rounds

\* "starting": spawned, has not read the view;  "waiting": in its select;
\* the worker is "building", "accepting" (between setProposalMessage and
\* changeState) or in "states" (runStates);  "signalling": blocked in a send;
\* "returning": its signal was received;  "ended": wg.Done was called.
Phases == {"starting", "waiting", "building", "accepting", "states",
           "signalling", "returning", "ended"}

VARIABLES
    height, round,  \* state.view
    name,           \* state.name
    accepted,       \* state.proposalMessage # nil
    roundStarted,   \* state.roundStarted
    powers,         \* the height whose powers validatorManager holds
    main,           \* where RunSequence is: "idle", "init", "loop", "select", "teardown"
    taken,          \* the case of the select it took (None: ctxRound.Done), and the round it received
    ctx,            \* the caller's context is cancelled
    ctxRound,       \* so is the context of the round
    phase,          \* phase[g] of goroutine g
    view,           \* view[g], the view g works for
    signal          \* signal[g], the round that g sends

stateVars == <<height, round, name, accepted, roundStarted>>
mainVars == <<powers, main, taken, ctx, ctxRound>>
goroutineVars == <<phase, view, signal>>
vars == <<stateVars, mainVars, goroutineVars>>

CurrentView == <<height, round>>

Init ==
    /\ height = 0 /\ round = 0
    /\ name = "newRound" /\ accepted = FALSE /\ roundStarted = FALSE
    /\ powers = None
    /\ main = "idle"
    /\ taken = [by |-> None, round |-> 0]
    /\ ctx = FALSE /\ ctxRound = FALSE
    /\ phase = [g \in Goroutines |-> "ended"]
    /\ view = [g \in Goroutines |-> None]
    /\ signal = [g \in Goroutines |-> 0]

-----------------------------------------------------------------------------
(* RunSequence *)

\* A call for the next height, or again for this one: state.reset.
Call(h) ==
    /\ main = "idle"
    /\ h >= height
    /\ height' = h /\ round' = 0
    /\ name' = "newRound" /\ accepted' = FALSE /\ roundStarted' = FALSE
    /\ main' = "init"
    /\ ctx' = FALSE
    /\ UNCHANGED <<powers, taken, ctxRound, goroutineVars>>

\* validatorManager.Init: GetVotingPowers may fail, or report no voting power.
InitPowers ==
    /\ main = "init"
    /\ powers' = height
    /\ main' = "loop"
    /\ UNCHANGED <<stateVars, taken, ctx, ctxRound, goroutineVars>>

BugInitFails ==
    /\ main = "init"
    /\ main' = "loop"
    /\ UNCHANGED <<stateVars, powers, taken, ctx, ctxRound, goroutineVars>>

InitFails ==
    /\ main = "init"
    /\ main' = "idle"
    /\ UNCHANGED <<stateVars, powers, taken, ctx, ctxRound, goroutineVars>>

\* The caller cancels the context, which cancels those derived from it.
CancelCaller ==
    /\ main # "idle"
    /\ ~ctx
    /\ ctx' = TRUE
    /\ ctxRound' = TRUE
    /\ UNCHANGED <<stateVars, powers, main, taken, goroutineVars>>

BugStartOfRound ==
    /\ main = "loop"
    /\ main' = "select"
    /\ ctxRound' = FALSE
    /\ phase' = [g \in Goroutines |-> IF g = "timer" THEN "waiting" ELSE "starting"]
    /\ view' = [g \in Goroutines |-> IF g = "timer" THEN CurrentView ELSE None]
    /\ signal' = [g \in Goroutines |-> 0]
    /\ UNCHANGED <<stateVars, powers, taken, ctx>>

\* The top of the loop: a context for the round and four goroutines.  The timer
\* is given the round, the others read the view themselves.
StartOfRound ==
    /\ main = "loop"
    /\ main' = "select"
    /\ ctxRound' = ctx
    /\ phase' = [g \in Goroutines |-> IF g = "timer" THEN "waiting" ELSE "starting"]
    /\ view' = [g \in Goroutines |-> IF g = "timer" THEN CurrentView ELSE None]
    /\ signal' = [g \in Goroutines |-> 0]
    /\ UNCHANGED <<stateVars, powers, taken, ctx>>

BugReceive(g) ==
    /\ main = "select"
    /\ phase[g] = "signalling"
    /\ taken' = [by |-> g, round |-> signal[g]]
    /\ phase' = [phase EXCEPT ![g] = "returning"]
    /\ main' = "teardown"
    /\ UNCHANGED <<stateVars, powers, ctx, ctxRound, view, signal>>

\* A case of the select receives the signal of g, and teardown cancels the round.
Receive(g) ==
    /\ main = "select"
    /\ phase[g] = "signalling"
    /\ taken' = [by |-> g, round |-> signal[g]]
    /\ phase' = [phase EXCEPT ![g] = "returning"]
    /\ main' = "teardown"
    /\ ctxRound' = TRUE
    /\ UNCHANGED <<stateVars, powers, ctx, view, signal>>

\* The case of ctxRound.Done.
RoundCancelled ==
    /\ main = "select"
    /\ ctxRound
    /\ taken' = [by |-> None, round |-> 0]
    /\ main' = "teardown"
    /\ UNCHANGED <<stateVars, powers, ctx, ctxRound, goroutineVars>>

BugTornDown(by) ==
    /\ main = "teardown"
    /\ taken.by = by
    /\ \A g \in Goroutines \ {"timer"} : phase[g] = "ended"
    /\ taken' = [by |-> None, round |-> 0]

BugWaitGroup(by) ==
    /\ main = "teardown"
    /\ taken.by = by
    /\ \A g \in Goroutines \ {"worker"} : phase[g] = "ended"
    /\ taken' = [by |-> None, round |-> 0]

\* wg.Wait returns, in the case of the select that was taken.
TornDown(by) ==
    /\ main = "teardown"
    /\ taken.by = by
    /\ \A g \in Goroutines : phase[g] = "ended"
    /\ taken' = [by |-> None, round |-> 0]

NewProposal ==
    /\ TornDown("proposals")
    /\ round' = taken.round
    /\ accepted' = TRUE /\ name' = "prepare" /\ roundStarted' = TRUE
    /\ main' = "loop"
    /\ UNCHANGED <<height, powers, ctx, ctxRound, goroutineVars>>

BugMoveToNewRound ==
    /\ TornDown("timer") \/ TornDown("certificates")
    /\ round' = IF taken.by = "timer" THEN round + 2 ELSE taken.round
    /\ accepted' = FALSE /\ name' = "newRound" /\ roundStarted' = FALSE
    /\ main' = "loop"
    /\ UNCHANGED <<height, powers, ctx, ctxRound, goroutineVars>>

\* roundExpired and roundCertificate move to the round without a proposal.
MoveToNewRound ==
    /\ TornDown("timer") \/ TornDown("certificates")
    /\ round' = IF taken.by = "timer" THEN round + 1 ELSE taken.round
    /\ accepted' = FALSE /\ name' = "newRound" /\ roundStarted' = FALSE
    /\ main' = "loop"
    /\ UNCHANGED <<height, powers, ctx, ctxRound, goroutineVars>>

\* Inserts the block; the round it finished is the current one.
RoundDone ==
    /\ TornDown("worker")
    /\ main' = "idle"
    /\ UNCHANGED <<stateVars, powers, ctx, ctxRound, goroutineVars>>

SequenceCancelled ==
    /\ TornDown(None)
    /\ main' = "idle"
    /\ UNCHANGED <<stateVars, powers, ctx, ctxRound, goroutineVars>>

-----------------------------------------------------------------------------
(* The goroutines of a round *)

\* g goes on to phase p.
Goes(g, p) == phase' = [phase EXCEPT ![g] = p]

\* g blocks in the send of round r.
Signals(g, r) ==
    /\ Goes(g, "signalling")
    /\ signal' = [signal EXCEPT ![g] = r]

\* The watchers read the view and subscribe.
Subscribe(g) ==
    /\ g \in {"proposals", "certificates"}
    /\ phase[g] = "starting"
    /\ Goes(g, "waiting")
    /\ view' = [view EXCEPT ![g] = CurrentView]
    /\ UNCHANGED <<stateVars, mainVars, signal>>

BugExpire ==
    /\ phase["timer"] = "waiting"
    /\ view["timer"][2] < MaxRound
    /\ Goes("timer", "ended")
    /\ UNCHANGED <<stateVars, mainVars, view, signal>>

Expire ==
    /\ phase["timer"] = "waiting"
    /\ view["timer"][2] < MaxRound
    /\ Signals("timer", 0)
    /\ UNCHANGED <<stateVars, mainVars, view>>

BugFindProposal(r) ==
    /\ phase["proposals"] = "waiting"
    /\ r >= view["proposals"][2]
    /\ r \notin ProposerRounds
    /\ Signals("proposals", r)
    /\ UNCHANGED <<stateVars, mainVars, view>>

\* The subscription has HasMinRound, and a validator accepts no PREPREPARE for
\* a round in which it is the proposer.
FindProposal(r) ==
    /\ phase["proposals"] = "waiting"
    /\ r > view["proposals"][2]
    /\ r \notin ProposerRounds
    /\ Signals("proposals", r)
    /\ UNCHANGED <<stateVars, mainVars, view>>

\* The certificate of the highest round in the store: isValidRCCFn refuses the
\* view's round once a proposal is accepted, and no other.  There is no quorum of
\* ROUND_CHANGE messages for round 0.
FindCertificate(r) ==
    /\ phase["certificates"] = "waiting"
    /\ r > 0
    /\ ~(accepted /\ r = view["certificates"][2])
    /\ Signals("certificates", r)
    /\ UNCHANGED <<stateVars, mainVars, view>>

BugNewRound ==
    /\ name' = "newRound"
    /\ roundStarted' = TRUE
    /\ UNCHANGED <<height, round, accepted>>

\* startRound: state.newRound, then the view.
NewRound ==
    /\ name' = IF roundStarted THEN name ELSE "newRound"
    /\ roundStarted' = TRUE
    /\ UNCHANGED <<height, round, accepted>>

StartRound ==
    /\ phase["worker"] = "starting"
    /\ NewRound
    /\ view' = [view EXCEPT !["worker"] = CurrentView]
    /\ Goes("worker", IF round \in ProposerRounds THEN "building" ELSE "states")
    /\ UNCHANGED <<mainVars, signal>>

\* setProposalMessage, after buildProposal or in runNewRound.
SetProposal ==
    /\ \/ phase["worker"] = "building"
       \/ phase["worker"] = "states" /\ name = "newRound"
    /\ accepted' = TRUE
    /\ Goes("worker", "accepting")
    /\ UNCHANGED <<height, round, name, roundStarted, mainVars, view, signal>>

\* changeState(prepare), the second half of acceptProposal and of runNewRound.
EnterPrepare ==
    /\ phase["worker"] = "accepting"
    /\ name' = "prepare"
    /\ Goes("worker", "states")
    /\ UNCHANGED <<height, round, accepted, roundStarted, mainVars, view, signal>>

\* handlePrepare and handleCommit with a quorum.
RunPrepare ==
    /\ phase["worker"] = "states" /\ name = "prepare"
    /\ name' = "commit"
    /\ UNCHANGED <<height, round, accepted, roundStarted, mainVars, goroutineVars>>

RunCommit ==
    /\ phase["worker"] = "states" /\ name = "commit"
    /\ name' = "fin"
    /\ UNCHANGED <<height, round, accepted, roundStarted, mainVars, goroutineVars>>

BugRunFin ==
    /\ phase["worker"] = "states" /\ name \in {"commit", "fin"}
    /\ Signals("worker", 0)
    /\ UNCHANGED <<stateVars, mainVars, view>>

RunFin ==
    /\ phase["worker"] = "states" /\ name = "fin"
    /\ Signals("worker", 0)
    /\ UNCHANGED <<stateVars, mainVars, view>>

\* The places where g watches the context of the round; the handlers between
\* them run to their end.
WatchesContext(g) ==
    \/ phase[g] \in {"waiting", "signalling"}
    \/ phase[g] = "building" /\ view[g][2] > 0
    \/ phase[g] = "states" /\ name # "fin"

GiveUp(g) ==
    /\ ctxRound
    /\ WatchesContext(g)
    /\ Goes(g, "ended")
    /\ UNCHANGED <<stateVars, mainVars, view, signal>>

\* wg.Done after a signal was received.
Return(g) ==
    /\ phase[g] = "returning"
    /\ Goes(g, "ended")
    /\ UNCHANGED <<stateVars, mainVars, view, signal>>

-----------------------------------------------------------------------------

MainStep ==
    \/ InitPowers \/ InitFails
    \/ StartOfRound
    \/ \E g \in Goroutines : Receive(g)
    \/ RoundCancelled
    \/ NewProposal \/ MoveToNewRound \/ RoundDone \/ SequenceCancelled

\* Steps a goroutine takes whatever messages there are.
GoroutineStep(g) ==
    \/ GiveUp(g) \/ Return(g) \/ Subscribe(g)
    \/ g = "timer" /\ Expire
    \/ g = "worker" /\ (StartRound \/ EnterPrepare \/ RunFin)

\* Steps that need messages, or the backend's proposal.
MessageStep ==
    \/ \E r \in Rounds : FindProposal(r) \/ FindCertificate(r)
    \/ SetProposal \/ RunPrepare \/ RunCommit

Next ==
    \/ \E h \in Heights : Call(h)
    \/ CancelCaller
    \/ MainStep
    \/ \E g \in Goroutines : GoroutineStep(g)
    \/ MessageStep

\* Every goroutine is scheduled and every timer expires; BuildProposal of round
\* 0 returns.  The select that keeps finding ctxRound done among other ready
\* cases takes it at some time: Go chooses among them at random.
Fairness ==
    /\ WF_vars(MainStep)
    /\ \A g \in Goroutines : WF_vars(GoroutineStep(g))
    /\ WF_vars(phase["worker"] = "building" /\ round = 0 /\ SetProposal)
    /\ SF_vars(RoundCancelled)

Spec == Init /\ [][Next]_vars /\ Fairness

-----------------------------------------------------------------------------
(* Properties *)

TypeOK ==
    /\ height \in Heights \cup {0} /\ round \in Rounds
    /\ name \in {"newRound", "prepare", "commit", "fin"}
    /\ accepted \in BOOLEAN /\ roundStarted \in BOOLEAN
    /\ powers \in Heights \cup {0, None}
    /\ main \in {"idle", "init", "loop", "select", "teardown"}
    /\ taken \in [by : Goroutines \cup {None}, round : Rounds]
    /\ ctx \in BOOLEAN /\ ctxRound \in BOOLEAN
    /\ phase \in [Goroutines -> Phases]
    /\ view \in [Goroutines -> ((Heights \cup {0}) \X Rounds) \cup {None}]
    /\ signal \in [Goroutines -> Rounds]

\* A goroutine that is alive works for the view that state holds, through
\* teardown and up to the next call: the channels belong to the IBFT instance
\* and not to a round, so only this keeps a signal of an old round from being
\* received in a later one.
SignalsAreCurrent ==
    \A g \in Goroutines : phase[g] \notin {"starting", "ended"} => view[g] = CurrentView

\* state.name says newRound exactly while no proposal is accepted, but for the
\* moment between the two halves of accepting it: no jump, restart of the worker
\* or signal that wins over another leaves the state machine waiting for a
\* PREPREPARE it has, or counting votes for one it has not.
NameMatchesProposal ==
    phase["worker"] # "accepting" => (name = "newRound" <=> ~accepted)

\* When roundDone was received, nothing that happens until the block is
\* inserted takes the decision away: insertBlock reads an accepted proposal in
\* state fin.
DecisionStands ==
    main = "teardown" /\ taken.by = "worker" => name = "fin" /\ accepted

\* Quorums are counted with the powers of the height being run, in every round.
PowersInUse ==
    main \in {"loop", "select", "teardown"} => powers = height

\* A future proposal or an expired timer takes the sequence to a higher round,
\* although the round to go to was chosen before the select and the teardown.
JumpsForward ==
    [][main = "teardown" /\ main' = "loop" /\ taken.by # "certificates"
          => round' > round]_vars

\* Every round but the last one ends: some case of the select is taken.
RoundEnds ==
    main = "select" /\ round < MaxRound ~> main = "teardown"

\* wg.Wait returns: every goroutine sees the cancelled context, also one that
\* is blocked in a send that nobody will receive any more.
TeardownEnds ==
    main = "teardown" ~> main # "teardown"

\* RunSequence returns after its caller cancelled it, although the select may
\* serve other signals first.
CancelEnds ==
    ctx /\ main # "idle" ~> main = "idle"

\* The worker of IBFT: a proposer without its proposal waits, also when the
\* goroutine has given up.  In round 0 it builds within startRound.
FirstProposal == round = 0 /\ 0 \in ProposerRounds /\ phase["worker"] \in {"building", "accepting"}

AcceptedBar == accepted /\ phase["worker"] # "accepting"

WorkerBar ==
    IF main = "idle" THEN "returned"
    ELSE IF main = "init" THEN "init"
    ELSE IF main = "loop" \/ phase["worker"] = "starting" \/ FirstProposal THEN "startRound"
    ELSE IF round \in ProposerRounds /\ ~AcceptedBar THEN "waitForRCC"
    ELSE "runStates"

\* A certificate that the watcher has signalled, while the round lasts.
RccBar ==
    IF main \in {"select", "teardown"} /\ signal["certificates"] > 0
    THEN signal["certificates"] ELSE None

AbstractValidator ==
    INSTANCE Validator WITH
        accepted <- AcceptedBar,
        roundStarted <- roundStarted /\ ~FirstProposal,
        worker <- WorkerBar,
        rcc <- RccBar

\* The goroutines, their channels and the teardown come to what IBFT has in one
\* step each: handlers of a worker that run to their end, the case of the select
\* that was taken, and a certificate that is signalled in its round or not at all.
ImplementsValidator == AbstractValidator!Spec

\* The inductive invariant: goroutines exist only in select and teardown, a
\* goroutine is where its kind can be, and what a signal promises holds until
\* the select case that received it has run.
Inv ==
    /\ TypeOK /\ SignalsAreCurrent /\ NameMatchesProposal /\ PowersInUse
    /\ main \notin {"select", "teardown"} => \A g \in Goroutines : phase[g] = "ended"
    /\ \A g \in Goroutines \ {"worker"} : phase[g] \notin {"building", "accepting", "states"}
    /\ accepted \/ phase["worker"] \notin {"starting", "ended"} => roundStarted
    /\ phase["worker"] = "accepting" => accepted
    /\ phase["worker"] \in {"signalling", "returning"} => name = "fin"
    /\ phase["timer"] = "signalling" => round < MaxRound
    /\ phase["proposals"] = "signalling" => signal["proposals"] > round
    /\ main = "teardown" =>
          /\ taken.by = "worker" => name = "fin" /\ phase["worker"] \in {"returning", "ended"}
          /\ taken.by = "timer" => round < MaxRound
          /\ taken.by = "proposals" => taken.round > round
=============================================================================
