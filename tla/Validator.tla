----------------------------- MODULE Validator ------------------------------
(***************************************************************************)
(* The state struct of one validator at the grain of IBFT: a handler of    *)
(* the worker is one step, and so is a case of the select of RunSequence   *)
(* with its teardown.  Messages, values and votes are left out.            *)
(*                                                                         *)
(* RunSequence, with its goroutines and channels, implements it, and every *)
(* validator of IBFT does: what is shown of IBFT in large steps is about   *)
(* the program that takes the small ones.                                  *)
(***************************************************************************)
EXTENDS Integers

CONSTANTS
    Heights, Rounds,
    ProposerRounds,     \* rounds in which this validator is the proposer
    None

VARIABLES
    height, round,      \* state.view
    name,               \* state.name
    roundStarted,       \* state.roundStarted
    accepted,           \* state.proposalMessage # nil
    worker,             \* as in IBFT, and "init" until validatorManager.Init returns
    rcc                 \* the round blocked in signalNewRCC, or None

view == <<height, round>>
vars == <<height, round, name, roundStarted, accepted, worker, rcc>>

\* Before the first call, or when its Init has succeeded.
Init ==
    /\ height \in Heights \cup {0} /\ round = 0
    /\ name = "newRound" /\ roundStarted = FALSE /\ accepted = FALSE
    /\ worker \in {"returned", "startRound"}
    /\ rcc = None

-----------------------------------------------------------------------------
(* Calls of RunSequence *)

Call(h) ==
    /\ worker = "returned"
    /\ h >= height
    /\ height' = h /\ round' = 0
    /\ name' = "newRound" /\ roundStarted' = FALSE /\ accepted' = FALSE
    /\ worker' = "init"
    /\ UNCHANGED rcc

InitPowers(succeeds) ==
    /\ worker = "init"
    /\ worker' = IF succeeds THEN "startRound" ELSE "returned"
    /\ UNCHANGED <<view, name, roundStarted, accepted, rcc>>

-----------------------------------------------------------------------------
(* The startRound worker *)

NewRound ==
    /\ roundStarted' = TRUE
    /\ name' = IF roundStarted THEN name ELSE "newRound"

StartRound ==
    /\ worker = "startRound"
    /\ NewRound
    /\ \/ round \notin ProposerRounds /\ worker' = "runStates"
       \/ round \in ProposerRounds /\ round > 0 /\ worker' = "waitForRCC"
    /\ UNCHANGED <<view, accepted, rcc>>

AcceptProposal ==
    /\ accepted' = TRUE
    /\ name' = "prepare"
    /\ worker' = "runStates"
    /\ UNCHANGED <<view, rcc>>

StartRoundAsFirstProposer ==
    /\ worker = "startRound"
    /\ round = 0 /\ 0 \in ProposerRounds
    /\ roundStarted' = TRUE
    /\ AcceptProposal

BuildProposal ==
    /\ worker = "waitForRCC"
    /\ AcceptProposal
    /\ UNCHANGED roundStarted

RunNewRound ==
    /\ worker = "runStates" /\ name = "newRound"
    /\ AcceptProposal
    /\ UNCHANGED roundStarted

\* runPrepare and runCommit
RunVotes(from, to) ==
    /\ worker = "runStates" /\ name = from
    /\ name' = to
    /\ UNCHANGED <<view, roundStarted, accepted, worker, rcc>>

WatchForRoundChangeCertificates(r) ==
    /\ worker \notin {"init", "returned"}
    /\ rcc = None
    /\ r > 0
    /\ ~(accepted /\ r = round)
    /\ rcc' = r
    /\ UNCHANGED <<view, name, roundStarted, accepted, worker>>

-----------------------------------------------------------------------------
(* The select of RunSequence *)

InRound == worker \in {"waitForRCC", "runStates"}

MoveToNewRound(r, withProposal) ==
    /\ InRound
    /\ round' = r
    /\ accepted' = withProposal /\ roundStarted' = withProposal
    /\ name' = IF withProposal THEN "prepare" ELSE "newRound"
    /\ worker' = "startRound"
    /\ rcc' = None
    /\ UNCHANGED height

FutureProposal(r) ==
    /\ r > round /\ r \notin ProposerRounds
    /\ MoveToNewRound(r, TRUE)

RoundCertificate == rcc # None /\ MoveToNewRound(rcc, FALSE)

RoundExpired == round + 1 \in Rounds /\ MoveToNewRound(round + 1, FALSE)

\* RunSequence returns: with the block of a finished round, or cancelled.
Returns ==
    /\ worker' = "returned"
    /\ rcc' = None
    /\ UNCHANGED <<view, name, roundStarted, accepted>>

RoundDone == worker = "runStates" /\ name = "fin" /\ accepted /\ Returns

Cancel == InRound /\ Returns

Next ==
    \/ \E h \in Heights : Call(h)
    \/ \E succeeds \in BOOLEAN : InitPowers(succeeds)
    \/ StartRound \/ StartRoundAsFirstProposer \/ BuildProposal \/ RunNewRound
    \/ RunVotes("prepare", "commit") \/ RunVotes("commit", "fin")
    \/ \E r \in Rounds : WatchForRoundChangeCertificates(r) \/ FutureProposal(r)
    \/ RoundCertificate \/ RoundExpired \/ RoundDone \/ Cancel

Spec == Init /\ [][Next]_vars
=============================================================================
