----------------------------- MODULE VotingPower -----------------------------
(***************************************************************************)
(* The quorum arithmetic of core/validator_manager.go for the height that  *)
(* is being finalised: the voting powers are those installed by the last   *)
(* successful ValidatorManager.Init.                                       *)
(***************************************************************************)
EXTENDS Integers, FiniteSets, FiniteSetsExt

CONSTANTS
    Validators,     \* the validator set of the height
    VotingPower     \* vm.validatorsVotingPower: the power of each validator

\* Init refuses a total power that is not positive (errVotingPowerNotCorrect).
ASSUME VotingPowerAssumption ==
    /\ IsFiniteSet(Validators)
    /\ VotingPower \in [Validators -> Nat]
    /\ \E v \in Validators : VotingPower[v] > 0

\* The power of the senders of a set of messages; an address that is not in
\* the map of voting powers adds nothing.
PowerOf(senders) ==
    MapThenSumSet(LAMBDA v : VotingPower[v], senders \cap Validators)

TotalPower == PowerOf(Validators)

\* calculateQuorum: FLOOR(2 * total / 3) + 1
QuorumSize == (2 * TotalPower) \div 3 + 1

\* All sets of validators that HasQuorum accepts.
Quorums == {S \in SUBSET Validators : PowerOf(S) >= QuorumSize}

HasQuorum(senders) == senders \cap Validators \in Quorums

\* The proposer's PREPREPARE counts as its vote: it is added to the senders of
\* the PREPARE messages and must not be among them.
HasPrepareQuorum(proposer, senders) ==
    /\ proposer \notin senders
    /\ HasQuorum(senders \cup {proposer})
=============================================================================
