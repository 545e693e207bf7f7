---------------------------- MODULE IBFTLiveness ----------------------------
(***************************************************************************)
(* IBFT with the fairness that the code and its network give: goroutines   *)
(* are scheduled, timers fire, and a handler whose quorum correct          *)
(* validators have multicast is woken and finds it (MessageEvents is about *)
(* that).  Nothing is assumed of what faulty validators send: a step that  *)
(* needs one of their messages may never be taken.                         *)
(***************************************************************************)
EXTENDS IBFT

\* Votes of view r with this hash that correct validators have multicast
VotesFor(votes, r, hash) == Senders({m \in votes : m.round = r /\ m.hash = hash})

\* Correct validators have sent what handlePrepare waits for at n.  A faulty
\* proposer's own PREPARE makes HasPrepareQuorum give up.
PreparesArrive(n) ==
    /\ Proposer[round[n]] \in Correct
    /\ HasPrepareQuorum(Proposer[round[n]], VotesFor(prepares, round[n], proposal[n]))

\* The steps of n that must come: those of its goroutines and of its timer, and
\* the handlers for which messages of correct validators are enough.
Due(n) ==
    \/ StartRound(n) \/ StartRoundAsFirstProposer(n) \/ StartRoundAsProposer(n)
    \/ HasQuorum(Senders({m \in roundChanges : m.round = round[n]})) /\ BuildProposal(n)
    \/ Proposer[round[n]] \in Correct /\ RunNewRound(n)
    \/ PreparesArrive(n) /\ RunPrepare(n)
    \/ HasQuorum(VotesFor(commits, round[n], proposal[n])) /\ RunCommit(n)
    \/ RoundDone(n)
    \/ RoundExpired(n)

Fairness == \A n \in Correct : WF_vars(Due(n))

LiveSpec == Spec /\ Fairness

\* n has returned from RunSequence before the last round: with a block, or cancelled.
ReturnedEarly(n) ==
    worker[n] = "returned" /\ (inserted[n] = None \/ inserted[n].round < MaxRound)

\* The proposer of the last round waits for ROUND_CHANGE messages that no correct
\* validator will send any more: they are all there, some of them by a
\* certificate, and whoever comes by a certificate sends none of its own.
Starved ==
    /\ worker[Proposer[MaxRound]] = "waitForRCC"
    /\ \A n \in Correct : round[n] = MaxRound
    /\ ~HasQuorum(Senders({m \in roundChanges : m.round = MaxRound}))

\* The height ends.  Whatever a faulty proposer did in the rounds before, whoever
\* prepared which of its proposals there and whenever the timers expired, in a
\* last round with a correct proposer and time enough every correct validator
\* inserts a block: the proposal it gets there is one that all can accept and
\* vote for.  What can keep it from that is named: a validator that has
\* returned votes no more, a PREPARE was sent in the view that a jump left
\* (PrepareViewMatchesProposal), or the proposer is starved.
Terminates ==
    <>(\/ \A n \in Correct : inserted[n] # None
       \/ \E n \in Correct : ReturnedEarly(n)
       \/ \E m \in prepares : m.round # m.hash.round
       \/ Starved)
=============================================================================
