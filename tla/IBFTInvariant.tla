---------------------------- MODULE IBFTInvariant ----------------------------
(***************************************************************************)
(* The inductive invariants of IBFT: SoundInv for every execution, and     *)
(* IInv for those in which no validator is sent back to a round it has     *)
(* left (RoundCertificateIsHigher) and no proposer prepares on its own     *)
(* (ProposersNeedOthers).  Without the one or the other there are          *)
(* executions of the code in which IInv is violated, and Agreement.        *)
(***************************************************************************)
EXTENDS IBFT

\* A certificate that the protocol can have produced: of one round, with the
\* hash of a proposal of that round, and made of messages that were sent.
SoundPC(pc) ==
    /\ pc.proposal.round = pc.round
    /\ ProposalSigned(pc.round, pc.proposal)
    /\ PrepareQuorum(pc.round, pc.proposal)

\* One that handlePrepare has built
OwnPC(pc) == SoundPC(pc) /\ (pc.alone => HasQuorum({Proposer[pc.round]}))

\* What name and roundStarted say of the accepted proposal.
AcceptedInvAt(n) ==
    /\ name[n] = "newRound" <=> proposal[n] = None
    /\ ~roundStarted[n] => name[n] = "newRound"
    /\ worker[n] \in {"waitForRCC", "runStates"} => roundStarted[n]

AcceptedInv == \A n \in Correct : AcceptedInvAt(n)

\* The state struct and the goroutines of each validator agree on the round.
LocalInvAt(n) ==
    /\ AcceptedInvAt(n)
    /\ proposal[n] # None => /\ proposal[n].round = round[n]
                 /\ ProposalSigned(round[n], proposal[n])
    /\ worker[n] = "waitForRCC" => name[n] = "newRound" /\ n = Proposer[round[n]]
    /\ worker[n] = "startRound" /\ proposal[n] # None => n # Proposer[round[n]]
    /\ name[n] = "fin" => /\ seals[n] = proposal[n]
                  /\ CommitQuorum(round[n], proposal[n])

LocalInv == \A n \in Correct : LocalInvAt(n)

\* What correct validators propose and prepare passed IsValidProposal.
ValidInv ==
    /\ \A m \in prepares : m.from \in Correct /\ m.hash.value \in ValidValues
    /\ \A m \in prePrepares : m.from \in Correct /\ m.proposal.value \in ValidValues

\* What correct validators commit or report was prepared in its round.
PreparedInv ==
    /\ \A n \in Correct : latestPC[n] # None => OwnPC(latestPC[n])
    /\ \A m \in commits :
          m.from \in Correct /\ SoundPC([round |-> m.round, proposal |-> m.hash])
    /\ \A m \in roundChanges : m.pc # None => OwnPC(m.pc)

\* The certificate of a PREPREPARE is made of ROUND_CHANGE messages that were
\* sent, and that validPC accepts.
CertificateInv ==
    \A m \in prePrepares : \A rc \in m.certificate :
        /\ rc.from \in Correct => rc \in roundChanges
        /\ ValidPC(rc.pc, rc.round)

InsertedInv ==
    \A n \in Correct : inserted[n] # None =>
        /\ worker[n] = "returned"
        /\ inserted[n].seals = [value |-> inserted[n].value, round |-> inserted[n].round]
        /\ CommitQuorum(inserted[n].round, inserted[n].seals)

SoundInv ==
    /\ TypeOK
    /\ LocalInv
    /\ ValidInv
    /\ PreparedInv
    /\ CertificateInv
    /\ InsertedInv

-----------------------------------------------------------------------------

\* No proposer and the faulty validators are a quorum: whatever is prepared, a
\* correct validator that is not its proposer has voted for it.  So it is with
\* equal powers, of at least four validators.
ProposersNeedOthers == \A r \in Rounds : ~HasQuorum(Faulty \cup {Proposer[r]})

\* PREPAREs and PREPREPAREs: never of a later round than the sender's, and
\* those for its current round are for the proposal it has accepted.
VoteInv ==
    /\ \A m \in prepares :
          /\ m.from # Proposer[m.hash.round]
          /\ m.round <= m.hash.round
          /\ m.hash.round <= round[m.from]
          /\ m.hash.round = round[m.from] => proposal[m.from] = m.hash
    /\ \A m \in prePrepares :
          /\ m.from = Proposer[m.round]
          /\ m.proposal.round = m.round
          /\ m.round <= round[m.from]
          /\ m.round = round[m.from] => proposal[m.from] = m.proposal

\* COMMITs: the sender still holds a certificate at least as recent.
CommitInv ==
    /\ \A n \in Correct : latestPC[n] # None => latestPC[n].round <= round[n]
    /\ \A m \in commits :
          /\ m.round <= round[m.from]
          /\ m.round = round[m.from] =>
                name[m.from] \in {"commit", "fin"} /\ proposal[m.from] = m.hash
          /\ latestPC[m.from] # None
          /\ latestPC[m.from].round >= m.round
          /\ latestPC[m.from].round = m.round => latestPC[m.from].proposal = m.hash

RoundChangeInv ==
    \A m \in roundChanges :
        /\ m.from \in Correct
        /\ m.round <= round[m.from]
        /\ m.pc # None => m.pc.round < m.round

Committed(n, r, value) ==
    [from |-> n, round |-> r, hash |-> [value |-> value, round |-> r]] \in commits

WillNotCommit(n, r) ==
    /\ round[n] > r
    /\ \A m \in commits : ~(m.from = n /\ m.round = r)

\* No value but this one can ever be finished in a round below r.
SafeAt(value, r) ==
    \A q \in Rounds : q < r =>
        \E Q \in Quorums : \A n \in Q \cap Correct :
            Committed(n, q, value) \/ WillNotCommit(n, q)

\* A correct validator sends PREPAREs only for values that are safe.  What it
\* proposes need not be: the proposal may come of an old certificate.
SafeInv == \A m \in prepares : SafeAt(m.hash.value, m.hash.round)

IInv ==
    /\ SoundInv
    /\ VoteInv
    /\ VotesOnce
    /\ CommitInv
    /\ RoundChangeInv
    /\ ReportsLock
    /\ SafeInv
=============================================================================
