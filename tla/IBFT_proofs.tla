---------------------------- MODULE IBFT_proofs ----------------------------
(***************************************************************************)
(* Proofs about IBFT, for every value of its constants.                    *)
(***************************************************************************)
EXTENDS IBFTInvariant, VotingPower_proofs

LEMMA RoundsAreNat == MaxRound \in Nat /\ Rounds \subseteq Nat /\ 0 \in Rounds
BY IBFTAssumption DEF Rounds

\* Two quorums share a correct validator.
LEMMA QuorumsMeet ==
    ASSUME NEW Q1 \in Quorums, NEW Q2 \in Quorums
    PROVE  \E n \in Correct : n \in Q1 /\ n \in Q2
<1>1. (Q1 \cap Q2) \ Faulty # {}
  BY FaultyAssumption, QuorumsMeetOutside
<1>2. Q1 \subseteq Validators
  BY DEF Quorums
<1>3. QED
  BY <1>1, <1>2 DEF Correct

\* What is prepared has the vote of a correct validator: a PREPARE, or the
\* PREPREPARE when the proposer is the only one in the quorum.
LEMMA PrepareQuorumVoter ==
    ASSUME NEW r \in Rounds, NEW hash, ProposalSigned(r, hash), PrepareQuorum(r, hash)
    PROVE  \/ \E m \in prepares : m.round = r /\ m.hash = hash
           \/ \E m \in prePrepares : m.round = r /\ m.proposal = hash
<1>1. PICK S \in SUBSET PrepareSenders(r, hash) : HasPrepareQuorum(Proposer[r], S)
  BY DEF PrepareQuorum, PrepareQuorums
<1>2. (S \cup {Proposer[r]}) \cap Validators \in Quorums
  BY <1>1 DEF HasPrepareQuorum, HasQuorum
<1>3. PICK n \in Correct : n \in S \cup {Proposer[r]}
  BY <1>2, QuorumsMeet
<1>4. CASE n \in S
  BY <1>1, <1>4 DEF PrepareSenders, Senders, Correct
<1>5. CASE n = Proposer[r]
  BY <1>5 DEF ProposalSigned, Correct
<1>6. QED
  BY <1>3, <1>4, <1>5

LEMMA HandlePrePrepareFact ==
    ASSUME TypeOK, NEW n \in Correct, NEW r \in Rounds, NEW p \in HandlePrePrepare(n, r)
    PROVE  /\ p \in Proposal
           /\ p.round = r
           /\ p.value \in ValidValues
           /\ n # Proposer[r]
           /\ \E m : /\ m \in PrePreparesOf(r)
                     /\ m.proposal = p
                     /\ ValidateProposal(n, m, r)
<1>1. PICK m \in PrePreparesOf(r) : m.proposal = p /\ ValidateProposal(n, m, r)
  BY DEF HandlePrePrepare
<1>2. m.proposal \in Proposal
  BY DEF PrePreparesOf, TypeOK, PrePrepare
<1>3. QED
  BY <1>1, <1>2 DEF ValidateProposal

LEMMA HandlePrePrepareAll ==
    ASSUME TypeOK, NEW n \in Correct
    PROVE  \A r \in Rounds : \A p \in HandlePrePrepare(n, r) :
              p \in Proposal /\ p.round = r /\ p.value \in ValidValues /\ n # Proposer[r]
<1> SUFFICES ASSUME NEW r \in Rounds, NEW p \in HandlePrePrepare(n, r)
             PROVE  p \in Proposal /\ p.round = r /\ p.value \in ValidValues /\ n # Proposer[r]
  OBVIOUS
<1> QED
  BY HandlePrePrepareFact

\* Rounds can be compared.
LEMMA RoundTypes ==
    ASSUME TypeOK
    PROVE  /\ \A n \in Correct : round[n] \in Nat /\ round[n] \in Rounds
           /\ \A m \in prePrepares : m.round \in Nat /\ m.round \in Rounds
           /\ \A m \in prepares : /\ m.round \in Nat /\ m.round \in Rounds
                                  /\ m.hash.round \in Nat /\ m.hash.round \in Rounds
           /\ \A m \in commits : m.round \in Nat /\ m.round \in Rounds
           /\ \A m \in roundChanges : m.round \in Nat /\ m.round \in Rounds
           /\ \A pc \in PreparedCertificate : pc.round \in Nat /\ pc.round \in Rounds
BY RoundsAreNat DEF TypeOK, PrePrepare, Vote, Proposal, RoundChange, PreparedCertificate

LEMMA ProposeType ==
    ASSUME TypeOK, NEW n \in Correct, NEW value \in ValidValues \cup Values,
           NEW C \in SUBSET RoundChange, Propose(n, value, C), roundStarted' \in [Correct -> BOOLEAN]
    PROVE  TypeOK'
<1>1. [value |-> value, round |-> round[n]] \in Proposal
  BY IBFTAssumption DEF TypeOK, Proposal
<1>2. [from |-> n, round |-> round[n], proposal |-> [value |-> value, round |-> round[n]],
       certificate |-> C] \in PrePrepare
  BY <1>1 DEF TypeOK, PrePrepare, Correct
<1>3. QED
  BY <1>1, <1>2 DEF TypeOK, Propose, StateNames, WorkerStates

LEMMA ValidRoundChangesType ==
    ASSUME TypeOK, NEW r \in Rounds
    PROVE  ValidRoundChanges(r) \subseteq RoundChange
BY IBFTAssumption
DEF TypeOK, ValidRoundChanges, Usable, RoundChangesOf, FaultyRoundChanges, RoundChange

LEMMA ProposableType ==
    ASSUME NEW C \in SUBSET RoundChange
    PROVE  ProposableValues(C) \subseteq Values
<1>1. \A m \in Reporting(C) : m.pc \in PreparedCertificate
  BY DEF Reporting, RoundChange
<1>2. \A m \in Reporting(C) : m.pc.proposal.value \in Values
  BY <1>1 DEF PreparedCertificate, Proposal
<1>3. QED
  BY <1>2, IBFTAssumption DEF ProposableValues

LEMMA MoveType ==
    ASSUME TypeOK, NEW n \in Correct, NEW r \in Rounds, NEW p \in Proposal \cup {None},
           MoveToNewRound(n, r, p),
           prePrepares' \subseteq PrePrepare, prepares' \subseteq Vote, commits' \subseteq Vote,
           roundChanges' \subseteq RoundChange
    PROVE  TypeOK'
BY DEF TypeOK, MoveToNewRound, StateNames, WorkerStates

LEMMA TypeInit == Init => TypeOK
BY RoundsAreNat DEF Init, TypeOK, StateNames, WorkerStates

\* A proposal is accepted by the step that makes name "prepare".
LEMMA AcceptedStep == TypeOK /\ AcceptedInv /\ [Next]_vars => AcceptedInv'
<1> SUFFICES ASSUME TypeOK, AcceptedInv, [Next]_vars PROVE AcceptedInv'
  OBVIOUS
<1>0. CASE UNCHANGED vars
  BY <1>0 DEF AcceptedInv, AcceptedInvAt, vars, state
<1> DEFINE Kept(k) == /\ name'[k] = name[k]
                      /\ proposal'[k] = proposal[k]
                      /\ roundStarted'[k] = roundStarted[k]
                      /\ worker'[k] = worker[k]
<1>a. ASSUME NEW n \in Correct, \A k \in Correct \ {n} : Kept(k), AcceptedInvAt(n)'
      PROVE  AcceptedInv'
  BY <1>a DEF AcceptedInv, AcceptedInvAt
<1>b. \A p \in Proposal : p # None
  BY IBFTAssumption
<1>c. ASSUME NEW n \in Correct, NEW value \in Values, NEW C, Propose(n, value, C)
      PROVE  /\ \A k \in Correct \ {n} :
                   name'[k] = name[k] /\ proposal'[k] = proposal[k] /\ worker'[k] = worker[k]
             /\ name'[n] = "prepare" /\ proposal'[n] # None
  <2>1. [value |-> value, round |-> round[n]] \in Proposal
    BY DEF TypeOK, Proposal
  <2>2. QED
    BY <1>b, <1>c, <2>1 DEF TypeOK, Propose
<1>d. ASSUME NEW n \in Correct, NEW r \in Rounds, NEW p \in Proposal \cup {None},
             MoveToNewRound(n, r, p)
      PROVE  AcceptedInv'
  <2>1. \A k \in Correct \ {n} : Kept(k)
    BY <1>d DEF TypeOK, MoveToNewRound
  <2>2. AcceptedInvAt(n)'
    BY <1>b, <1>d DEF TypeOK, MoveToNewRound, AcceptedInvAt
  <2>3. QED
    BY <1>a, <2>1, <2>2
<1> SUFFICES ASSUME NEW n \in Correct,
        \/ StartRound(n)
        \/ StartRoundAsFirstProposer(n)
        \/ StartRoundAsProposer(n)
        \/ BuildProposal(n)
        \/ RunNewRound(n)
        \/ RunPrepare(n)
        \/ RunCommit(n)
        \/ WatchForRoundChangeCertificates(n)
        \/ FutureProposal(n)
        \/ RoundCertificate(n)
        \/ RoundExpired(n)
        \/ RoundDone(n)
        \/ Cancel(n)
    PROVE AcceptedInv'
  BY <1>0 DEF Next
<1>1. CASE StartRound(n) \/ StartRoundAsProposer(n)
  <2>1. \A k \in Correct \ {n} : Kept(k)
    BY <1>1 DEF TypeOK, StartRound, StartRoundAsProposer, NewRound
  <2>2. AcceptedInvAt(n)'
    BY <1>1 DEF TypeOK, StartRound, StartRoundAsProposer, NewRound, AcceptedInv, AcceptedInvAt
  <2>3. QED
    BY <1>a, <2>1, <2>2
<1>2. CASE StartRoundAsFirstProposer(n)
  <2>1. PICK value \in Values : Propose(n, value, {})
    BY <1>2, IBFTAssumption DEF StartRoundAsFirstProposer
  <2>2. roundStarted'[n] /\ \A k \in Correct \ {n} : roundStarted'[k] = roundStarted[k]
    BY <1>2 DEF TypeOK, StartRoundAsFirstProposer
  <2>3. AcceptedInvAt(n)'
    BY <1>c, <2>1, <2>2 DEF AcceptedInvAt
  <2>4. QED
    BY <1>a, <1>c, <2>1, <2>2, <2>3
<1>3. CASE BuildProposal(n)
  <2>0. PICK r \in Rounds : \E C \in RoundChangeCertificates(r) :
            \E value \in ProposableValues(C) : Propose(n, value, C)
    BY <1>3 DEF BuildProposal
  <2>1. PICK C \in RoundChangeCertificates(r) :
            \E value \in ProposableValues(C) : Propose(n, value, C)
    BY <2>0
  <2>2. C \in SUBSET RoundChange
    BY ValidRoundChangesType DEF RoundChangeCertificates
  <2>3. PICK value \in Values : Propose(n, value, C)
    BY <2>1, <2>2, ProposableType
  <2>4. roundStarted' = roundStarted /\ roundStarted[n]
    BY <1>3 DEF BuildProposal, AcceptedInv, AcceptedInvAt
  <2>5. AcceptedInvAt(n)'
    BY <1>c, <2>3, <2>4 DEF AcceptedInvAt
  <2>6. QED
    BY <1>a, <1>c, <2>3, <2>4, <2>5
<1>4. CASE RunNewRound(n)
  <2>1. round[n] \in Rounds
    BY DEF TypeOK
  <2>2. PICK p \in HandlePrePrepare(n, round[n]) : proposal' = [proposal EXCEPT ![n] = p]
    BY <1>4 DEF RunNewRound
  <2>3. p # None
    BY <1>b, <2>1, HandlePrePrepareFact
  <2>4. \A k \in Correct \ {n} : Kept(k)
    BY <1>4 DEF TypeOK, RunNewRound
  <2>5. AcceptedInvAt(n)'
    BY <1>4, <2>2, <2>3 DEF TypeOK, RunNewRound, AcceptedInv, AcceptedInvAt
  <2>6. QED
    BY <1>a, <2>4, <2>5
<1>5. CASE RunPrepare(n) \/ RunCommit(n)
  <2>1. \A k \in Correct \ {n} : Kept(k)
    BY <1>5 DEF TypeOK, RunPrepare, RunCommit
  <2>2. AcceptedInvAt(n)'
    BY <1>5 DEF TypeOK, RunPrepare, RunCommit, AcceptedInv, AcceptedInvAt
  <2>3. QED
    BY <1>a, <2>1, <2>2
<1>6. CASE WatchForRoundChangeCertificates(n) \/ RoundDone(n) \/ Cancel(n)
  <2>1. \A k \in Correct \ {n} : Kept(k)
    BY <1>6 DEF TypeOK, WatchForRoundChangeCertificates, RoundDone, Cancel, state
  <2>2. AcceptedInvAt(n)'
    BY <1>6 DEF TypeOK, WatchForRoundChangeCertificates, RoundDone, Cancel, state,
         AcceptedInv, AcceptedInvAt
  <2>3. QED
    BY <1>a, <2>1, <2>2
<1>7. CASE FutureProposal(n)
  <2>1. PICK r \in Rounds : \E p \in HandlePrePrepare(n, r) : MoveToNewRound(n, r, p)
    BY <1>7 DEF FutureProposal
  <2>2. PICK p \in HandlePrePrepare(n, r) : MoveToNewRound(n, r, p)
    BY <2>1
  <2>3. QED
    BY <1>d, <2>2, HandlePrePrepareFact
<1>8. CASE RoundCertificate(n)
  BY <1>8, <1>d DEF TypeOK, RoundCertificate
<1>9. CASE RoundExpired(n)
  <2>1. round[n] + 1 \in Rounds
    BY <1>9, RoundsAreNat DEF RoundExpired, TypeOK, Rounds
  <2>2. QED
    BY <1>9, <1>d, <2>1 DEF RoundExpired
<1>10. QED
  BY <1>1, <1>2, <1>3, <1>4, <1>5, <1>6, <1>7, <1>8, <1>9

LEMMA TypeStep == TypeOK /\ AcceptedInv /\ [Next]_vars => TypeOK'
<1> SUFFICES ASSUME TypeOK, AcceptedInv, [Next]_vars PROVE TypeOK'
  OBVIOUS
<1> USE RoundsAreNat
<1>0. CASE UNCHANGED vars
  BY <1>0 DEF TypeOK, vars, state, msgs
<1> SUFFICES ASSUME NEW n \in Correct,
        \/ StartRound(n)
        \/ StartRoundAsFirstProposer(n)
        \/ StartRoundAsProposer(n)
        \/ BuildProposal(n)
        \/ RunNewRound(n)
        \/ RunPrepare(n)
        \/ RunCommit(n)
        \/ WatchForRoundChangeCertificates(n)
        \/ FutureProposal(n)
        \/ RoundCertificate(n)
        \/ RoundExpired(n)
        \/ RoundDone(n)
        \/ Cancel(n)
    PROVE TypeOK'
  BY <1>0 DEF Next
<1>1. CASE StartRound(n)
  BY <1>1 DEF TypeOK, StartRound, NewRound, StateNames, WorkerStates, msgs
<1>2. CASE StartRoundAsFirstProposer(n)
  <2>1. roundStarted' \in [Correct -> BOOLEAN]
    BY <1>2 DEF TypeOK, StartRoundAsFirstProposer
  <2>2. QED
    BY <1>2, <2>1, ProposeType DEF StartRoundAsFirstProposer
<1>3. CASE StartRoundAsProposer(n)
  BY <1>3 DEF TypeOK, StartRoundAsProposer, NewRound, StateNames, WorkerStates, msgs
<1>4. CASE BuildProposal(n)
  <2>0. PICK r \in Rounds : \E C \in RoundChangeCertificates(r) :
            \E value \in ProposableValues(C) : Propose(n, value, C)
    BY <1>4 DEF BuildProposal
  <2>1. PICK C \in RoundChangeCertificates(r) :
            \E value \in ProposableValues(C) : Propose(n, value, C)
    BY <2>0
  <2>2. C \in SUBSET RoundChange
    BY ValidRoundChangesType DEF RoundChangeCertificates
  <2>3. PICK value \in Values : Propose(n, value, C)
    BY <2>1, <2>2, ProposableType
  <2>4. roundStarted' \in [Correct -> BOOLEAN]
    BY <1>4 DEF TypeOK, BuildProposal
  <2>5. QED
    BY <2>2, <2>3, <2>4, ProposeType
<1>5. CASE RunNewRound(n)
  <2>1. round[n] \in Rounds
    BY DEF TypeOK
  <2>2. PICK p \in HandlePrePrepare(n, round[n]) :
            /\ proposal' = [proposal EXCEPT ![n] = p]
            /\ prepares' = prepares \cup {[from |-> n, round |-> round[n], hash |-> p]}
    BY <1>5 DEF RunNewRound
  <2>3. p \in Proposal
    BY <2>1, HandlePrePrepareFact
  <2>4. [from |-> n, round |-> round[n], hash |-> p] \in Vote
    BY <2>1, <2>3 DEF Vote, Correct
  <2>5. QED
    BY <1>5, <2>2, <2>3, <2>4 DEF TypeOK, RunNewRound, StateNames
<1>6. CASE RunPrepare(n)
  <2>1. round[n] \in Rounds
    BY DEF TypeOK
  <2>2. proposal[n] \in Proposal
    BY <1>6 DEF RunPrepare, TypeOK, AcceptedInv, AcceptedInvAt
  <2>3. /\ [from |-> n, round |-> round[n], hash |-> proposal[n]] \in Vote
        /\ \A b \in BOOLEAN :
              [round |-> round[n], proposal |-> proposal[n], alone |-> b] \in PreparedCertificate
    BY <2>1, <2>2 DEF Vote, PreparedCertificate, Correct
  <2>4. \E b \in BOOLEAN : latestPC' = [latestPC EXCEPT ![n] =
            [round |-> round[n], proposal |-> proposal[n], alone |-> b]]
    BY <1>6 DEF RunPrepare
  <2>5. QED
    BY <1>6, <2>3, <2>4 DEF TypeOK, RunPrepare, StateNames
<1>7. CASE RunCommit(n)
  BY <1>7 DEF TypeOK, RunCommit, StateNames, msgs
<1>8. CASE WatchForRoundChangeCertificates(n)
  BY <1>8 DEF TypeOK, WatchForRoundChangeCertificates, state, msgs
<1>9. CASE FutureProposal(n)
  <2>0. PICK r \in Rounds : \E p \in HandlePrePrepare(n, r) :
            /\ MoveToNewRound(n, r, p)
            /\ prepares' = prepares \cup {[from |-> n, round |-> round[n], hash |-> p]}
    BY <1>9 DEF FutureProposal
  <2>1. PICK p \in HandlePrePrepare(n, r) :
            /\ MoveToNewRound(n, r, p)
            /\ prepares' = prepares \cup {[from |-> n, round |-> round[n], hash |-> p]}
    BY <2>0
  <2>2. p \in Proposal
    BY HandlePrePrepareFact
  <2>3. [from |-> n, round |-> round[n], hash |-> p] \in Vote
    BY <2>2 DEF Vote, Correct, TypeOK
  <2>4. UNCHANGED <<prePrepares, commits, roundChanges>>
    BY <1>9 DEF FutureProposal
  <2>5. QED
    BY <2>1, <2>2, <2>3, <2>4, MoveType DEF TypeOK
<1>10. CASE RoundCertificate(n)
  BY <1>10, MoveType DEF TypeOK, RoundCertificate, msgs
<1>11. CASE RoundExpired(n)
  <2>1. round[n] + 1 \in Rounds
    BY <1>11 DEF RoundExpired, TypeOK, Rounds
  <2>2. [from |-> n, round |-> round[n] + 1, pc |-> latestPC[n]] \in RoundChange
    BY <2>1 DEF RoundChange, Correct, TypeOK
  <2>3. QED
    BY <1>11, <2>1, <2>2, MoveType DEF RoundExpired, TypeOK
<1>12. CASE RoundDone(n)
  <2> DEFINE block == [value |-> IF proposal[n] = None THEN None ELSE proposal[n].value,
                       round |-> round[n], seals |-> seals[n]]
  <2>1. block \in Block
    BY DEF TypeOK, Block, Proposal
  <2>2. QED
    BY <1>12, <2>1 DEF TypeOK, RoundDone, WorkerStates, state, msgs
<1>13. CASE Cancel(n)
  BY <1>13 DEF TypeOK, Cancel, WorkerStates, state, msgs
<1>14. QED
  BY <1>1, <1>2, <1>3, <1>4, <1>5, <1>6, <1>7, <1>8, <1>9, <1>10, <1>11, <1>12, <1>13

\* Every state is well typed, whatever the faulty validators send: a prepared
\* certificate, a proposal or a vote of a correct validator is always complete,
\* although the handlers of ibft.go build them from messages of others.
THEOREM TypeCorrect == Spec => []TypeOK
<1>1. Init => AcceptedInv
  BY DEF Init, AcceptedInv, AcceptedInvAt
<1>2. QED
  BY <1>1, TypeInit, AcceptedStep, TypeStep, PTL DEF Spec

-----------------------------------------------------------------------------
(* Messages *)

LEMMA MessagesGrow ==
    ASSUME [Next]_vars
    PROVE  /\ prePrepares \subseteq prePrepares'
           /\ prepares \subseteq prepares'
           /\ commits \subseteq commits'
           /\ roundChanges \subseteq roundChanges'
BY DEF Next, vars, state, msgs, StartRound, StartRoundAsFirstProposer, StartRoundAsProposer,
       BuildProposal, Propose, RunNewRound, RunPrepare, RunCommit,
       WatchForRoundChangeCertificates, FutureProposal, RoundCertificate, RoundExpired,
       RoundDone, Cancel

\* What a set of sent messages supports, a larger set supports.
LEMMA Monotone ==
    ASSUME prePrepares \subseteq prePrepares', prepares \subseteq prepares',
           commits \subseteq commits'
    PROVE  /\ \A r, h : ProposalSigned(r, h) => ProposalSigned(r, h)'
           /\ \A r, h : PrepareQuorum(r, h) => PrepareQuorum(r, h)'
           /\ \A r, h : CommitQuorum(r, h) => CommitQuorum(r, h)'
           /\ \A pc : SoundPC(pc) => SoundPC(pc)'
           /\ \A pc : OwnPC(pc) => OwnPC(pc)'
           /\ \A pc, limit : ValidPC(pc, limit) => ValidPC(pc, limit)'
<1>1. \A r, h : ProposalSigned(r, h) => ProposalSigned(r, h)'
  BY DEF ProposalSigned
<1>2. \A r, h : PrepareSenders(r, h) \subseteq PrepareSenders(r, h)'
  BY DEF PrepareSenders, Senders
<1>3. \A r, h : CommitSenders(r, h) \subseteq CommitSenders(r, h)'
  BY DEF CommitSenders, Senders
<1>4. \A r, h : PrepareQuorum(r, h) => PrepareQuorum(r, h)'
  BY <1>2 DEF PrepareQuorum, PrepareQuorums
<1>5. \A r, h : CommitQuorum(r, h) => CommitQuorum(r, h)'
  BY <1>3 DEF CommitQuorum
<1>6. \A pc : SoundPC(pc) => SoundPC(pc)'
  BY <1>1, <1>4 DEF SoundPC
<1>7. \A pc, limit : ValidPC(pc, limit) => ValidPC(pc, limit)'
  <2> SUFFICES ASSUME NEW pc, NEW limit, ValidPC(pc, limit), pc # None
               PROVE  ValidPC(pc, limit)'
    BY DEF ValidPC
  <2>1. PICK S \in SUBSET (PrepareSenders(pc.round, pc.proposal) \ {Proposer[pc.round]}) :
            S # {} /\ HasQuorum(S \cup {Proposer[pc.round]})
    BY DEF ValidPC
  <2>2. S \in SUBSET (PrepareSenders(pc.round, pc.proposal)' \ {Proposer[pc.round]})
    BY <1>2
  <2>3. QED
    BY <1>1, <2>1, <2>2 DEF ValidPC
<1>8. \A pc : OwnPC(pc) => OwnPC(pc)'
  BY <1>6 DEF OwnPC, HasQuorum
<1>9. QED
  BY <1>1, <1>4, <1>5, <1>6, <1>7, <1>8

LEMMA ValidRoundChangesAreSent ==
    ASSUME TypeOK, NEW r \in Rounds, NEW C \in RoundChangeCertificates(r)
    PROVE  /\ C \in SUBSET RoundChange
           /\ \A rc \in C : /\ rc.round = r
                            /\ rc.from \in Correct => rc \in roundChanges
                            /\ ValidPC(rc.pc, rc.round)
<1>1. C \subseteq ValidRoundChanges(r)
  BY DEF RoundChangeCertificates
<1>2. QED
  BY <1>1, ValidRoundChangesType
  DEF ValidRoundChanges, Usable, RoundChangesOf, FaultyRoundChanges, Correct

LEMMA AcceptedIsSigned ==
    ASSUME TypeOK, NEW n \in Correct, NEW r \in Rounds, NEW p \in HandlePrePrepare(n, r)
    PROVE  ProposalSigned(r, p)
<1>1. PICK m : m \in PrePreparesOf(r) /\ m.proposal = p
  BY HandlePrePrepareFact
<1>2. QED
  BY <1>1 DEF PrePreparesOf, ProposalSigned

-----------------------------------------------------------------------------
(* The local invariant *)

\* A validator whose own state does not change keeps its local invariant.
LEMMA LocalFrame ==
    ASSUME LocalInv, NEW k \in Correct,
           prePrepares \subseteq prePrepares', prepares \subseteq prepares',
           commits \subseteq commits',
           /\ round'[k] = round[k]
           /\ name'[k] = name[k]
           /\ roundStarted'[k] = roundStarted[k]
           /\ proposal'[k] = proposal[k]
           /\ worker'[k] = worker[k]
           /\ seals'[k] = seals[k]
    PROVE  LocalInvAt(k)'
BY Monotone DEF LocalInv, LocalInvAt, AcceptedInvAt

LEMMA LocalMove ==
    ASSUME TypeOK, LocalInv, NEW n \in Correct, NEW r \in Rounds, NEW p \in Proposal \cup {None},
           MoveToNewRound(n, r, p),
           prePrepares \subseteq prePrepares', prepares \subseteq prepares',
           commits \subseteq commits',
           p # None => p.round = r /\ ProposalSigned(r, p) /\ n # Proposer[r]
    PROVE  LocalInv'
<1>1. \A k \in Correct \ {n} :
        /\ round'[k] = round[k]
        /\ name'[k] = name[k]
        /\ roundStarted'[k] = roundStarted[k]
        /\ proposal'[k] = proposal[k]
        /\ worker'[k] = worker[k]
        /\ seals'[k] = seals[k]
  BY DEF TypeOK, MoveToNewRound
<1>2. /\ round'[n] = r
      /\ name'[n] = IF p = None THEN "newRound" ELSE "prepare"
      /\ roundStarted'[n] = (p # None)
      /\ proposal'[n] = p
      /\ worker'[n] = "startRound"
  BY DEF TypeOK, MoveToNewRound
<1>3. \A k \in Correct \ {n} : LocalInvAt(k)'
  BY <1>1, LocalFrame
<1>4. LocalInvAt(n)'
  BY <1>2, Monotone DEF LocalInvAt, AcceptedInvAt
<1>5. QED
  BY <1>3, <1>4 DEF LocalInv

LEMMA LocalPropose ==
    ASSUME TypeOK, LocalInv, NEW n \in Correct, NEW value \in Values, NEW C,
           Propose(n, value, C),
           \A k \in Correct \ {n} : roundStarted'[k] = roundStarted[k],
           roundStarted'[n]
    PROVE  LocalInv'
<1> DEFINE p == [value |-> value, round |-> round[n]]
<1>1. \A k \in Correct \ {n} :
        /\ name'[k] = name[k]
        /\ proposal'[k] = proposal[k]
        /\ worker'[k] = worker[k]
  BY DEF TypeOK, Propose
<1>2. /\ name'[n] = "prepare"
      /\ proposal'[n] = p
      /\ worker'[n] = "runStates"
  BY DEF TypeOK, Propose
<1>3. /\ UNCHANGED <<round, rcc, seals, prepares, commits>>
      /\ prePrepares \subseteq prePrepares'
  BY DEF Propose
<1>4. ProposalSigned(round[n], p)'
  <2>1. [from |-> n, round |-> round[n], proposal |-> p, certificate |-> C] \in prePrepares'
    BY DEF Propose
  <2>2. \E m \in prePrepares' : m.round = round[n] /\ m.proposal = p
    BY <2>1
  <2>3. QED
    BY <1>3, <2>2 DEF ProposalSigned
<1>5. p # None
  BY IBFTAssumption DEF Proposal, TypeOK
<1>6. \A k \in Correct \ {n} : LocalInvAt(k)'
  BY <1>1, <1>3, LocalFrame
<1>7. LocalInvAt(n)'
  BY <1>2, <1>3, <1>4, <1>5 DEF LocalInv, LocalInvAt, AcceptedInvAt
<1>8. QED
  BY <1>6, <1>7 DEF LocalInv

LEMMA LocalStep ==
    ASSUME TypeOK, LocalInv, [Next]_vars
    PROVE  LocalInv'
<1> USE RoundsAreNat
<1>0. CASE UNCHANGED vars
  BY <1>0, LocalFrame DEF LocalInv, vars, state, msgs
<1>m. /\ prePrepares \subseteq prePrepares'
      /\ prepares \subseteq prepares'
      /\ commits \subseteq commits'
  BY MessagesGrow
<1> SUFFICES ASSUME NEW n \in Correct,
        \/ StartRound(n)
        \/ StartRoundAsFirstProposer(n)
        \/ StartRoundAsProposer(n)
        \/ BuildProposal(n)
        \/ RunNewRound(n)
        \/ RunPrepare(n)
        \/ RunCommit(n)
        \/ WatchForRoundChangeCertificates(n)
        \/ FutureProposal(n)
        \/ RoundCertificate(n)
        \/ RoundExpired(n)
        \/ RoundDone(n)
        \/ Cancel(n)
    PROVE LocalInv'
  BY <1>0 DEF Next
<1>1. CASE StartRound(n) \/ StartRoundAsProposer(n)
  <2>1. UNCHANGED <<round, proposal, seals, rcc, prePrepares, prepares, commits>>
    BY <1>1 DEF StartRound, StartRoundAsProposer, msgs
  <2>2. \A k \in Correct \ {n} :
          name'[k] = name[k] /\ roundStarted'[k] = roundStarted[k] /\ worker'[k] = worker[k]
    BY <1>1 DEF StartRound, StartRoundAsProposer, NewRound, TypeOK
  <2>3. name'[n] = name[n] /\ roundStarted'[n]
    BY <1>1 DEF StartRound, StartRoundAsProposer, NewRound, TypeOK, LocalInv, LocalInvAt, AcceptedInvAt
  <2>4. \/ worker'[n] = "runStates"
        \/ /\ worker'[n] = "waitForRCC"
           /\ n = Proposer[round[n]]
           /\ worker[n] = "startRound"
    BY <1>1 DEF StartRound, StartRoundAsProposer, TypeOK
  <2>5. \A k \in Correct \ {n} : LocalInvAt(k)'
    BY <1>m, <2>1, <2>2, LocalFrame
  <2>6. LocalInvAt(n)'
    BY <1>m, <2>1, <2>3, <2>4, Monotone DEF LocalInv, LocalInvAt, AcceptedInvAt
  <2>7. QED
    BY <2>5, <2>6 DEF LocalInv
<1>2. CASE StartRoundAsFirstProposer(n)
  <2>1. PICK value \in Values : Propose(n, value, {})
    BY <1>2, IBFTAssumption DEF StartRoundAsFirstProposer
  <2>2. QED
    BY <1>2, <2>1, LocalPropose DEF StartRoundAsFirstProposer, TypeOK
<1>3. CASE BuildProposal(n)
  <2>1. \E value \in Values, C \in SUBSET RoundChange : Propose(n, value, C)
    <3>1. PICK r \in Rounds : \E C \in RoundChangeCertificates(r) :
              \E value \in ProposableValues(C) : Propose(n, value, C)
      BY <1>3 DEF BuildProposal
    <3>2. QED
      BY <3>1, ValidRoundChangesAreSent, ProposableType
  <2>2. roundStarted[n]
    BY <1>3 DEF BuildProposal, LocalInv, LocalInvAt, AcceptedInvAt
  <2>3. QED
    BY <1>3, <2>1, <2>2, LocalPropose DEF BuildProposal, TypeOK
<1>4. CASE RunNewRound(n)
  <2>1. \E p \in HandlePrePrepare(n, round[n]) : proposal' = [proposal EXCEPT ![n] = p]
    BY <1>4 DEF RunNewRound
  <2>2. \A r \in Rounds : \A p \in HandlePrePrepare(n, r) :
          p \in Proposal /\ p.round = r /\ ProposalSigned(r, p)
    BY HandlePrePrepareFact, AcceptedIsSigned
  <2>3. PICK p \in Proposal : /\ p.round = round[n]
                             /\ ProposalSigned(round[n], p)
                             /\ proposal' = [proposal EXCEPT ![n] = p]
    <3>1. round[n] \in Rounds
      BY DEF TypeOK
    <3>2. QED
      BY <2>1, <2>2, <3>1
  <2>4. p # None
    BY <2>3, IBFTAssumption
  <2>5. \A k \in Correct \ {n} : LocalInvAt(k)'
    BY <1>4, <1>m, <2>3, LocalFrame DEF RunNewRound, TypeOK
  <2>6. LocalInvAt(n)'
    BY <1>4, <1>m, <2>3, <2>4, Monotone DEF RunNewRound, LocalInv, LocalInvAt, AcceptedInvAt, TypeOK
  <2>7. QED
    BY <2>5, <2>6 DEF LocalInv
<1>5. CASE RunPrepare(n)
  <2>1. \A k \in Correct \ {n} : LocalInvAt(k)'
    BY <1>5, <1>m, LocalFrame DEF RunPrepare, TypeOK, state, msgs
  <2>2. LocalInvAt(n)'
    BY <1>5, <1>m, Monotone DEF RunPrepare, LocalInv, LocalInvAt, AcceptedInvAt, TypeOK, state, msgs
  <2>3. QED
    BY <2>1, <2>2 DEF LocalInv
<1>6. CASE RunCommit(n)
  <2>1. \A k \in Correct \ {n} : LocalInvAt(k)'
    BY <1>6, <1>m, LocalFrame DEF RunCommit, TypeOK, state, msgs
  <2>2. LocalInvAt(n)'
    BY <1>6, <1>m, Monotone DEF RunCommit, LocalInv, LocalInvAt, AcceptedInvAt, TypeOK, state, msgs
  <2>3. QED
    BY <2>1, <2>2 DEF LocalInv
<1>7. CASE WatchForRoundChangeCertificates(n)
  <2>1. \A k \in Correct \ {n} : LocalInvAt(k)'
    BY <1>7, <1>m, LocalFrame DEF WatchForRoundChangeCertificates, TypeOK, state, msgs
  <2>2. LocalInvAt(n)'
    BY <1>7, <1>m, Monotone DEF WatchForRoundChangeCertificates, LocalInv, LocalInvAt, AcceptedInvAt, TypeOK, state, msgs
  <2>3. QED
    BY <2>1, <2>2 DEF LocalInv
<1>8. CASE FutureProposal(n)
  <2>1. PICK r \in Rounds : \E p \in HandlePrePrepare(n, r) : MoveToNewRound(n, r, p)
    BY <1>8 DEF FutureProposal
  <2>2. PICK p \in HandlePrePrepare(n, r) : MoveToNewRound(n, r, p)
    BY <2>1
  <2>3. p \in Proposal /\ p.round = r /\ n # Proposer[r]
    BY <2>2, HandlePrePrepareFact
  <2>4. ProposalSigned(r, p)
    BY <2>2, AcceptedIsSigned
  <2>5. QED
    BY <1>m, <2>2, <2>3, <2>4, LocalMove
<1>9. CASE RoundCertificate(n)
  BY <1>9, <1>m, LocalMove DEF RoundCertificate, TypeOK
<1>10. CASE RoundExpired(n)
  <2>1. round[n] + 1 \in Rounds
    BY <1>10 DEF TypeOK, Rounds, RoundExpired
  <2>2. QED
    BY <1>10, <1>m, <2>1, LocalMove DEF RoundExpired
<1>11. CASE RoundDone(n)
  <2>1. \A k \in Correct \ {n} : LocalInvAt(k)'
    BY <1>11, <1>m, LocalFrame DEF RoundDone, TypeOK, state, msgs
  <2>2. LocalInvAt(n)'
    BY <1>11, <1>m, Monotone DEF RoundDone, LocalInv, LocalInvAt, AcceptedInvAt, TypeOK, state, msgs
  <2>3. QED
    BY <2>1, <2>2 DEF LocalInv
<1>12. CASE Cancel(n)
  <2>1. \A k \in Correct \ {n} : LocalInvAt(k)'
    BY <1>12, <1>m, LocalFrame DEF Cancel, TypeOK, state, msgs
  <2>2. LocalInvAt(n)'
    BY <1>12, <1>m, Monotone DEF Cancel, LocalInv, LocalInvAt, AcceptedInvAt, TypeOK, state, msgs
  <2>3. QED
    BY <2>1, <2>2 DEF LocalInv
<1>13. QED
  BY <1>1, <1>2, <1>3, <1>4, <1>5, <1>6, <1>7, <1>8, <1>9, <1>10, <1>11, <1>12

-----------------------------------------------------------------------------
(* What the messages carry, whatever certificates are used *)

\* The messages that a step sends, and where their contents come from.
LEMMA WhatIsSent ==
    ASSUME TypeOK, Next
    PROVE  \E n \in Correct :
              /\ \A m \in prepares' \ prepares :
                    m.from = n /\ \E r \in Rounds : m.hash \in HandlePrePrepare(n, r)
              /\ \A m \in prePrepares' \ prePrepares :
                    /\ m.from = n
                    /\ \/ m.certificate = {} /\ m.proposal.value \in ValidValues
                       \/ \E r \in Rounds :
                             /\ m.certificate \in RoundChangeCertificates(r)
                             /\ m.proposal.value \in ProposableValues(m.certificate)
              /\ \/ commits' = commits /\ latestPC' = latestPC
                 \/ RunPrepare(n)
              /\ \A m \in roundChanges' \ roundChanges : m.from = n /\ m.pc = latestPC[n]
<1>1. PICK n \in Correct :
        \/ StartRound(n)
        \/ StartRoundAsFirstProposer(n)
        \/ StartRoundAsProposer(n)
        \/ BuildProposal(n)
        \/ RunNewRound(n)
        \/ RunPrepare(n)
        \/ RunCommit(n)
        \/ WatchForRoundChangeCertificates(n)
        \/ FutureProposal(n)
        \/ RoundCertificate(n)
        \/ RoundExpired(n)
        \/ RoundDone(n)
        \/ Cancel(n)
  BY DEF Next
<1> USE RoundsAreNat
<1>2. CASE \/ StartRound(n) \/ StartRoundAsProposer(n) \/ RunCommit(n)
           \/ WatchForRoundChangeCertificates(n) \/ RoundCertificate(n) \/ RoundDone(n)
           \/ Cancel(n)
  <2>1. UNCHANGED <<msgs, latestPC>>
    BY <1>2 DEF StartRound, StartRoundAsProposer, RunCommit, WatchForRoundChangeCertificates,
         RoundCertificate, MoveToNewRound, RoundDone, Cancel, state, msgs
  <2>2. QED
    BY <2>1 DEF msgs
<1>3. CASE StartRoundAsFirstProposer(n)
  <2>1. PICK value \in ValidValues : Propose(n, value, {})
    BY <1>3 DEF StartRoundAsFirstProposer
  <2>2. QED
    BY <2>1 DEF Propose
<1>4. CASE BuildProposal(n)
  <2>0. PICK r \in Rounds : \E C \in RoundChangeCertificates(r) :
            \E value \in ProposableValues(C) : Propose(n, value, C)
    BY <1>4 DEF BuildProposal
  <2>a. PICK C \in RoundChangeCertificates(r) :
            \E value \in ProposableValues(C) : Propose(n, value, C)
    BY <2>0
  <2>1. PICK value \in ProposableValues(C) : Propose(n, value, C)
    BY <2>a
  <2> DEFINE new == [from |-> n, round |-> round[n],
                     proposal |-> [value |-> value, round |-> round[n]], certificate |-> C]
  <2>2. /\ prePrepares' = prePrepares \cup {new}
        /\ UNCHANGED <<prepares, commits, roundChanges, latestPC>>
    BY <2>1 DEF Propose
  <2>3. new.from = n /\ new.certificate = C /\ new.proposal.value = value
    OBVIOUS
  <2>4. \A m \in prePrepares' \ prePrepares : m = new
    BY <2>2
  <2>5. \A m \in prePrepares' \ prePrepares :
           /\ m.from = n
           /\ m.certificate \in RoundChangeCertificates(r)
           /\ m.proposal.value \in ProposableValues(m.certificate)
    <3> HIDE DEF new
    <3> QED BY <2>1, <2>3, <2>4
  <2>6. QED
    BY <2>2, <2>5
<1>5. CASE RunNewRound(n)
  <2>1. PICK r \in Rounds : r = round[n]
    BY DEF TypeOK
  <2>2. PICK p \in HandlePrePrepare(n, r) :
           prepares' = prepares \cup {[from |-> n, round |-> r, hash |-> p]}
    BY <1>5, <2>1 DEF RunNewRound
  <2>3. UNCHANGED <<prePrepares, commits, roundChanges, latestPC>>
    BY <1>5 DEF RunNewRound
  <2>4. \A m \in prepares' \ prepares :
           m.from = n /\ m.hash \in HandlePrePrepare(n, r)
    BY <2>2
  <2>5. QED
    BY <2>3, <2>4
<1>6. CASE RunPrepare(n)
  <2>1. UNCHANGED <<prePrepares, prepares, roundChanges>>
    BY <1>6 DEF RunPrepare
  <2>2. QED
    BY <1>6, <2>1
<1>7. CASE FutureProposal(n)
  <2>1. PICK r \in Rounds : \E p \in HandlePrePrepare(n, r) :
           prepares' = prepares \cup {[from |-> n, round |-> round[n], hash |-> p]}
    BY <1>7 DEF FutureProposal
  <2>2. PICK p \in HandlePrePrepare(n, r) :
           prepares' = prepares \cup {[from |-> n, round |-> round[n], hash |-> p]}
    BY <2>1
  <2>3. UNCHANGED <<prePrepares, commits, roundChanges, latestPC>>
    BY <1>7 DEF FutureProposal, MoveToNewRound
  <2>4. QED
    BY <2>2, <2>3
<1>8. CASE RoundExpired(n)
  BY <1>8 DEF RoundExpired, MoveToNewRound
<1>9. QED
  BY <1>1, <1>2, <1>3, <1>4, <1>5, <1>6, <1>7, <1>8

\* What was prepared is a valid proposal.
LEMMA PreparedIsValid ==
    ASSUME TypeOK, ValidInv, NEW r \in Rounds, NEW hash,
           ProposalSigned(r, hash), PrepareQuorum(r, hash)
    PROVE  hash \in Proposal /\ hash.value \in ValidValues
BY PrepareQuorumVoter DEF ValidInv, TypeOK, Vote, PrePrepare

\* A certificate that validPC accepts was prepared.
LEMMA ValidPCIsPrepared ==
    ASSUME NEW pc, NEW limit, ValidPC(pc, limit), pc # None
    PROVE  /\ pc.round < limit
           /\ ProposalSigned(pc.round, pc.proposal)
           /\ PrepareQuorum(pc.round, pc.proposal)
<1>1. PICK S \in SUBSET (PrepareSenders(pc.round, pc.proposal) \ {Proposer[pc.round]}) :
          HasQuorum(S \cup {Proposer[pc.round]})
  BY DEF ValidPC
<1>2. HasPrepareQuorum(Proposer[pc.round], S)
  BY <1>1 DEF HasPrepareQuorum
<1>3. QED
  BY <1>1, <1>2 DEF ValidPC, PrepareQuorum, PrepareQuorums

\* buildProposal proposes a valid value, also one from a certificate that it
\* does not validate.
LEMMA ProposableIsValid ==
    ASSUME TypeOK, ValidInv, NEW r \in Rounds, NEW C \in RoundChangeCertificates(r)
    PROVE  ProposableValues(C) \subseteq ValidValues
<1>1. CASE Reporting(C) = {}
  BY <1>1 DEF ProposableValues
<1>2. CASE Reporting(C) # {}
  <2> SUFFICES ASSUME NEW m \in Reporting(C), NEW pc, pc = m.pc
               PROVE  pc.proposal.value \in ValidValues
    BY <1>2 DEF ProposableValues
  <2>1. pc # None /\ pc \in PreparedCertificate /\ \E limit : ValidPC(pc, limit)
    BY ValidRoundChangesAreSent DEF Reporting, RoundChange
  <2>2. /\ pc.round \in Rounds
        /\ ProposalSigned(pc.round, pc.proposal) /\ PrepareQuorum(pc.round, pc.proposal)
    BY <2>1, ValidPCIsPrepared DEF PreparedCertificate
  <2>3. QED
    BY <2>2, PreparedIsValid
<1>3. QED
  BY <1>1, <1>2

LEMMA ValidStep ==
    ASSUME TypeOK, ValidInv, Next
    PROVE  ValidInv'
<1>1. PICK n \in Correct :
        /\ \A m \in prepares' \ prepares :
              m.from = n /\ \E r \in Rounds : m.hash \in HandlePrePrepare(n, r)
        /\ \A m \in prePrepares' \ prePrepares :
              /\ m.from = n
              /\ \/ m.certificate = {} /\ m.proposal.value \in ValidValues
                 \/ \E r \in Rounds :
                       /\ m.certificate \in RoundChangeCertificates(r)
                       /\ m.proposal.value \in ProposableValues(m.certificate)
  BY WhatIsSent
<1>2. \A r \in Rounds : \A p \in HandlePrePrepare(n, r) : p.value \in ValidValues
  BY HandlePrePrepareAll
<1>3. \A r \in Rounds : \A C \in RoundChangeCertificates(r) :
         ProposableValues(C) \subseteq ValidValues
  BY ProposableIsValid
<1>4. \A m \in prepares' \ prepares : m.from \in Correct /\ m.hash.value \in ValidValues
  BY <1>1, <1>2
<1>5. \A m \in prePrepares' \ prePrepares :
         m.from \in Correct /\ m.proposal.value \in ValidValues
  BY <1>1, <1>3
<1>6. QED
  BY <1>4, <1>5 DEF ValidInv

\* What handlePrepare turns into a certificate is sound.
LEMMA PreparedIsSound ==
    ASSUME TypeOK, LocalInv, NEW n \in Correct, RunPrepare(n)
    PROVE  /\ proposal[n] \in Proposal
           /\ SoundPC([round |-> round[n], proposal |-> proposal[n]])
           /\ \E b \in BOOLEAN :
                 LET pc == [round |-> round[n], proposal |-> proposal[n], alone |-> b] IN
                 latestPC' = [latestPC EXCEPT ![n] = pc] /\ OwnPC(pc)
<1>1. proposal[n] \in Proposal
  BY DEF LocalInv, LocalInvAt, AcceptedInvAt, RunPrepare, TypeOK
<1>2. PICK S \in PrepareQuorums(round[n], proposal[n]) :
          latestPC' = [latestPC EXCEPT ![n] =
              [round |-> round[n], proposal |-> proposal[n], alone |-> S = {}]]
  BY DEF RunPrepare
<1>3. /\ proposal[n].round = round[n]
      /\ ProposalSigned(round[n], proposal[n])
      /\ PrepareQuorum(round[n], proposal[n])
  BY <1>1, <1>2, IBFTAssumption DEF LocalInv, LocalInvAt, PrepareQuorum
<1>4. ASSUME S = {} PROVE HasQuorum({Proposer[round[n]]})
  <2>1. HasQuorum(S \cup {Proposer[round[n]]})
    BY <1>2 DEF PrepareQuorums, HasPrepareQuorum
  <2>2. S \cup {Proposer[round[n]]} = {Proposer[round[n]]}
    BY <1>4
  <2>3. QED
    BY <2>1, <2>2
<1>5. QED
  BY <1>1, <1>2, <1>3, <1>4 DEF SoundPC, OwnPC

LEMMA PreparedStep ==
    ASSUME TypeOK, LocalInv, PreparedInv, Next
    PROVE  PreparedInv'
<1>1. PICK n \in Correct :
        /\ \/ commits' = commits /\ latestPC' = latestPC
           \/ RunPrepare(n)
        /\ \A m \in roundChanges' \ roundChanges : m.from = n /\ m.pc = latestPC[n]
  BY WhatIsSent
<1>2. \A pc : (SoundPC(pc) => SoundPC(pc)') /\ (OwnPC(pc) => OwnPC(pc)')
  BY MessagesGrow, Monotone
<1>3. \A m \in roundChanges' : m.pc # None => OwnPC(m.pc)'
  BY <1>1, <1>2 DEF PreparedInv
<1>4. CASE commits' = commits /\ latestPC' = latestPC
  <2>1. \A k \in Correct : latestPC'[k] # None => OwnPC(latestPC[k])'
    BY <1>2, <1>4 DEF PreparedInv
  <2>2. \A m \in commits' :
          m.from \in Correct /\ SoundPC([round |-> m.round, proposal |-> m.hash])'
    BY <1>2, <1>4 DEF PreparedInv
  <2>3. QED
    BY <1>3, <2>1, <2>2 DEF PreparedInv
<1>5. CASE RunPrepare(n)
  <2> DEFINE new == [from |-> n, round |-> round[n], hash |-> proposal[n]]
  <2>0. \E pc : latestPC' = [latestPC EXCEPT ![n] = pc] /\ OwnPC(pc)
    BY <1>5, PreparedIsSound
  <2>1. PICK pc : /\ commits' = commits \cup {new}
                  /\ latestPC' = [latestPC EXCEPT ![n] = pc]
                  /\ OwnPC(pc)
    BY <1>5, <2>0 DEF RunPrepare
  <2>a. PICK own : own = [round |-> round[n], proposal |-> proposal[n]] /\ SoundPC(own)
    BY <1>5, PreparedIsSound
  <2>2. OwnPC(pc)' /\ SoundPC(own)'
    BY <1>2, <2>1, <2>a
  <2>3. \A k \in Correct : latestPC'[k] # None => OwnPC(latestPC[k])'
    <3> SUFFICES ASSUME NEW k \in Correct, latestPC'[k] # None
                 PROVE  OwnPC(latestPC[k])'
      OBVIOUS
    <3>1. CASE k = n
      BY <2>1, <2>2, <3>1 DEF TypeOK
    <3>2. CASE k # n
      BY <1>2, <2>1, <3>2 DEF TypeOK, PreparedInv
    <3>3. QED
      BY <3>1, <3>2
  <2>4. ASSUME NEW m \in commits'
        PROVE  m.from \in Correct /\ SoundPC([round |-> m.round, proposal |-> m.hash])'
    <3>1. CASE m = new
      <4>1. [round |-> m.round, proposal |-> m.hash] = own /\ m.from \in Correct
        BY <2>a, <3>1
      <4>2. QED
        BY <2>2, <4>1
    <3>2. CASE m \in commits
      BY <1>2, <3>2 DEF PreparedInv
    <3>3. QED
      BY <2>1, <3>1, <3>2
  <2>5. QED
    BY <1>3, <2>3, <2>4 DEF PreparedInv
<1>6. QED
  BY <1>1, <1>4, <1>5

LEMMA CertificateStep ==
    ASSUME TypeOK, CertificateInv, Next
    PROVE  CertificateInv'
<1>1. /\ \A pc, limit : ValidPC(pc, limit) => ValidPC(pc, limit)'
      /\ roundChanges \subseteq roundChanges'
  BY MessagesGrow, Monotone
<1>2. ASSUME NEW m \in prePrepares' \ prePrepares, NEW rc \in m.certificate
      PROVE  (rc.from \in Correct => rc \in roundChanges) /\ ValidPC(rc.pc, rc.round)
  BY <1>2, WhatIsSent, ValidRoundChangesAreSent
<1>3. QED
  BY <1>1, <1>2 DEF CertificateInv

\* Only roundDone inserts a block, and RunSequence returns with it.
LEMMA InsertedStep ==
    ASSUME TypeOK, LocalInv, InsertedInv, [Next]_vars
    PROVE  InsertedInv'
<1>1. \A r, h : CommitQuorum(r, h) => CommitQuorum(r, h)'
  BY MessagesGrow, Monotone
<1>2. CASE UNCHANGED inserted /\ \A k \in Correct : worker[k] = "returned" => worker'[k] = "returned"
  BY <1>1, <1>2 DEF InsertedInv
<1>3. ASSUME NEW n \in Correct, RoundDone(n) PROVE InsertedInv'
  <2>1. /\ proposal[n] \in Proposal
        /\ proposal[n].round = round[n]
        /\ seals[n] = proposal[n]
        /\ CommitQuorum(round[n], proposal[n])
    BY <1>3 DEF LocalInv, LocalInvAt, AcceptedInvAt, RoundDone, TypeOK
  <2>2. proposal[n] = [value |-> proposal[n].value, round |-> round[n]] /\ proposal[n] # None
    BY <2>1, IBFTAssumption DEF Proposal
  <2>3. /\ inserted' = [inserted EXCEPT ![n] =
              [value |-> proposal[n].value, round |-> round[n], seals |-> proposal[n]]]
        /\ worker' = [worker EXCEPT ![n] = "returned"]
    BY <1>3, <2>1, <2>2 DEF RoundDone
  <2>4. ASSUME NEW k \in Correct, inserted'[k] # None
        PROVE  /\ worker'[k] = "returned"
               /\ inserted'[k].seals = [value |-> inserted'[k].value, round |-> inserted'[k].round]
               /\ CommitQuorum(inserted[k].round, inserted[k].seals)'
    <3>1. CASE k = n
      <4>1. inserted'[n] = [value |-> proposal[n].value, round |-> round[n], seals |-> proposal[n]]
        BY <2>3 DEF TypeOK
      <4>2. CommitQuorum(round[n], proposal[n])'
        BY <1>1, <1>3, <2>1 DEF RoundDone, msgs, state, CommitQuorum, CommitSenders
      <4>3. round' = round /\ proposal' = proposal
        BY <1>3 DEF RoundDone, state
      <4>4. QED
        BY <2>2, <2>3, <3>1, <4>1, <4>2, <4>3 DEF TypeOK
    <3>2. CASE k # n
      <4>1. inserted'[k] = inserted[k] /\ worker'[k] = worker[k]
        BY <2>3, <3>2 DEF TypeOK
      <4>2. commits' = commits
        BY <1>3 DEF RoundDone, msgs
      <4>3. QED
        BY <2>4, <4>1, <4>2 DEF InsertedInv, CommitQuorum, CommitSenders
    <3>3. QED
      BY <3>1, <3>2
  <2>5. QED
    BY <2>4 DEF InsertedInv
<1>4. ASSUME Next, \A n \in Correct : ~RoundDone(n)
      PROVE  UNCHANGED inserted /\ \A k \in Correct : worker[k] = "returned" => worker'[k] = "returned"
  BY <1>4 DEF Next, vars, state, msgs, StartRound, StartRoundAsFirstProposer, StartRoundAsProposer,
       BuildProposal, Propose, RunNewRound, RunPrepare, RunCommit,
       WatchForRoundChangeCertificates, FutureProposal, RoundCertificate, RoundExpired,
       MoveToNewRound, Cancel, TypeOK
<1>5. QED
  BY <1>2, <1>3, <1>4 DEF vars

LEMMA SoundInit == Init => SoundInv
<1> SUFFICES ASSUME Init PROVE SoundInv
  OBVIOUS
<1>1. LocalInv
  BY DEF Init, LocalInv, LocalInvAt, AcceptedInvAt
<1>2. ValidInv /\ PreparedInv /\ CertificateInv /\ InsertedInv
  BY DEF Init, ValidInv, PreparedInv, CertificateInv, InsertedInv
<1>3. QED
  BY <1>1, <1>2, TypeInit DEF SoundInv

LEMMA SoundStep ==
    ASSUME SoundInv, [Next]_vars
    PROVE  SoundInv'
<1> USE DEF SoundInv
<1>1. TypeOK' /\ LocalInv' /\ InsertedInv'
  BY TypeStep, LocalStep, InsertedStep DEF LocalInv, LocalInvAt, AcceptedInv
<1>2. CASE UNCHANGED vars
  <2>1. /\ \A pc : (SoundPC(pc) => SoundPC(pc)') /\ (OwnPC(pc) => OwnPC(pc)')
        /\ \A pc, limit : ValidPC(pc, limit) => ValidPC(pc, limit)'
    BY <1>2, Monotone DEF vars, msgs
  <2>2. ValidInv' /\ PreparedInv' /\ CertificateInv'
    BY <1>2, <2>1 DEF vars, state, msgs, ValidInv, PreparedInv, CertificateInv
  <2>3. QED
    BY <1>1, <2>2
<1>3. CASE Next
  BY <1>1, <1>3, ValidStep, PreparedStep, CertificateStep
<1>4. QED
  BY <1>2, <1>3

\* What holds in every execution, also those in which validators use
\* certificates of rounds they have left.
THEOREM Soundness == Spec => []SoundInv
BY SoundInit, SoundStep, PTL DEF Spec

-----------------------------------------------------------------------------
(* Votes *)

\* The five effects that a step can have on rounds, accepted proposals,
\* certificates and messages, when no validator is sent back.
Quiet ==
    /\ UNCHANGED <<round, proposal, latestPC, msgs>>
    /\ \A n \in Correct : name[n] \in {"commit", "fin"} => name'[n] \in {"commit", "fin"}

Proposes(n) ==
    /\ proposal[n] = None
    /\ n = Proposer[round[n]]
    /\ \E value \in Values, C \in SUBSET RoundChange : Propose(n, value, C)

Prepares(n) ==
    /\ proposal[n] = None
    /\ RunNewRound(n)

Moves(n) ==
    \E r \in Rounds :
        /\ r > round[n]
        /\ \/ /\ MoveToNewRound(n, r, None)
              /\ UNCHANGED <<prePrepares, prepares, commits>>
              /\ \/ roundChanges' = roundChanges
                 \/ roundChanges' = roundChanges \cup
                        {[from |-> n, round |-> r, pc |-> latestPC[n]]}
           \/ \E p \in HandlePrePrepare(n, r) :
                 /\ MoveToNewRound(n, r, p)
                 /\ prepares' = prepares \cup {[from |-> n, round |-> round[n], hash |-> p]}
                 /\ UNCHANGED <<prePrepares, commits, roundChanges>>

LEMMA StepCases ==
    ASSUME TypeOK, LocalInv, RoundCertificateIsHigher, Next
    PROVE  \E n \in Correct :
             Quiet \/ Proposes(n) \/ Prepares(n) \/ RunPrepare(n) \/ Moves(n)
<1> USE RoundsAreNat
<1>1. PICK n \in Correct :
        \/ StartRound(n)
        \/ StartRoundAsFirstProposer(n)
        \/ StartRoundAsProposer(n)
        \/ BuildProposal(n)
        \/ RunNewRound(n)
        \/ RunPrepare(n)
        \/ RunCommit(n)
        \/ WatchForRoundChangeCertificates(n)
        \/ FutureProposal(n)
        \/ RoundCertificate(n)
        \/ RoundExpired(n)
        \/ RoundDone(n)
        \/ Cancel(n)
  BY DEF Next
<1>2. CASE StartRound(n) \/ StartRoundAsProposer(n)
  <2>1. UNCHANGED <<round, proposal, latestPC, msgs>>
    BY <1>2 DEF StartRound, StartRoundAsProposer
  <2>2. \A k \in Correct : name'[k] = name[k]
    BY <1>2 DEF StartRound, StartRoundAsProposer, NewRound, TypeOK, LocalInv, LocalInvAt, AcceptedInvAt
  <2>3. QED
    BY <2>1, <2>2 DEF Quiet
<1>3. CASE RunCommit(n) \/ WatchForRoundChangeCertificates(n) \/ RoundDone(n) \/ Cancel(n)
  BY <1>3 DEF Quiet, RunCommit, WatchForRoundChangeCertificates, RoundDone, Cancel, state, TypeOK
<1>4. CASE StartRoundAsFirstProposer(n)
  <2>1. PICK value \in Values : Propose(n, value, {})
    BY <1>4, IBFTAssumption DEF StartRoundAsFirstProposer
  <2>2. proposal[n] = None /\ n = Proposer[round[n]] /\ round[n] = 0
    BY <1>4 DEF LocalInv, LocalInvAt, StartRoundAsFirstProposer
  <2>3. QED
    BY <2>1, <2>2 DEF Proposes
<1>5. CASE BuildProposal(n)
  <2>1. PICK r \in Rounds : \E C \in RoundChangeCertificates(r) :
            \E value \in ProposableValues(C) : Propose(n, value, C)
    BY <1>5 DEF BuildProposal
  <2>2. PICK C \in RoundChangeCertificates(r) :
            \E value \in ProposableValues(C) : Propose(n, value, C)
    BY <2>1
  <2>3. C \in SUBSET RoundChange /\ \A rc \in C : rc.round = r
    BY ValidRoundChangesAreSent
  <2>4. PICK value \in Values : value \in ProposableValues(C) /\ Propose(n, value, C)
    BY <2>2, <2>3, ProposableType
  <2>5. proposal[n] = None /\ n = Proposer[round[n]]
    BY <1>5 DEF LocalInv, LocalInvAt, AcceptedInvAt, BuildProposal
  <2>6. QED
    BY <2>3, <2>4, <2>5 DEF Proposes
<1>6. CASE RunNewRound(n)
  BY <1>6 DEF LocalInv, LocalInvAt, AcceptedInvAt, RunNewRound, Prepares
<1>7. CASE FutureProposal(n)
  BY <1>7 DEF FutureProposal, Moves
<1>8. CASE RoundCertificate(n)
  <2>1. rcc[n] \in Rounds /\ rcc[n] > round[n]
    BY <1>8 DEF RoundCertificateIsHigher, TypeOK, RoundCertificate
  <2>2. QED
    BY <1>8, <2>1 DEF RoundCertificate, Moves, msgs
<1>9. CASE RoundExpired(n)
  <2>1. round[n] + 1 \in Rounds /\ round[n] + 1 > round[n]
    BY <1>9 DEF TypeOK, Rounds, RoundExpired
  <2>2. QED
    BY <1>9, <2>1 DEF RoundExpired, Moves
<1>10. QED
  BY <1>1, <1>2, <1>3, <1>4, <1>5, <1>6, <1>7, <1>8, <1>9

LEMMA VoteStep ==
    ASSUME TypeOK, LocalInv, ValidInv, VoteInv, VotesOnce, CommitInv, NEW n \in Correct,
           Quiet \/ Proposes(n) \/ Prepares(n) \/ RunPrepare(n) \/ Moves(n)
    PROVE  VoteInv' /\ VotesOnce'
<1> USE RoundsAreNat
<1>a. /\ \A m \in prepares : m.hash # None /\ m.from \in Correct
      /\ \A m \in prePrepares : m.proposal # None /\ m.from \in Correct
  BY IBFTAssumption DEF TypeOK, Vote, PrePrepare, ValidInv
<1>b. /\ \A k \in Correct : round[k] \in Nat
      /\ \A m \in prePrepares : m.round \in Nat
      /\ \A m \in prepares : m.hash.round \in Nat
  BY RoundTypes
<1>1. CASE Quiet
  BY <1>1 DEF Quiet, VoteInv, VotesOnce, msgs
<1>2. CASE Proposes(n)
  <2>1. PICK value \in Values, C \in SUBSET RoundChange : Propose(n, value, C)
    BY <1>2 DEF Proposes
  <2> DEFINE p == [value |-> value, round |-> round[n]]
             new == [from |-> n, round |-> round[n], proposal |-> p, certificate |-> C]
  <2>2. /\ UNCHANGED <<round, prepares, commits>>
        /\ proposal' = [proposal EXCEPT ![n] = p]
        /\ prePrepares' = prePrepares \cup {new}
    BY <2>1 DEF Propose
  <2>3. \A m \in prePrepares : m.round # round[n]
    BY <1>2, <1>a DEF Proposes, VoteInv
  <2>4. \A m \in prepares : m.from = n => m.hash.round # round[n]
    BY <1>2, <1>a DEF Proposes, VoteInv
  <2>5. VotesOnce'
    BY <2>2, <2>3 DEF VotesOnce
  <2>6. \A m \in prepares' :
          /\ m.from # Proposer[m.hash.round]
          /\ m.round <= m.hash.round
          /\ m.hash.round <= round'[m.from]
          /\ m.hash.round = round'[m.from] => proposal'[m.from] = m.hash
    BY <1>a, <2>2, <2>4 DEF VoteInv, TypeOK
  <2>7. \A m \in prePrepares' :
          /\ m.from = Proposer[m.round]
          /\ m.proposal.round = m.round
          /\ m.round <= round'[m.from]
          /\ m.round = round'[m.from] => proposal'[m.from] = m.proposal
    <3> TAKE m \in prePrepares'
    <3>1. CASE m = new
      BY <1>2, <1>b, <2>2, <3>1 DEF Proposes, TypeOK
    <3>2. CASE m \in prePrepares
      <4>1. /\ m.from = Proposer[m.round]
            /\ m.proposal.round = m.round
            /\ m.round <= round[m.from]
            /\ m.round = round[m.from] => proposal[m.from] = m.proposal
        BY <3>2 DEF VoteInv
      <4>2. m.from = n => m.round # round[m.from]
        BY <2>3, <3>2
      <4>3. QED
        BY <1>a, <2>2, <3>2, <4>1, <4>2 DEF TypeOK
    <3>3. QED
      BY <2>2, <3>1, <3>2
  <2>8. QED
    BY <2>5, <2>6, <2>7 DEF VoteInv
<1>3. CASE Prepares(n)
  <2>1. \E p \in HandlePrePrepare(n, round[n]) :
          /\ proposal' = [proposal EXCEPT ![n] = p]
          /\ prepares' = prepares \cup {[from |-> n, round |-> round[n], hash |-> p]}
    BY <1>3 DEF Prepares, RunNewRound
  <2>2. \A r \in Rounds : \A p \in HandlePrePrepare(n, r) :
          p \in Proposal /\ p.round = r /\ p.value \in ValidValues /\ n # Proposer[r]
    BY HandlePrePrepareAll
  <2>3. PICK p \in Proposal :
          /\ p.round = round[n] /\ p.value \in ValidValues /\ n # Proposer[round[n]]
          /\ proposal' = [proposal EXCEPT ![n] = p]
          /\ prepares' = prepares \cup {[from |-> n, round |-> round[n], hash |-> p]}
    <3>1. round[n] \in Rounds
      BY DEF TypeOK
    <3>2. QED
      BY <2>1, <2>2, <3>1
  <2>4. UNCHANGED <<round, prePrepares, commits>>
    BY <1>3 DEF Prepares, RunNewRound
  <2>5. /\ \A m \in prePrepares : m.from = n => m.round # round[n]
        /\ \A m \in prepares : m.from = n => m.hash.round # round[n]
    BY <1>3, <1>a DEF Prepares, VoteInv
  <2>6. VotesOnce'
    BY <2>3, <2>4, <2>5 DEF VotesOnce
  <2>7. VoteInv'
    BY <1>a, <1>b, <2>3, <2>4, <2>5 DEF VoteInv, TypeOK
  <2>8. QED
    BY <2>6, <2>7
<1>4. CASE RunPrepare(n)
  <2>1. /\ UNCHANGED <<round, proposal, prePrepares, prepares>>
        /\ commits' = commits \cup {[from |-> n, round |-> round[n], hash |-> proposal[n]]}
        /\ name[n] = "prepare"
    BY <1>4 DEF RunPrepare
  <2>2. \A m \in commits : m.from = n => m.round # round[n]
    BY <2>1 DEF CommitInv
  <2>3. QED
    BY <2>1, <2>2 DEF VoteInv, VotesOnce
<1>5. CASE Moves(n)
  <2>1. PICK r \in Rounds :
          /\ r > round[n]
          /\ round' = [round EXCEPT ![n] = r]
          /\ UNCHANGED <<prePrepares, commits>>
          /\ \/ \E q \in Proposal \cup {None} :
                    proposal' = [proposal EXCEPT ![n] = q] /\ prepares' = prepares
             \/ \E p \in HandlePrePrepare(n, r) :
                    /\ proposal' = [proposal EXCEPT ![n] = p]
                    /\ prepares' = prepares \cup {[from |-> n, round |-> round[n], hash |-> p]}
    BY <1>5 DEF Moves, MoveToNewRound
  <2>2. \A m \in prepares : m.from = n => m.hash.round < r
    <3> TAKE m \in prepares
    <3>1. m.hash.round \in Nat /\ round[n] \in Nat /\ r \in Nat
      BY <1>b
    <3>2. m.from = n => m.hash.round <= round[n]
      BY DEF VoteInv
    <3>3. QED
      BY <2>1, <3>1, <3>2
  <2>3. \A m \in prePrepares : m.from = n => m.round < r
    <3> TAKE m \in prePrepares
    <3>1. m.round \in Nat /\ round[n] \in Nat /\ r \in Nat
      BY <1>b
    <3>2. m.from = n => m.round <= round[n]
      BY DEF VoteInv
    <3>3. QED
      BY <2>1, <3>1, <3>2
  <2>4. CASE prepares' = prepares
    <3>1. PICK q : proposal' = [proposal EXCEPT ![n] = q]
      BY <2>1, <2>4
    <3>2. VoteInv'
      BY <1>a, <1>b, <2>1, <2>2, <2>3, <2>4, <3>1 DEF VoteInv, TypeOK
    <3>3. VotesOnce'
      BY <2>1, <2>4 DEF VotesOnce
    <3>4. QED
      BY <3>2, <3>3
  <2>5. CASE \E p \in HandlePrePrepare(n, r) :
                    /\ proposal' = [proposal EXCEPT ![n] = p]
                    /\ prepares' = prepares \cup {[from |-> n, round |-> round[n], hash |-> p]}
    <3>1. PICK p \in HandlePrePrepare(n, r) :
                    /\ proposal' = [proposal EXCEPT ![n] = p]
                    /\ prepares' = prepares \cup {[from |-> n, round |-> round[n], hash |-> p]}
      BY <2>5
    <3>2. p \in Proposal /\ p.round = r /\ p.value \in ValidValues /\ n # Proposer[r]
      BY HandlePrePrepareFact
    <3>3. VotesOnce'
      BY <2>1, <2>2, <3>1, <3>2 DEF VotesOnce
    <3>4. VoteInv'
      BY <1>a, <1>b, <2>1, <2>2, <2>3, <3>1, <3>2 DEF VoteInv, TypeOK
    <3>5. QED
      BY <3>3, <3>4
  <2>6. QED
    BY <2>1, <2>4, <2>5
<1>6. QED
  BY <1>1, <1>2, <1>3, <1>4, <1>5

-----------------------------------------------------------------------------
(* Commits, locks and round changes *)

LEMMA CommitStep ==
    ASSUME TypeOK, LocalInv, PreparedInv, CommitInv, NEW n \in Correct,
           Quiet \/ Proposes(n) \/ Prepares(n) \/ RunPrepare(n) \/ Moves(n)
    PROVE  CommitInv'
<1>a. \A m \in commits : m.hash # None
  BY IBFTAssumption DEF TypeOK, Vote
<1>b. /\ \A k \in Correct : round[k] \in Nat
      /\ \A m \in commits : m.round \in Nat
      /\ \A k \in Correct : latestPC[k] # None => latestPC[k].round \in Nat
  BY RoundTypes DEF TypeOK
<1>d. \A m \in commits :
        /\ m.from \in Correct
        /\ m.round <= round[m.from]
        /\ latestPC[m.from] # None
        /\ latestPC[m.from].round >= m.round
        /\ latestPC[m.from].round = m.round => latestPC[m.from].proposal = m.hash
  BY DEF CommitInv, PreparedInv
<1>e. \A k \in Correct : latestPC[k] # None => latestPC[k].round <= round[k]
  BY DEF CommitInv
<1>c. CASE /\ commits' = commits /\ latestPC' = latestPC
           /\ \A k \in Correct : round'[k] \in Nat /\ round'[k] >= round[k]
           /\ \A m \in commits : m.round = round'[m.from] =>
                 name'[m.from] \in {"commit", "fin"} /\ proposal'[m.from] = m.hash
  <2>2. \A k \in Correct : latestPC'[k] # None => latestPC'[k].round <= round'[k]
    BY <1>c, <1>b, <1>e
  <2>3. \A m \in commits' :
          /\ m.round <= round'[m.from]
          /\ latestPC'[m.from] # None
          /\ latestPC'[m.from].round >= m.round
          /\ latestPC'[m.from].round = m.round => latestPC'[m.from].proposal = m.hash
    <3> TAKE m \in commits'
    <3>1. m \in commits
      BY <1>c
    <3>2. round[m.from] \in Nat /\ round'[m.from] \in Nat /\ round'[m.from] >= round[m.from]
      BY <1>b, <1>c, <1>d, <3>1
    <3>3. m.round <= round'[m.from]
      <4>1. m.round \in Nat /\ m.round <= round[m.from]
        BY <1>b, <1>d, <3>1
      <4>2. QED
        BY <3>2, <4>1
    <3>4. QED
      BY <1>c, <1>d, <3>1, <3>3
  <2>4. QED
    BY <1>c, <2>2, <2>3 DEF CommitInv
<1>1. CASE Quiet
  <2>1. \A m \in commits : m.round = round'[m.from] =>
                 name'[m.from] \in {"commit", "fin"} /\ proposal'[m.from] = m.hash
    BY <1>d, <1>1 DEF Quiet, CommitInv
  <2>2. QED
    BY <1>b, <1>c, <1>1, <2>1 DEF Quiet, msgs
<1>2. CASE Proposes(n) \/ Prepares(n)
  <2>1. /\ UNCHANGED <<round, latestPC, commits>>
        /\ \A k \in Correct \ {n} : name'[k] = name[k] /\ proposal'[k] = proposal[k]
    BY <1>2 DEF Proposes, Propose, Prepares, RunNewRound, TypeOK
  <2>2. \A m \in commits : m.round = round[m.from] => m.from # n
    BY <1>2, <1>a DEF CommitInv, Proposes, Prepares
  <2>3. \A m \in commits : m.round = round'[m.from] =>
                 name'[m.from] \in {"commit", "fin"} /\ proposal'[m.from] = m.hash
    BY <1>d, <2>1, <2>2 DEF CommitInv
  <2>4. QED
    BY <1>b, <1>c, <2>1, <2>3
<1>3. CASE RunPrepare(n)
  <2>a. PICK b \in BOOLEAN : latestPC' = [latestPC EXCEPT ![n] =
            [round |-> round[n], proposal |-> proposal[n], alone |-> b]]
    BY <1>3, PreparedIsSound
  <2> DEFINE pc == [round |-> round[n], proposal |-> proposal[n], alone |-> b]
             new == [from |-> n, round |-> round[n], hash |-> proposal[n]]
  <2>1. /\ UNCHANGED <<round, proposal>>
        /\ commits' = commits \cup {new}
        /\ latestPC' = [latestPC EXCEPT ![n] = pc]
        /\ name' = [name EXCEPT ![n] = "commit"]
        /\ name[n] = "prepare"
    BY <1>3, <2>a DEF RunPrepare
  <2>2. pc \in PreparedCertificate
    BY <1>3, PreparedIsSound DEF PreparedCertificate, TypeOK
  <2>3. pc # None
    BY <2>2, IBFTAssumption
  <2>4. /\ latestPC'[n] = pc
        /\ \A k \in Correct \ {n} : latestPC'[k] = latestPC[k] /\ name'[k] = name[k]
        /\ name'[n] = "commit"
    BY <2>1 DEF TypeOK
  <2>6. \A m \in commits : m.from = n => m.round < round[n]
    <3>1. \A m \in commits : m.from = n => m.round # round[n]
      BY <2>1 DEF CommitInv
    <3> TAKE m \in commits
    <3>2. m.round \in Nat /\ round[n] \in Nat
      BY <1>b
    <3>3. m.from = n => m.round <= round[n]
      BY <1>d
    <3>4. QED
      BY <3>1, <3>2, <3>3
  <2>7. \A k \in Correct : latestPC'[k] # None => latestPC'[k].round <= round'[k]
    BY <1>b, <1>e, <2>1, <2>4
  <2> DEFINE P(m) ==
          /\ m.round <= round'[m.from]
          /\ m.round = round'[m.from] =>
                name'[m.from] \in {"commit", "fin"} /\ proposal'[m.from] = m.hash
          /\ latestPC'[m.from] # None
          /\ latestPC'[m.from].round >= m.round
          /\ latestPC'[m.from].round = m.round => latestPC'[m.from].proposal = m.hash
  <2>8. P(new)
    BY <1>b, <2>1, <2>3, <2>4
  <2>9. ASSUME NEW m \in commits PROVE P(m)
    <3>1. CASE m.from = n
      BY <1>b, <1>d, <2>1, <2>3, <2>4, <2>6, <3>1
    <3>2. CASE m.from # n
      BY <1>b, <1>d, <2>1, <2>4, <3>2 DEF CommitInv
    <3>3. QED
      BY <3>1, <3>2
  <2>10. \A m \in commits' : P(m)
    BY <2>1, <2>8, <2>9
  <2>11. QED
    BY <2>7, <2>10 DEF CommitInv
<1>4. CASE Moves(n)
  <2>1. PICK r \in Rounds :
          /\ r > round[n]
          /\ round' = [round EXCEPT ![n] = r]
          /\ \A k \in Correct \ {n} : name'[k] = name[k] /\ proposal'[k] = proposal[k]
          /\ UNCHANGED <<commits, latestPC>>
    BY <1>4 DEF Moves, MoveToNewRound, TypeOK
  <2>0. r \in Nat /\ round'[n] = r /\ \A k \in Correct \ {n} : round'[k] = round[k]
    BY <2>1, RoundsAreNat DEF TypeOK
  <2>2. \A k \in Correct : round'[k] \in Nat /\ round'[k] >= round[k]
    <3> TAKE k \in Correct
    <3> QED
      BY <1>b, <2>0, <2>1
  <2>3. \A m \in commits : m.from = n => m.round # round'[n]
    <3> TAKE m \in commits
    <3>1. m.round \in Nat /\ round[n] \in Nat
      BY <1>b
    <3>2. m.from = n => m.round <= round[n]
      BY <1>d
    <3>3. QED
      BY <2>0, <2>1, <3>1, <3>2
  <2>4. \A m \in commits : m.round = round'[m.from] =>
                 name'[m.from] \in {"commit", "fin"} /\ proposal'[m.from] = m.hash
    BY <1>d, <2>0, <2>1, <2>3 DEF CommitInv
  <2>5. QED
    BY <1>c, <2>1, <2>2, <2>4
<1>5. QED
  BY <1>1, <1>2, <1>3, <1>4

\* Only roundExpired adds a ROUND_CHANGE, for a round above the one it leaves,
\* with the lock of the validator.
LEMMA RoundsGrow ==
    ASSUME TypeOK, NEW n \in Correct,
           Quiet \/ Proposes(n) \/ Prepares(n) \/ RunPrepare(n) \/ Moves(n)
    PROVE  /\ \A k \in Correct : round'[k] >= round[k]
           /\ \A m \in roundChanges' \ roundChanges :
                 /\ m = [from |-> n, round |-> round'[n], pc |-> latestPC[n]]
                 /\ round'[n] > round[n]
                 /\ round'[n] \in Rounds
                 /\ commits' = commits
<1>a. \A k \in Correct : round[k] \in Nat
  BY RoundTypes
<1>1. CASE Quiet \/ Proposes(n) \/ Prepares(n) \/ RunPrepare(n)
  <2>1. UNCHANGED <<round, roundChanges>>
    BY <1>1 DEF Quiet, Proposes, Propose, Prepares, RunNewRound, RunPrepare, msgs
  <2>2. QED
    BY <1>a, <2>1
<1>2. CASE Moves(n)
  <2>1. PICK r \in Rounds :
          /\ r > round[n]
          /\ round' = [round EXCEPT ![n] = r]
          /\ commits' = commits
          /\ \/ roundChanges' = roundChanges
             \/ roundChanges' = roundChanges \cup {[from |-> n, round |-> r, pc |-> latestPC[n]]}
    BY <1>2 DEF Moves, MoveToNewRound
  <2>2. r \in Nat /\ round'[n] = r /\ \A k \in Correct \ {n} : round'[k] = round[k]
    BY <2>1, RoundsAreNat DEF TypeOK
  <2>3. ASSUME NEW k \in Correct PROVE round'[k] >= round[k]
    BY <1>a, <2>1, <2>2
  <2>4. QED
    BY <2>1, <2>2, <2>3
<1>3. QED
  BY <1>1, <1>2

LEMMA RoundChangeStep ==
    ASSUME TypeOK, TypeOK', CommitInv, RoundChangeInv, NEW n \in Correct,
           Quiet \/ Proposes(n) \/ Prepares(n) \/ RunPrepare(n) \/ Moves(n)
    PROVE  RoundChangeInv'
<1> DEFINE P(m) ==
        /\ m.from \in Correct
        /\ m.round <= round'[m.from]
        /\ m.pc # None => m.pc.round < m.round
<1>2. ASSUME NEW m \in roundChanges PROVE P(m)
  <2>1. m.from \in Correct /\ m.round <= round[m.from]
    BY DEF RoundChangeInv
  <2>2. m.round \in Nat /\ round[m.from] \in Nat /\ round'[m.from] \in Nat
    BY <2>1, RoundTypes, RoundsAreNat DEF TypeOK
  <2>3. round'[m.from] >= round[m.from]
    BY <2>1, RoundsGrow
  <2>4. m.round <= round'[m.from]
    BY <2>1, <2>2, <2>3
  <2>5. QED
    BY <2>1, <2>4 DEF RoundChangeInv
<1>3. ASSUME NEW m \in roundChanges' \ roundChanges PROVE P(m)
  <2>1. /\ m = [from |-> n, round |-> round'[n], pc |-> latestPC[n]]
        /\ round'[n] > round[n]
    BY RoundsGrow
  <2>2. round[n] \in Nat /\ round'[n] \in Nat
    BY RoundTypes, RoundsAreNat DEF TypeOK
  <2>3. PICK pc : pc = latestPC[n]
    OBVIOUS
  <2>4. ASSUME pc # None PROVE pc.round < round'[n]
    <3>1. pc.round \in Nat
      BY <2>3, <2>4, RoundTypes DEF TypeOK
    <3>2. pc.round <= round[n]
      BY <2>3, <2>4 DEF CommitInv
    <3>3. QED
      BY <2>1, <2>2, <3>1, <3>2
  <2>5. m.from = n /\ m.round = round'[n] /\ m.pc = pc
    BY <2>1, <2>3
  <2>6. m.round <= round'[m.from]
    BY <2>2, <2>5
  <2>7. QED
    BY <2>4, <2>5, <2>6
<1>4. \A m \in roundChanges' : P(m)
  BY <1>2, <1>3
<1>5. QED
  BY <1>4 DEF RoundChangeInv

\* A ROUND_CHANGE reports what was committed before it, and nothing is committed
\* in an earlier round after it.
LEMMA ReportsStep ==
    ASSUME TypeOK, TypeOK', CommitInv, RoundChangeInv, ReportsLock, NEW n \in Correct,
           Quiet \/ Proposes(n) \/ Prepares(n) \/ RunPrepare(n) \/ Moves(n)
    PROVE  ReportsLock'
<1> DEFINE Reports(m, c) ==
        c.from = m.from /\ c.round < m.round =>
            /\ m.pc # None
            /\ m.pc.round >= c.round
            /\ m.pc.round = c.round => m.pc.proposal = c.hash
<1>1. \A m \in roundChanges, c \in commits : Reports(m, c)
  BY DEF ReportsLock
<1>2. ASSUME NEW m \in roundChanges' \ roundChanges, NEW c \in commits' PROVE Reports(m, c)
  <2>1. m = [from |-> n, round |-> round'[n], pc |-> latestPC[n]] /\ c \in commits
    BY RoundsGrow
  <2>2. QED
    BY <2>1 DEF CommitInv
<1>3. ASSUME NEW m \in roundChanges, NEW c \in commits' \ commits PROVE ~(c.from = m.from /\ c.round < m.round)
  <2>1. c.from = n /\ c.round = round[n]
    BY <1>3 DEF Quiet, Proposes, Propose, Prepares, RunNewRound, RunPrepare, Moves, msgs
  <2>2. m.from \in Correct /\ m.round <= round[m.from]
    BY DEF RoundChangeInv
  <2>3. m.round \in Nat /\ round[m.from] \in Nat /\ round[n] \in Nat
    BY <2>2, RoundTypes
  <2>4. QED
    BY <2>1, <2>2, <2>3
<1>4. \A m \in roundChanges', c \in commits' : Reports(m, c)
  BY <1>1, <1>2, <1>3
<1>5. QED
  BY <1>4 DEF ReportsLock

(* Safe values *)

\* When no proposer prepares on its own, a correct validator has sent a PREPARE
\* for what is prepared.
LEMMA PreparedHasPrepare ==
    ASSUME ProposersNeedOthers, NEW r \in Rounds, NEW hash, PrepareQuorum(r, hash)
    PROVE  \E m \in prepares : m.round = r /\ m.hash = hash
<1>1. PICK S \in SUBSET PrepareSenders(r, hash) : HasPrepareQuorum(Proposer[r], S)
  BY DEF PrepareQuorum, PrepareQuorums
<1>2. CASE S \subseteq Faulty
  <2>1. HasQuorum(S \cup {Proposer[r]})
    BY <1>1 DEF HasPrepareQuorum
  <2>2. HasQuorum(Faulty \cup {Proposer[r]})
    BY <1>2, <2>1, QuorumsGrow DEF HasQuorum, Quorums
  <2>3. QED
    BY <2>2 DEF ProposersNeedOthers
<1>3. CASE ~(S \subseteq Faulty)
  BY <1>1, <1>3 DEF PrepareSenders, Senders
<1>4. QED
  BY <1>2, <1>3

\* A correct validator voted for what is prepared by a PREPARE, that it may have
\* sent in an earlier round than the proposal's.
LEMMA PreparedIsSafe ==
    ASSUME ProposersNeedOthers, TypeOK, VoteInv, SafeInv, NEW r \in Rounds, NEW hash,
           PrepareQuorum(r, hash)
    PROVE  /\ hash.round \in Rounds
           /\ r <= hash.round
           /\ SafeAt(hash.value, hash.round)
<1>1. PICK m \in prepares : m.round = r /\ m.hash = hash
  BY PreparedHasPrepare
<1>2. QED
  BY <1>1, RoundTypes DEF VoteInv, SafeInv

\* The vote of a correct validator for what is prepared in round r.
VotedFor(n, r, hash) ==
    \/ \E m \in prepares : m.from = n /\ m.round = r /\ m.hash = hash
    \/ n = Proposer[r] /\ \E m \in prePrepares : m.round = r /\ m.proposal = hash

LEMMA PreparedTwice ==
    ASSUME NEW r1, NEW h1, ProposalSigned(r1, h1), PrepareQuorum(r1, h1),
           NEW r2, NEW h2, ProposalSigned(r2, h2), PrepareQuorum(r2, h2)
    PROVE  \E n \in Correct : VotedFor(n, r1, h1) /\ VotedFor(n, r2, h2)
<1>1. PICK S1 \in SUBSET PrepareSenders(r1, h1) : HasPrepareQuorum(Proposer[r1], S1)
  BY DEF PrepareQuorum, PrepareQuorums
<1>2. PICK S2 \in SUBSET PrepareSenders(r2, h2) : HasPrepareQuorum(Proposer[r2], S2)
  BY DEF PrepareQuorum, PrepareQuorums
<1>3. PICK n \in Correct : n \in S1 \cup {Proposer[r1]} /\ n \in S2 \cup {Proposer[r2]}
  BY <1>1, <1>2, QuorumsMeet DEF HasPrepareQuorum, HasQuorum
<1>4. n \notin Faulty
  BY DEF Correct
<1>5. VotedFor(n, r1, h1)
  BY <1>1, <1>3, <1>4 DEF VotedFor, PrepareSenders, Senders, ProposalSigned
<1>6. VotedFor(n, r2, h2)
  BY <1>2, <1>3, <1>4 DEF VotedFor, PrepareSenders, Senders, ProposalSigned
<1>7. QED
  BY <1>5, <1>6

\* One proposal of a round is prepared, in whatever rounds the PREPAREs are
\* counted: the quorums share a correct validator, which has voted once.
LEMMA OneProposalPerRound ==
    ASSUME VoteInv, VotesOnce,
           NEW r1, NEW h1, ProposalSigned(r1, h1), PrepareQuorum(r1, h1),
           NEW r2, NEW h2, ProposalSigned(r2, h2), PrepareQuorum(r2, h2),
           h1.round = h2.round
    PROVE  h1 = h2
<1>1. PICK n \in Correct : VotedFor(n, r1, h1) /\ VotedFor(n, r2, h2)
  BY PreparedTwice
<1>2. CASE /\ \E m \in prepares : m.from = n /\ m.hash = h1
           /\ \E m \in prepares : m.from = n /\ m.hash = h2
  BY <1>2 DEF VotesOnce
<1>3. ASSUME NEW m1 \in prePrepares, m1.proposal = h1, NEW m2 \in prePrepares, m2.proposal = h2
      PROVE  h1 = h2
  BY <1>3 DEF VoteInv, VotesOnce
<1>4. ASSUME NEW m1 \in prePrepares, NEW m2 \in prepares, m2.from = Proposer[m1.round]
      PROVE  m1.proposal.round # m2.hash.round
  BY <1>4 DEF VoteInv
<1>5. QED
  BY <1>1, <1>2, <1>3, <1>4 DEF VotedFor

\* validPC accepts what handlePrepare builds, in every later round, unless the
\* proposer is a quorum without a PREPARE.
LEMMA OwnIsUsable ==
    ASSUME ProposersNeedOthers, PreparedInv, RoundChangeInv, TypeOK
    PROVE  OwnCertificatesUsable
<1> SUFFICES ASSUME NEW m \in roundChanges, m.pc # None PROVE ValidPC(m.pc, m.round)
  BY DEF OwnCertificatesUsable, ValidPC
<1> DEFINE leader == Proposer[m.pc.round]
<1>1. m.pc.round < m.round /\ OwnPC(m.pc) /\ m.pc.round \in Rounds
  BY DEF PreparedInv, RoundChangeInv, TypeOK, RoundChange, PreparedCertificate
<1>2. PICK S \in SUBSET PrepareSenders(m.pc.round, m.pc.proposal) :
          HasPrepareQuorum(leader, S)
  BY <1>1 DEF OwnPC, SoundPC, PrepareQuorum, PrepareQuorums
<1>3. ~HasQuorum({leader})
  <2>1. ~HasQuorum(Faulty \cup {leader})
    BY <1>1 DEF ProposersNeedOthers
  <2>2. QED
    BY <2>1, QuorumsGrow DEF HasQuorum, Quorums
<1>4. HasQuorum(S \cup {leader}) /\ leader \notin S
  BY <1>2 DEF HasPrepareQuorum
<1>5. S # {}
  <2>1. {} \cup {leader} = {leader}
    OBVIOUS
  <2>2. QED
    BY <1>3, <1>4, <2>1
<1>6. QED
  BY <1>1, <1>2, <1>3, <1>4, <1>5 DEF ValidPC, OwnPC, SoundPC

\* The certificate of a PREPREPARE that a validator can have received is made
\* of ROUND_CHANGE messages that were sent and that validPC accepts.
LEMMA CertificateIsSent ==
    ASSUME TypeOK, CertificateInv, OwnCertificatesUsable, NEW r \in Rounds,
           NEW m \in PrePreparesOf(r), NEW rc \in m.certificate, rc.round = r
    PROVE  /\ rc \in RoundChange
           /\ rc.from \in Correct => rc \in roundChanges
           /\ ValidPC(rc.pc, r)
<1>1. CASE m \in prePrepares
  BY <1>1 DEF CertificateInv, TypeOK, PrePrepare
<1>2. CASE m \notin prePrepares
  <2>1. rc \in RoundChangesOf(r) \/ rc \in FaultyRoundChanges(r)
    BY <1>2 DEF PrePreparesOf
  <2>2. CASE rc \in RoundChangesOf(r)
    BY <2>2 DEF RoundChangesOf, OwnCertificatesUsable, TypeOK
  <2>3. CASE rc \in FaultyRoundChanges(r)
    <3>1. rc \in ValidRoundChanges(r)
      BY <2>3 DEF ValidRoundChanges
    <3>2. QED
      BY <2>3, <3>1, ValidRoundChangesType DEF FaultyRoundChanges, Correct
  <2>4. QED
    BY <2>1, <2>2, <2>3
<1>3. QED
  BY <1>1, <1>2

\* What a ROUND_CHANGE of round r says of the COMMITs of an earlier round: its
\* sender has left that round, and sent none if the message reports nothing as
\* recent.
LEMMA RoundChangeMeans ==
    ASSUME TypeOK, RoundChangeInv, ReportsLock, NEW rc \in roundChanges,
           NEW q \in Rounds, q < rc.round
    PROVE  /\ rc.from \in Correct
           /\ round[rc.from] > q
           /\ rc.pc = None \/ rc.pc.round < q => WillNotCommit(rc.from, q)
<1>1. rc.from \in Correct /\ rc.round <= round[rc.from]
  BY DEF RoundChangeInv
<1>2. round[rc.from] \in Nat /\ rc.round \in Nat /\ q \in Nat
  BY <1>1, RoundTypes, RoundsAreNat
<1>3. round[rc.from] > q
  BY <1>1, <1>2
<1>4. ASSUME rc.pc = None \/ rc.pc.round < q, NEW c \in commits, c.from = rc.from, c.round = q
      PROVE  FALSE
  <2>1. rc.pc # None /\ rc.pc.round >= q
    BY <1>4 DEF ReportsLock
  <2>2. rc.pc.round \in Nat
    BY <2>1, RoundTypes DEF TypeOK, RoundChange
  <2>3. QED
    BY <1>2, <1>4, <2>1, <2>2
<1>5. QED
  BY <1>1, <1>3, <1>4 DEF WillNotCommit

\* A quorum of ROUND_CHANGE messages of round r that validPC accepts: without a
\* certificate every value is safe in r; otherwise the value of a certificate is
\* if no other certificate is of a round above that of its proposal.
LEMMA CertifiedIsSafe ==
    ASSUME ProposersNeedOthers, TypeOK, PreparedInv, VoteInv, VotesOnce, RoundChangeInv,
           ReportsLock, SafeInv, NEW r \in Rounds, NEW C, HasQuorum(Senders(C)),
           \A rc \in C : /\ rc \in RoundChange
                         /\ rc.round = r
                         /\ rc.from \in Correct => rc \in roundChanges
                         /\ ValidPC(rc.pc, r)
    PROVE  /\ PreparedRounds(C) = {} => \A value : SafeAt(value, r)
           /\ \A pc \in PreparedRounds(C) :
                 (\A other \in PreparedRounds(C) : other.round <= pc.proposal.round)
                     => SafeAt(pc.proposal.value, r)
<1> DEFINE Q == Senders(C) \cap Validators
<1>1. Q \in Quorums
  BY DEF HasQuorum
<1>2. \A k \in Q \cap Correct : \E rc \in C : rc \in roundChanges /\ rc.from = k
  BY DEF Senders
<1>3. ASSUME PreparedRounds(C) = {}, NEW value PROVE SafeAt(value, r)
  <2> SUFFICES ASSUME NEW q \in Rounds, q < r, NEW k \in Q \cap Correct
               PROVE  WillNotCommit(k, q)
    BY <1>1 DEF SafeAt
  <2>1. PICK rc \in C : rc \in roundChanges /\ rc.from = k
    BY <1>2
  <2>2. rc.pc = None
    BY <1>3 DEF PreparedRounds
  <2>3. QED
    BY <2>1, <2>2, RoundChangeMeans
<1>4. ASSUME NEW pc \in PreparedRounds(C),
             \A other \in PreparedRounds(C) : other.round <= pc.proposal.round
      PROVE  SafeAt(pc.proposal.value, r)
  <2> DEFINE p == pc.proposal
  <2>1. pc # None /\ ValidPC(pc, r) /\ pc \in PreparedCertificate
    BY DEF PreparedRounds, RoundChange
  <2>2. /\ pc.round < r
        /\ ProposalSigned(pc.round, p)
        /\ PrepareQuorum(pc.round, p)
        /\ pc.round \in Rounds
        /\ p \in Proposal
    BY <2>1, ValidPCIsPrepared DEF PreparedCertificate
  <2>3. p.round \in Rounds /\ SafeAt(p.value, p.round)
    BY <2>2, PreparedIsSafe
  <2> SUFFICES ASSUME NEW q \in Rounds, q < r
               PROVE  \E Q2 \in Quorums : \A k \in Q2 \cap Correct :
                          Committed(k, q, p.value) \/ WillNotCommit(k, q)
    BY DEF SafeAt
  <2>4. CASE q < p.round
    BY <2>3, <2>4 DEF SafeAt
  <2>5. CASE q > p.round
    <3> SUFFICES ASSUME NEW k \in Q \cap Correct PROVE WillNotCommit(k, q)
      BY <1>1
    <3>1. PICK rc \in C : rc \in roundChanges /\ rc.from = k
      BY <1>2
    <3>2. ASSUME rc.pc # None PROVE rc.pc.round < q
      <4>1. rc.pc.round <= p.round
        BY <1>4, <3>2 DEF PreparedRounds
      <4>2. rc.pc.round \in Nat /\ p.round \in Nat /\ q \in Nat
        BY <2>3, <3>2, RoundTypes, RoundsAreNat DEF RoundChange
      <4>3. QED
        BY <2>5, <4>1, <4>2
    <3>3. QED
      BY <3>1, <3>2, RoundChangeMeans
  <2>6. CASE q = p.round
    <3> SUFFICES ASSUME NEW k \in Q \cap Correct
                 PROVE  Committed(k, q, p.value) \/ WillNotCommit(k, q)
      BY <1>1
    <3>1. PICK rc \in C : rc \in roundChanges /\ rc.from = k
      BY <1>2
    <3>2. round[k] > q
      BY <3>1, RoundChangeMeans
    <3>3. ASSUME NEW c \in commits, c.from = k, c.round = q PROVE Committed(k, q, p.value)
      <4>1. c.hash.round = q /\ ProposalSigned(q, c.hash) /\ PrepareQuorum(q, c.hash)
        BY <3>3 DEF PreparedInv, SoundPC
      <4>2. c.hash = p
        BY <2>2, <2>6, <4>1, OneProposalPerRound
      <4>3. c = [from |-> k, round |-> q, hash |-> [value |-> p.value, round |-> q]]
        BY <2>6, <3>3, <4>2 DEF TypeOK, Vote, Proposal
      <4>4. QED
        BY <4>3 DEF Committed
    <3>4. QED
      BY <3>2, <3>3 DEF WillNotCommit
  <2>7. q \in Nat /\ p.round \in Nat
    BY <2>3, RoundsAreNat
  <2>8. QED
    BY <2>4, <2>5, <2>6, <2>7
<1>5. QED
  BY <1>3, <1>4

\* Every value is safe in round 0.
LEMMA SafeInFirstRound == \A value : SafeAt(value, 0)
BY RoundsAreNat DEF SafeAt

\* What validateProposal accepts is safe: its certificate is a quorum of
\* ROUND_CHANGE messages, and the value is the one of the highest certificate.
LEMMA AcceptedIsSafe ==
    ASSUME ProposersNeedOthers, TypeOK, PreparedInv, CertificateInv, VoteInv, VotesOnce,
           RoundChangeInv, ReportsLock, SafeInv,
           NEW n \in Correct, NEW r \in Rounds, NEW p \in HandlePrePrepare(n, r)
    PROVE  SafeAt(p.value, r)
<1>1. CASE r = 0
  BY <1>1, SafeInFirstRound
<1>2. CASE r > 0
  <2>1. PICK m : m \in PrePreparesOf(r) /\ m.proposal = p /\ ValidateProposal(n, m, r)
    BY HandlePrePrepareFact
  <2> DEFINE C == m.certificate
  <2>2. /\ HasQuorum(Senders(C))
        /\ \A rc \in C : rc.round = r
        /\ MatchesCertificate(p.value, Usable(C, r))
    BY <1>2, <2>1 DEF ValidateProposal
  <2>3. \A rc \in C : /\ rc \in RoundChange
                      /\ rc.round = r
                      /\ rc.from \in Correct => rc \in roundChanges
                      /\ ValidPC(rc.pc, r)
    BY <2>1, <2>2, CertificateIsSent, OwnIsUsable
  <2>a. Usable(C, r) = C
    BY <2>3 DEF Usable
  <2>4. /\ PreparedRounds(C) = {} => SafeAt(p.value, r)
        /\ \A pc \in PreparedRounds(C) :
              (\A other \in PreparedRounds(C) : other.round <= pc.proposal.round)
                  => SafeAt(pc.proposal.value, r)
    <3> HIDE DEF C
    <3> QED
      BY <2>2, <2>3, CertifiedIsSafe
  <2>5. ASSUME NEW pc \in PreparedRounds(C),
               \A other \in PreparedRounds(C) : other.round <= pc.round,
               pc.proposal = [value |-> p.value, round |-> pc.round]
        PROVE  SafeAt(p.value, r)
    <3>1. pc.proposal.round = pc.round /\ pc.proposal.value = p.value
      BY <2>5
    <3>2. QED
      BY <2>4, <2>5, <3>1
  <2>6. QED
    BY <2>2, <2>a, <2>4, <2>5 DEF MatchesCertificate
<1>3. QED
  BY <1>1, <1>2, RoundsAreNat

\* A safe value stays safe: a validator that has left a round sends no COMMIT
\* of it.
LEMMA SafeIsStable ==
    ASSUME TypeOK, TypeOK', NEW n \in Correct, [Next]_vars,
           Quiet \/ Proposes(n) \/ Prepares(n) \/ RunPrepare(n) \/ Moves(n),
           NEW value, NEW r \in Rounds, SafeAt(value, r)
    PROVE  SafeAt(value, r)'
<1>1. ASSUME NEW k \in Correct, NEW q \in Rounds, Committed(k, q, value)
      PROVE  Committed(k, q, value)'
  BY <1>1, MessagesGrow DEF Committed
<1>2. ASSUME NEW k \in Correct, NEW q \in Rounds, WillNotCommit(k, q)
      PROVE  WillNotCommit(k, q)'
  <2>1. round[k] \in Nat /\ round'[k] \in Nat /\ q \in Nat
    BY RoundTypes, RoundsAreNat DEF TypeOK
  <2>2. round'[k] >= round[k]
    BY RoundsGrow
  <2>3. round'[k] > q
    BY <1>2, <2>1, <2>2 DEF WillNotCommit
  <2>4. \A c \in commits' \ commits : c.from = n /\ c.round = round[n]
    BY DEF Quiet, Proposes, Propose, Prepares, RunNewRound, RunPrepare, Moves, msgs
  <2>5. \A c \in commits' \ commits : ~(c.from = k /\ c.round = q)
    BY <1>2, <2>1, <2>4 DEF WillNotCommit
  <2>6. QED
    BY <1>2, <2>3, <2>5 DEF WillNotCommit
<1>3. Quorums' = Quorums /\ Correct' = Correct
  BY DEF Quorums, Correct
<1>4. QED
  BY <1>1, <1>2 DEF SafeAt

LEMMA SafeStep ==
    ASSUME ProposersNeedOthers, TypeOK, TypeOK', PreparedInv, CertificateInv, VoteInv, VotesOnce,
           RoundChangeInv, ReportsLock, SafeInv, NEW n \in Correct, [Next]_vars,
           Quiet \/ Proposes(n) \/ Prepares(n) \/ RunPrepare(n) \/ Moves(n)
    PROVE  SafeInv'
<1>a. \A value : \A r \in Rounds : SafeAt(value, r) => SafeAt(value, r)'
  BY SafeIsStable
<1>b. \A r \in Rounds : \A p \in HandlePrePrepare(n, r) : p.round = r /\ SafeAt(p.value, r)
  BY AcceptedIsSafe, HandlePrePrepareAll
<1>c. round[n] \in Rounds
  BY RoundTypes
<1>1. ASSUME NEW m \in prepares PROVE SafeAt(m.hash.value, m.hash.round)'
  BY <1>a, RoundTypes DEF SafeInv
<1>2. ASSUME NEW m \in prepares' \ prepares PROVE SafeAt(m.hash.value, m.hash.round)'
  <2>1. PICK r \in Rounds : m.hash \in HandlePrePrepare(n, r)
    BY <1>c DEF Quiet, Proposes, Propose, Prepares, RunNewRound, RunPrepare, Moves, msgs
  <2>2. QED
    BY <1>a, <1>b, <2>1
<1>3. QED
  BY <1>1, <1>2 DEF SafeInv

-----------------------------------------------------------------------------
(* The inductive invariant *)

LEMMA InvInit == Init => IInv
<1> SUFFICES ASSUME Init PROVE IInv
  OBVIOUS
<1>1. VoteInv /\ VotesOnce /\ CommitInv /\ RoundChangeInv /\ ReportsLock /\ SafeInv
  BY DEF Init, VoteInv, VotesOnce, CommitInv, RoundChangeInv, ReportsLock, SafeInv
<1>2. QED
  BY <1>1, SoundInit DEF IInv

LEMMA InvStep ==
    ASSUME ProposersNeedOthers, IInv, RoundCertificateIsHigher, [Next]_vars
    PROVE  IInv'
<1> USE DEF IInv, SoundInv
<1>0. SoundInv'
  BY SoundStep
<1>1. CASE UNCHANGED vars
  <2>1. VoteInv' /\ VotesOnce'
    BY <1>1 DEF vars, state, msgs, VoteInv, VotesOnce
  <2>2. CommitInv' /\ RoundChangeInv' /\ ReportsLock'
    BY <1>1 DEF vars, state, msgs, CommitInv, RoundChangeInv, ReportsLock
  <2>3. SafeInv'
    BY <1>1 DEF vars, state, msgs, SafeInv, SafeAt, Committed, WillNotCommit
  <2>4. QED
    BY <1>0, <2>1, <2>2, <2>3
<1>2. CASE Next
  <2>1. PICK n \in Correct : Quiet \/ Proposes(n) \/ Prepares(n) \/ RunPrepare(n) \/ Moves(n)
    BY <1>2, StepCases
  <2>2. VoteInv' /\ VotesOnce'
    BY <2>1, VoteStep
  <2>3. CommitInv'
    BY <2>1, CommitStep
  <2>4. RoundChangeInv' /\ ReportsLock'
    BY <1>0, <2>1, RoundChangeStep, ReportsStep
  <2>5. SafeInv'
    BY <1>0, <2>1, SafeStep
  <2>6. QED
    BY <1>0, <2>2, <2>3, <2>4, <2>5
<1>3. QED
  BY <1>1, <1>2

\* The invariant holds as long as no validator is sent back to a round that it
\* has left, whatever makes that so.
THEOREM TimelyInvariance ==
    ASSUME ProposersNeedOthers
    PROVE  Spec /\ []RoundCertificateIsHigher => []IInv
BY InvInit, InvStep, PTL DEF Spec

\* Every validator's own certificates are usable in a state of the invariant, so
\* that it takes a faulty ROUND_CHANGE to wake a watcher without a certificate.
LEMMA NoUnusableQuorum ==
    ASSUME ProposersNeedOthers, Faulty = {}, IInv, NEW r \in Rounds
    PROVE  ~UnusableQuorum(r)
<1>1. OwnCertificatesUsable
  BY OwnIsUsable DEF IInv, SoundInv
<1>2. ASSUME NEW M \in SUBSET RoundChangesOf(r) PROVE Usable(M, r) = M
  BY <1>1 DEF RoundChangesOf, Usable, OwnCertificatesUsable
<1>3. ASSUME NEW M \in SUBSET RoundChangesOf(r) PROVE Senders(M) \cup Faulty = Senders(M)
  OBVIOUS
<1>4. QED
  BY <1>2, <1>3 DEF UnusableQuorum

LEMMA HigherStep ==
    ASSUME TypeOK, RoundCertificateIsHigher, \A r \in Rounds : ~UnusableQuorum(r), [Next]_vars
    PROVE  RoundCertificateIsHigher'
<1> USE RoundsAreNat
<1>0. CASE UNCHANGED vars
  BY <1>0 DEF vars, state, RoundCertificateIsHigher
<1> SUFFICES ASSUME Next PROVE RoundCertificateIsHigher'
  BY <1>0
<1>1. PICK n \in Correct :
        \/ StartRound(n) \/ StartRoundAsFirstProposer(n) \/ StartRoundAsProposer(n)
        \/ BuildProposal(n) \/ RunNewRound(n) \/ RunPrepare(n) \/ RunCommit(n)
        \/ WatchForRoundChangeCertificates(n) \/ FutureProposal(n) \/ RoundCertificate(n)
        \/ RoundExpired(n) \/ RoundDone(n) \/ Cancel(n)
  BY DEF Next
<1>2. \A k \in Correct : rcc[k] # None => rcc[k] > round[k]
  BY DEF RoundCertificateIsHigher
<1>3. CASE FutureProposal(n) \/ RoundCertificate(n) \/ RoundExpired(n)
  <2>1. PICK r, p : MoveToNewRound(n, r, p)
    BY <1>3 DEF FutureProposal, RoundCertificate, RoundExpired
  <2>2. \A k \in Correct \ {n} : rcc'[k] = rcc[k] /\ round'[k] = round[k]
    BY <2>1 DEF MoveToNewRound, TypeOK
  <2>3. rcc'[n] = None
    BY <2>1 DEF MoveToNewRound, TypeOK
  <2>4. QED
    BY <1>2, <2>2, <2>3 DEF RoundCertificateIsHigher
<1>4. CASE WatchForRoundChangeCertificates(n)
  <2>1. PICK r \in Rounds : r > round[n] /\ rcc' = [rcc EXCEPT ![n] = r]
    BY <1>4 DEF WatchForRoundChangeCertificates
  <2>2. round' = round
    BY <1>4 DEF WatchForRoundChangeCertificates, state
  <2>3. QED
    BY <1>2, <2>1, <2>2 DEF RoundCertificateIsHigher, TypeOK
<1>5. CASE RoundDone(n) \/ Cancel(n)
  BY <1>2, <1>5 DEF RoundDone, Cancel, state, RoundCertificateIsHigher, TypeOK
<1>6. CASE \/ StartRound(n) \/ StartRoundAsFirstProposer(n) \/ StartRoundAsProposer(n)
           \/ BuildProposal(n) \/ RunNewRound(n) \/ RunPrepare(n) \/ RunCommit(n)
  <2>1. UNCHANGED <<round, rcc>>
    BY <1>6 DEF StartRound, StartRoundAsFirstProposer, StartRoundAsProposer, BuildProposal,
         Propose, RunNewRound, RunPrepare, RunCommit
  <2>2. QED
    BY <1>2, <2>1 DEF RoundCertificateIsHigher
<1>7. QED
  BY <1>1, <1>3, <1>4, <1>5, <1>6

\* A COMMIT quorum holds the COMMIT of a correct validator, for a proposal of
\* the round that was prepared in it.
LEMMA CommittedIsPrepared ==
    ASSUME PreparedInv, NEW r \in Rounds, NEW h, CommitQuorum(r, h)
    PROVE  h.round = r /\ ProposalSigned(r, h) /\ PrepareQuorum(r, h)
<1>1. PICK S \in SUBSET CommitSenders(r, h) : S \cap Validators \in Quorums
  BY DEF CommitQuorum, HasQuorum
<1>2. PICK n \in Correct : n \in S
  BY <1>1, QuorumsMeet
<1>3. PICK c \in commits : c.round = r /\ c.hash = h
  BY <1>2 DEF CommitSenders, Senders, Correct
<1>4. QED
  BY <1>3 DEF PreparedInv, SoundPC

LEMMA CommittedIsSafe ==
    ASSUME ProposersNeedOthers, IInv, NEW r \in Rounds, NEW h, CommitQuorum(r, h)
    PROVE  SafeAt(h.value, r)
BY CommittedIsPrepared, PreparedIsSafe DEF IInv, SoundInv

\* Two blocks cannot be finished, in one round or in two.
LEMMA FinishedAgree ==
    ASSUME ProposersNeedOthers, IInv, NEW r1 \in Rounds, NEW r2 \in Rounds, NEW h1, NEW h2,
           r1 <= r2, CommitQuorum(r1, h1), CommitQuorum(r2, h2)
    PROVE  h1.value = h2.value
<1>0. r1 \in Nat /\ r2 \in Nat
  BY RoundsAreNat
<1>1. PICK S1 \in SUBSET CommitSenders(r1, h1) : S1 \cap Validators \in Quorums
  BY DEF CommitQuorum, HasQuorum
<1>2. \A n \in S1 \cap Correct : \E c \in commits : c.from = n /\ c.round = r1 /\ c.hash = h1
  BY DEF CommitSenders, Senders, Correct
<1>3. CASE r1 = r2
  <2>1. PICK S2 \in SUBSET CommitSenders(r2, h2) : S2 \cap Validators \in Quorums
    BY DEF CommitQuorum, HasQuorum
  <2>2. PICK n \in Correct : n \in S1 /\ n \in S2
    BY <1>1, <2>1, QuorumsMeet
  <2>3. \E c \in commits : c.from = n /\ c.round = r2 /\ c.hash = h2
    BY <2>2 DEF CommitSenders, Senders, Correct
  <2>4. QED
    BY <1>2, <1>3, <2>2, <2>3 DEF IInv, VotesOnce
<1>4. CASE r1 < r2
  <2>1. PICK Q \in Quorums : \A n \in Q \cap Correct :
            Committed(n, r1, h2.value) \/ WillNotCommit(n, r1)
    BY <1>4, CommittedIsSafe DEF SafeAt
  <2>2. PICK n \in Correct : n \in S1 /\ n \in Q
    BY <1>1, <2>1, QuorumsMeet
  <2>3. PICK c \in commits : c.from = n /\ c.round = r1 /\ c.hash = h1
    BY <1>2, <2>2
  <2>4. Committed(n, r1, h2.value)
    BY <2>1, <2>2, <2>3 DEF WillNotCommit
  <2>5. h1 = [value |-> h2.value, round |-> r1]
    BY <2>3, <2>4 DEF Committed, IInv, VotesOnce
  <2>6. QED
    BY <2>5
<1>5. QED
  BY <1>0, <1>3, <1>4

LEMMA InsertedIsFinished ==
    ASSUME SoundInv, NEW n \in Correct, inserted[n] # None
    PROVE  /\ inserted[n].round \in Rounds
           /\ inserted[n].seals = [value |-> inserted[n].value, round |-> inserted[n].round]
           /\ CommitQuorum(inserted[n].round, inserted[n].seals)
BY DEF SoundInv, TypeOK, Block, InsertedInv

LEMMA LaterAgreesWithEarlier ==
    ASSUME ProposersNeedOthers, IInv, NEW m \in Correct, NEW n \in Correct,
           inserted[m] # None, inserted[n] # None, inserted[m].round <= inserted[n].round
    PROVE  inserted[m].value = inserted[n].value
<1>0. SoundInv
  BY DEF IInv
<1>1. PICK r1 \in Rounds, h1 \in {inserted[m].seals} :
          /\ CommitQuorum(r1, h1)
          /\ r1 = inserted[m].round
          /\ h1 = [value |-> inserted[m].value, round |-> r1]
  BY <1>0, InsertedIsFinished
<1>2. PICK r2 \in Rounds, h2 \in {inserted[n].seals} :
          /\ CommitQuorum(r2, h2)
          /\ r2 = inserted[n].round
          /\ h2 = [value |-> inserted[n].value, round |-> r2]
  BY <1>0, InsertedIsFinished
<1>3. h1.value = h2.value
  BY <1>1, <1>2, FinishedAgree
<1>4. QED
  BY <1>1, <1>2, <1>3

LEMMA InvAgreement == ProposersNeedOthers /\ IInv => Agreement
<1> SUFFICES ASSUME ProposersNeedOthers, IInv, NEW m \in Correct, NEW n \in Correct,
                    inserted[m] # None, inserted[n] # None
             PROVE  inserted[m].value = inserted[n].value
  BY DEF Agreement
<1>1. inserted[m].round \in Nat /\ inserted[n].round \in Nat
  BY InsertedIsFinished, RoundsAreNat DEF IInv
<1>2. CASE inserted[m].round <= inserted[n].round
  BY <1>2, LaterAgreesWithEarlier
<1>3. CASE inserted[n].round <= inserted[m].round
  BY <1>3, LaterAgreesWithEarlier
<1>4. QED
  BY <1>1, <1>2, <1>3

LEMMA SoundValidity == SoundInv => Validity
<1> SUFFICES ASSUME SoundInv, NEW n \in Correct, inserted[n] # None
             PROVE  inserted[n].value \in ValidValues
  BY DEF Validity
<1>1. PICK r \in Rounds, h \in {inserted[n].seals} :
          CommitQuorum(r, h) /\ h = [value |-> inserted[n].value, round |-> r]
  BY InsertedIsFinished
<1>2. h.value \in ValidValues
  BY <1>1, CommittedIsPrepared, PreparedIsValid DEF SoundInv
<1>3. QED
  BY <1>1, <1>2

LEMMA SoundBlockIsSealed == SoundInv => BlockIsSealed
<1> SUFFICES ASSUME SoundInv, NEW n \in Correct, inserted[n] # None
             PROVE  LET hash == [value |-> inserted[n].value, round |-> inserted[n].round] IN
                    /\ inserted[n].seals = hash
                    /\ \E S \in SUBSET CommitSenders(inserted[n].round, hash) : HasQuorum(S)
  BY DEF BlockIsSealed
<1> QED
  BY InsertedIsFinished DEF CommitQuorum

-----------------------------------------------------------------------------
(* What every execution satisfies, whatever the faulty validators send *)

\* What InsertProposal receives was accepted by IsValidProposal at a correct
\* validator, through however many prepared certificates it travelled.
THEOREM ValidityHolds == Spec => []Validity
BY Soundness, SoundValidity, PTL

\* The seals given to InsertProposal are those of a commit quorum for the block.
THEOREM BlockIsSealedHolds == Spec => []BlockIsSealed
BY Soundness, SoundBlockIsSealed, PTL

-----------------------------------------------------------------------------
(* What they satisfy when no validator is sent back to a round it has left *)

\* Being sent back, and a proposer that prepares on its own, are all that can go
\* wrong: otherwise the validators vote once, report their locks in certificates
\* that validPC accepts, and insert one value, whatever the faulty ones send and
\* whatever old certificates proposers build with.
THEOREM TimelyExecutionsAgree ==
    ASSUME ProposersNeedOthers
    PROVE  Spec /\ []RoundCertificateIsHigher =>
               [](Agreement /\ VotesOnce /\ ReportsLock /\ OwnCertificatesUsable)
<1>1. IInv => Agreement /\ VotesOnce /\ ReportsLock /\ OwnCertificatesUsable
  BY InvAgreement, OwnIsUsable DEF IInv, SoundInv
<1>2. QED
  BY <1>1, TimelyInvariance, PTL

\* When every validator follows the protocol, though it may stop at any step and
\* miss any message, no certificate sends one back, and they agree.
THEOREM CrashesAgree ==
    ASSUME ProposersNeedOthers, Faulty = {}
    PROVE  Spec => [](RoundCertificateIsHigher /\ Agreement /\ VotesOnce /\ ReportsLock)
<1> DEFINE J == IInv /\ RoundCertificateIsHigher
<1>1. Init => J
  BY InvInit DEF Init, RoundCertificateIsHigher
<1>2. J /\ [Next]_vars => J'
  BY InvStep, HigherStep, NoUnusableQuorum DEF IInv, SoundInv
<1>3. J => RoundCertificateIsHigher /\ Agreement /\ VotesOnce /\ ReportsLock
  BY InvAgreement DEF IInv
<1>4. QED
  BY <1>1, <1>2, <1>3, PTL DEF Spec

-----------------------------------------------------------------------------
(* The height implements one decision *)

LEMMA OnlyRoundDoneInserts ==
    ASSUME TypeOK, InsertedInv, [Next]_vars, inserted' # inserted
    PROVE  \E n \in Correct :
              /\ inserted[n] = None
              /\ inserted'[n] # None
              /\ inserted' = [inserted EXCEPT ![n] = inserted'[n]]
<1>1. PICK n \in Correct : RoundDone(n)
  BY DEF Next, vars, state, msgs, StartRound, StartRoundAsFirstProposer, StartRoundAsProposer,
       BuildProposal, Propose, RunNewRound, RunPrepare, RunCommit,
       WatchForRoundChangeCertificates, FutureProposal, RoundCertificate, RoundExpired,
       MoveToNewRound, Cancel
<1>2. inserted[n] = None
  BY <1>1 DEF RoundDone, InsertedInv
<1>3. PICK block : /\ block \in Block
                   /\ inserted' = [inserted EXCEPT ![n] = block]
  BY <1>1 DEF RoundDone, TypeOK, Block, Proposal
<1>4. inserted'[n] = block /\ block # None
  BY <1>3, IBFTAssumption DEF TypeOK
<1>5. QED
  BY <1>2, <1>3, <1>4

Decided == [n \in Correct |-> IF inserted[n] = None THEN None ELSE inserted[n].value]

LEMMA DecisionStep ==
    ASSUME ProposersNeedOthers, IInv, IInv', [Next]_vars
    PROVE  [AbstractConsensus!Next]_Decided
<1>1. CASE inserted' = inserted
  BY <1>1 DEF Decided
<1>2. CASE inserted' # inserted
  <2>1. PICK n \in Correct : /\ inserted[n] = None
                             /\ inserted'[n] # None
                             /\ inserted' = [inserted EXCEPT ![n] = inserted'[n]]
    BY <1>2, OnlyRoundDoneInserts DEF IInv, SoundInv
  <2>2. Agreement' /\ Validity'
    BY InvAgreement, SoundValidity, PTL DEF IInv
  <2>3. PICK value \in ValidValues : value = inserted'[n].value
    BY <2>1, <2>2 DEF Validity
  <2>4. \A k \in Correct \ {n} : inserted'[k] = inserted[k]
    BY <2>1 DEF IInv, SoundInv, TypeOK
  <2>5. \A k \in Correct : Decided[k] \in {None, value}
    BY <2>1, <2>2, <2>3, <2>4 DEF Agreement, Decided
  <2>6. Decided' = [Decided EXCEPT ![n] = value]
    BY <2>1, <2>3, <2>4 DEF Decided
  <2>7. AbstractConsensus!Decide(n, value)
    BY <2>1, <2>5, <2>6 DEF AbstractConsensus!Decide, Decided
  <2>8. QED
    BY <2>7 DEF AbstractConsensus!Next
<1>3. QED
  BY <1>1, <1>2

\* The blocks given to the backends are the steps of a single decision: each
\* validator decides once, a valid value, and the value of the others.
THEOREM TimelyRefinement ==
    ASSUME ProposersNeedOthers
    PROVE  Spec /\ []RoundCertificateIsHigher => ImplementsConsensus
<1>1. Init => AbstractConsensus!Init
  BY DEF Init, AbstractConsensus!Init
<1>2. IInv /\ IInv' /\ [Next]_vars => [AbstractConsensus!Next]_Decided
  BY DecisionStep
<1>3. QED
  BY <1>1, <1>2, TimelyInvariance, PTL
  DEF Spec, ImplementsConsensus, AbstractConsensus!Spec, Decided

-----------------------------------------------------------------------------
(* Every validator keeps to the steps of Validator *)

\* What a move to a round is in Validator.
LEMMA MoveIsStep ==
    ASSUME TypeOK, NEW n \in Correct, NEW r \in Rounds, NEW p \in Proposal \cup {None},
           MoveToNewRound(n, r, p)
    PROVE  /\ p = None => ValidatorOf(n)!MoveToNewRound(r, FALSE)
           /\ p # None => ValidatorOf(n)!MoveToNewRound(r, TRUE)
<1>1. /\ round'[n] = r /\ proposal'[n] = p
      /\ roundStarted'[n] = (p # None)
      /\ name'[n] = IF p = None THEN "newRound" ELSE "prepare"
      /\ worker'[n] = "startRound" /\ rcc'[n] = None
      /\ worker[n] \in {"waitForRCC", "runStates"}
  BY DEF MoveToNewRound, TypeOK, WorkerStates
<1>2. QED
  BY <1>1 DEF ValidatorOf!MoveToNewRound, ValidatorOf!InRound

\* What the acceptance of a proposal is.
LEMMA ProposeIsStep ==
    ASSUME TypeOK, NEW n \in Correct, NEW value \in Values, NEW C, Propose(n, value, C)
    PROVE  ValidatorOf(n)!AcceptProposal
<1>1. [value |-> value, round |-> round[n]] \in Proposal
  BY DEF TypeOK, Proposal
<1>2. proposal'[n] # None /\ name'[n] = "prepare" /\ worker'[n] = "runStates"
      /\ round' = round /\ rcc' = rcc
  BY <1>1, IBFTAssumption DEF Propose, TypeOK
<1>3. QED
  BY <1>2 DEF ValidatorOf!AcceptProposal, ValidatorOf!view

\* A step of n is one of Validator.
LEMMA OwnStep ==
    ASSUME TypeOK, LocalInv, NEW n \in Correct,
           \/ StartRound(n) \/ StartRoundAsFirstProposer(n) \/ StartRoundAsProposer(n)
           \/ BuildProposal(n) \/ RunNewRound(n) \/ RunPrepare(n) \/ RunCommit(n)
           \/ WatchForRoundChangeCertificates(n) \/ FutureProposal(n) \/ RoundCertificate(n)
           \/ RoundExpired(n) \/ RoundDone(n) \/ Cancel(n)
    PROVE  ValidatorOf(n)!Next
<1> DEFINE ours == {r \in Rounds : Proposer[r] = n}
<1>0. round[n] \in Rounds /\ round[n] \in Nat /\ LocalInvAt(n)
  BY RoundTypes DEF LocalInv
<1>1. CASE StartRound(n)
  <2>1. ValidatorOf(n)!StartRound
    BY <1>0, <1>1 DEF StartRound, NewRound, TypeOK, ValidatorOf!StartRound, ValidatorOf!NewRound,
         ValidatorOf!view
  <2>2. QED
    BY <2>1 DEF ValidatorOf!Next
<1>2. CASE StartRoundAsFirstProposer(n)
  <2>1. PICK value \in ValidValues : Propose(n, value, {})
    BY <1>2 DEF StartRoundAsFirstProposer
  <2>2. ValidatorOf(n)!AcceptProposal
    BY <2>1, ProposeIsStep, IBFTAssumption
  <2>3. roundStarted'[n] = TRUE
    BY <1>2 DEF StartRoundAsFirstProposer, TypeOK
  <2>4. ValidatorOf(n)!StartRoundAsFirstProposer
    BY <1>2, <2>2, <2>3, RoundsAreNat
    DEF StartRoundAsFirstProposer, ValidatorOf!StartRoundAsFirstProposer
  <2>5. QED
    BY <2>4 DEF ValidatorOf!Next
<1>3. CASE StartRoundAsProposer(n)
  <2>1. ValidatorOf(n)!StartRound
    BY <1>0, <1>3 DEF StartRoundAsProposer, NewRound, TypeOK, ValidatorOf!StartRound,
         ValidatorOf!NewRound, ValidatorOf!view
  <2>2. QED
    BY <2>1 DEF ValidatorOf!Next
<1>4. CASE BuildProposal(n)
  <2>a. PICK r \in Rounds \ {0} : \E C \in RoundChangeCertificates(r) :
           \E value \in ProposableValues(C) : Propose(n, value, C)
    BY <1>4 DEF BuildProposal
  <2>1. PICK C \in RoundChangeCertificates(r) :
           \E value \in ProposableValues(C) : Propose(n, value, C)
    BY <2>a
  <2>2. PICK value \in ProposableValues(C) : Propose(n, value, C)
    BY <2>1
  <2>3. C \in SUBSET RoundChange
    BY <2>1, ValidRoundChangesType DEF RoundChangeCertificates
  <2>4. value \in Values
    BY <2>2, <2>3, ProposableType
  <2>5. ValidatorOf(n)!AcceptProposal
    BY <2>2, <2>4, ProposeIsStep
  <2>6. ValidatorOf(n)!BuildProposal
    BY <1>4, <2>5 DEF BuildProposal, ValidatorOf!BuildProposal
  <2>7. QED
    BY <2>6 DEF ValidatorOf!Next
<1>5. CASE RunNewRound(n)
  <2>1. PICK p \in HandlePrePrepare(n, round[n]) : proposal' = [proposal EXCEPT ![n] = p]
    BY <1>5 DEF RunNewRound
  <2>2. p \in Proposal
    BY <1>0, <2>1, HandlePrePrepareAll
  <2>3. proposal'[n] # None
    BY <2>1, <2>2, IBFTAssumption DEF TypeOK
  <2>4. ValidatorOf(n)!RunNewRound
    BY <1>5, <2>3 DEF RunNewRound, TypeOK, ValidatorOf!RunNewRound, ValidatorOf!AcceptProposal,
         ValidatorOf!view
  <2>5. QED
    BY <2>4 DEF ValidatorOf!Next
<1>6. CASE RunPrepare(n)
  <2>1. ValidatorOf(n)!RunVotes("prepare", "commit")
    BY <1>6 DEF RunPrepare, TypeOK, ValidatorOf!RunVotes, ValidatorOf!view
  <2>2. QED
    BY <2>1 DEF ValidatorOf!Next
<1>7. CASE RunCommit(n)
  <2>1. ValidatorOf(n)!RunVotes("commit", "fin")
    BY <1>7 DEF RunCommit, TypeOK, ValidatorOf!RunVotes, ValidatorOf!view
  <2>2. QED
    BY <2>1 DEF ValidatorOf!Next
<1>8. CASE WatchForRoundChangeCertificates(n)
  <2>1. PICK r \in Rounds \ {0} : /\ r = round[n] => proposal[n] = None
                                  /\ rcc' = [rcc EXCEPT ![n] = r]
    BY <1>8 DEF WatchForRoundChangeCertificates
  <2>2. r > 0
    BY DEF Rounds
  <2>3. ValidatorOf(n)!WatchForRoundChangeCertificates(r)
    BY <1>8, <2>1, <2>2 DEF WatchForRoundChangeCertificates, TypeOK, WorkerStates, state,
         ValidatorOf!WatchForRoundChangeCertificates, ValidatorOf!view
  <2>4. QED
    BY <2>3 DEF ValidatorOf!Next
<1>9. CASE FutureProposal(n)
  <2>a. PICK r \in Rounds : /\ r > round[n]
                            /\ \E p \in HandlePrePrepare(n, r) : MoveToNewRound(n, r, p)
    BY <1>9 DEF FutureProposal
  <2>1. PICK p \in HandlePrePrepare(n, r) : r > round[n] /\ MoveToNewRound(n, r, p)
    BY <2>a
  <2>2. p \in Proposal /\ n # Proposer[r] /\ p # None
    BY <2>1, HandlePrePrepareAll, IBFTAssumption
  <2>3. ValidatorOf(n)!MoveToNewRound(r, TRUE)
    BY <2>1, <2>2, MoveIsStep
  <2>4. ValidatorOf(n)!FutureProposal(r)
    BY <2>1, <2>2, <2>3 DEF ValidatorOf!FutureProposal
  <2>5. QED
    BY <2>4 DEF ValidatorOf!Next
<1>10. CASE RoundCertificate(n)
  <2>1. rcc[n] \in Rounds /\ rcc[n] # None /\ MoveToNewRound(n, rcc[n], None)
    BY <1>10 DEF RoundCertificate, TypeOK
  <2>2. ValidatorOf(n)!RoundCertificate
    BY <2>1, MoveIsStep DEF ValidatorOf!RoundCertificate
  <2>3. QED
    BY <2>2 DEF ValidatorOf!Next
<1>11. CASE RoundExpired(n)
  <2>1. round[n] + 1 \in Rounds /\ MoveToNewRound(n, round[n] + 1, None)
    BY <1>0, <1>11, RoundsAreNat DEF RoundExpired, Rounds
  <2>2. ValidatorOf(n)!RoundExpired
    BY <2>1, MoveIsStep DEF ValidatorOf!RoundExpired
  <2>3. QED
    BY <2>2 DEF ValidatorOf!Next
<1>12. CASE RoundDone(n)
  <2>1. proposal[n] # None
    BY <1>0, <1>12 DEF RoundDone, LocalInvAt, AcceptedInvAt
  <2>2. ValidatorOf(n)!RoundDone
    BY <1>12, <2>1 DEF RoundDone, TypeOK, state, ValidatorOf!RoundDone, ValidatorOf!Returns,
         ValidatorOf!view
  <2>3. QED
    BY <2>2 DEF ValidatorOf!Next
<1>13. CASE Cancel(n)
  <2>1. ValidatorOf(n)!Cancel
    BY <1>13 DEF Cancel, TypeOK, WorkerStates, state, ValidatorOf!Cancel, ValidatorOf!InRound,
         ValidatorOf!Returns, ValidatorOf!view
  <2>2. QED
    BY <2>1 DEF ValidatorOf!Next
<1>14. QED
  BY <1>1, <1>2, <1>3, <1>4, <1>5, <1>6, <1>7, <1>8, <1>9, <1>10, <1>11, <1>12, <1>13

\* A step of n is no step of another validator.
LEMMA OthersKeep ==
    ASSUME TypeOK, NEW n \in Correct, NEW k \in Correct, k # n,
           \/ StartRound(n) \/ StartRoundAsFirstProposer(n) \/ StartRoundAsProposer(n)
           \/ BuildProposal(n) \/ RunNewRound(n) \/ RunPrepare(n) \/ RunCommit(n)
           \/ WatchForRoundChangeCertificates(n) \/ FutureProposal(n) \/ RoundCertificate(n)
           \/ RoundExpired(n) \/ RoundDone(n) \/ Cancel(n)
    PROVE  UNCHANGED ValidatorOf(k)!vars
<1>1. CASE FutureProposal(n) \/ RoundCertificate(n) \/ RoundExpired(n)
  <2>1. PICK r, p : MoveToNewRound(n, r, p)
    BY <1>1 DEF FutureProposal, RoundCertificate, RoundExpired
  <2>2. QED
    BY <2>1 DEF MoveToNewRound, TypeOK, ValidatorOf!vars
<1>2. CASE BuildProposal(n) \/ StartRoundAsFirstProposer(n)
  <2>1. PICK value, C : Propose(n, value, C)
    BY <1>2 DEF BuildProposal, StartRoundAsFirstProposer
  <2>2. roundStarted'[k] = roundStarted[k]
    BY <1>2 DEF BuildProposal, StartRoundAsFirstProposer, TypeOK
  <2>3. QED
    BY <2>1, <2>2 DEF Propose, TypeOK, ValidatorOf!vars
<1>3. CASE StartRound(n) \/ StartRoundAsProposer(n)
  BY <1>3 DEF StartRound, StartRoundAsProposer, NewRound, TypeOK, ValidatorOf!vars
<1>4. CASE RunNewRound(n)
  BY <1>4 DEF RunNewRound, TypeOK, ValidatorOf!vars
<1>5. CASE RunPrepare(n) \/ RunCommit(n)
  BY <1>5 DEF RunPrepare, RunCommit, TypeOK, ValidatorOf!vars
<1>6. CASE WatchForRoundChangeCertificates(n)
  BY <1>6 DEF WatchForRoundChangeCertificates, TypeOK, state, ValidatorOf!vars
<1>7. CASE RoundDone(n) \/ Cancel(n)
  BY <1>7 DEF RoundDone, Cancel, TypeOK, state, ValidatorOf!vars
<1>8. QED
  BY <1>1, <1>2, <1>3, <1>4, <1>5, <1>6, <1>7

\* The validators keep to the steps of Validator, which RunSequence implements
\* with its goroutines and channels.
THEOREM ValidatorsStepHolds == Spec => ValidatorsStep
<1> DEFINE Steps == \A n \in Correct : [ValidatorOf(n)!Next]_(ValidatorOf(n)!vars)
<1>1. Init => \A n \in Correct : ValidatorOf(n)!Init
  BY DEF Init, ValidatorOf!Init
<1>2. ASSUME SoundInv, [Next]_vars PROVE [Steps]_vars
  <2>1. CASE UNCHANGED vars
    BY <2>1
  <2>2. CASE Next
    <3>1. TypeOK /\ LocalInv
      BY <1>2 DEF SoundInv
    <3>2. PICK k \in Correct :
             \/ StartRound(k) \/ StartRoundAsFirstProposer(k) \/ StartRoundAsProposer(k)
             \/ BuildProposal(k) \/ RunNewRound(k) \/ RunPrepare(k) \/ RunCommit(k)
             \/ WatchForRoundChangeCertificates(k) \/ FutureProposal(k) \/ RoundCertificate(k)
             \/ RoundExpired(k) \/ RoundDone(k) \/ Cancel(k)
      BY <2>2 DEF Next
    <3>3. ValidatorOf(k)!Next
      BY <3>1, <3>2, OwnStep
    <3>4. ASSUME NEW n \in Correct, n # k PROVE UNCHANGED ValidatorOf(n)!vars
      BY <3>1, <3>2, <3>4, OthersKeep
    <3>5. QED
      BY <3>3, <3>4
  <2>3. QED
    BY <1>2, <2>1, <2>2
<1>3. QED
  BY <1>1, <1>2, Soundness, PTL DEF Spec, ValidatorsStep
=============================================================================
