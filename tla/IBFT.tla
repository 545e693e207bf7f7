-------------------------------- MODULE IBFT --------------------------------
(***************************************************************************)
(* The consensus protocol of core/ibft.go for one height: every correct    *)
(* validator is a RunSequence call and the startRound worker it spawns for *)
(* each round; the validators exchange PREPREPARE, PREPARE, COMMIT and     *)
(* ROUND_CHANGE messages.                                                  *)
(*                                                                         *)
(* Network.  Multicast adds a message to a set that only grows, and a      *)
(* handler may use any part of what was sent, so delay, loss, reordering   *)
(* and duplication are the choice of the handlers not to use a message.    *)
(* A message of round r stays usable: isAcceptableMessage only refuses it  *)
(* once the receiver is past r, and the handlers read the view they are    *)
(* in.                                                                     *)
(*                                                                         *)
(* Faulty validators may have sent anything their own signature covers.    *)
(* Their messages are not stored: the operators that say which messages    *)
(* are available include them.                                             *)
(*                                                                         *)
(* Hashes.  A Proposal (raw proposal and round) stands for its hash and    *)
(* for itself: IsValidProposalHash(p, h) is p = h.                         *)
(***************************************************************************)
EXTENDS VotingPower

CONSTANTS
    Faulty,                 \* validators that need not follow the protocol
    Proposer,               \* backend.IsProposer for this height: the proposer of each round
    Values,                 \* raw proposals
    ValidValues,            \* those that backend.IsValidProposal accepts
    MaxRound,               \* bound: the timer of this round never expires
    Cancellable,            \* correct validators whose caller may cancel the context
    None

Correct == Validators \ Faulty

Rounds == 0 .. MaxRound

\* proto.Proposal, and its hash
Proposal == [value : Values, round : Rounds]

\* A PreparedCertificate: the round of its PREPREPARE and the proposal hash
\* that its messages carry.  The proposal that a ROUND_CHANGE carries beside
\* it is this one (finalizePrepare sets both; proposalMatchesCertificate).
\* alone: it has no PREPARE, because the proposer is a quorum without any.
PreparedCertificate == [round : Rounds, proposal : Proposal, alone : BOOLEAN]

RoundChange ==
    [from : Validators, round : Rounds, pc : PreparedCertificate \cup {None}]

\* The certificate is the set of ROUND_CHANGE messages, {} for a nil one.
PrePrepare ==
    [from : Validators, round : Rounds, proposal : Proposal,
     certificate : SUBSET RoundChange]

\* A PREPARE or a COMMIT: its view and the proposal hash it votes for.
Vote == [from : Validators, round : Rounds, hash : Proposal]

StateNames == {"newRound", "prepare", "commit", "fin"}

\* Where the startRound worker of the validator is; "returned" once
\* RunSequence itself has returned.
WorkerStates == {"startRound", "waitForRCC", "runStates", "returned"}

\* What backend.InsertProposal receives: the raw proposal, the round, and the
\* proposal hash that every committed seal signs, as state.go holds them.
Block == [value : Values \cup {None}, round : Rounds, seals : Proposal \cup {None}]

ASSUME IBFTAssumption ==
    /\ Faulty \subseteq Validators
    /\ MaxRound \in Nat
    /\ Proposer \in [Rounds -> Validators]
    /\ ValidValues \subseteq Values
    /\ Cancellable \subseteq Correct
    /\ None \notin Proposal \cup PreparedCertificate \cup Rounds \cup Block

\* The fault tolerance of IBFT, in voting power: what the faulty validators
\* have is at most a third of the total.
ASSUME FaultyAssumption == 3 * PowerOf(Faulty) <= TotalPower

VARIABLES
    \* The state struct of each correct validator
    round,          \* state.view.Round
    name,           \* state.name
    roundStarted,   \* state.roundStarted
    proposal,       \* state.proposalMessage: the accepted proposal, or None
    latestPC,       \* state.latestPC and latestPreparedProposal, or None
    seals,          \* state.seals: the proposal hash they sign, or None
    \* Its goroutines
    worker,         \* the startRound worker
    rcc,            \* the round blocked in signalNewRCC, or None
    \* Its backend
    inserted,       \* the block given to InsertProposal, or None
    \* Messages multicast by the correct validators
    prePrepares,
    prepares,
    commits,
    roundChanges

state == <<round, name, roundStarted, proposal, latestPC, seals>>
msgs == <<prePrepares, prepares, commits, roundChanges>>
vars == <<state, worker, rcc, inserted, msgs>>

TypeOK ==
    /\ round \in [Correct -> Rounds]
    /\ name \in [Correct -> StateNames]
    /\ roundStarted \in [Correct -> BOOLEAN]
    /\ proposal \in [Correct -> Proposal \cup {None}]
    /\ latestPC \in [Correct -> PreparedCertificate \cup {None}]
    /\ seals \in [Correct -> Proposal \cup {None}]
    /\ worker \in [Correct -> WorkerStates]
    /\ rcc \in [Correct -> Rounds \cup {None}]
    /\ inserted \in [Correct -> Block \cup {None}]
    /\ prePrepares \subseteq PrePrepare
    /\ prepares \subseteq Vote
    /\ commits \subseteq Vote
    /\ roundChanges \subseteq RoundChange

Init ==
    /\ round = [n \in Correct |-> 0]
    /\ name = [n \in Correct |-> "newRound"]
    /\ roundStarted = [n \in Correct |-> FALSE]
    /\ proposal = [n \in Correct |-> None]
    /\ latestPC = [n \in Correct |-> None]
    /\ seals = [n \in Correct |-> None]
    /\ worker = [n \in Correct |-> "startRound"]
    /\ rcc = [n \in Correct |-> None]
    /\ inserted = [n \in Correct |-> None]
    /\ prePrepares = {}
    /\ prepares = {}
    /\ commits = {}
    /\ roundChanges = {}

-----------------------------------------------------------------------------
(* Messages that are available, and their validation *)

Senders(messages) == {m.from : m \in messages}

PrepareSenders(r, hash) ==
    Senders({m \in prepares : m.round = r /\ m.hash = hash}) \cup Faulty

CommitSenders(r, hash) ==
    Senders({m \in commits : m.round = r /\ m.hash = hash}) \cup Faulty

BugPrepareQuorums(r, hash) ==
    {S \in SUBSET (Senders({m \in prepares : m.round = r}) \cup Faulty) :
        HasPrepareQuorum(Proposer[r], S)}

\* PREPAREs of view r with this hash, among those received, that are enough for
\* handlePrepare.
PrepareQuorums(r, hash) ==
    {S \in SUBSET PrepareSenders(r, hash) : HasPrepareQuorum(Proposer[r], S)}

PrepareQuorum(r, hash) == PrepareQuorums(r, hash) # {}

BugCommitQuorum(r, hash) ==
    {S \in SUBSET CommitSenders(r, hash) : HasPrepareQuorum(Proposer[r], S)} # {}

CommitQuorum(r, hash) == {S \in SUBSET CommitSenders(r, hash) : HasQuorum(S)} # {}

\* The proposer of round r has signed a PREPREPARE of view r with this hash.
ProposalSigned(r, hash) ==
    \/ Proposer[r] \in Faulty
    \/ \E m \in prePrepares : m.round = r /\ m.proposal = hash

\* validPC: a PREPREPARE of the proposer and PREPAREs of others, of one round
\* below the limit and with one hash, together from a quorum.  An empty list of
\* PREPAREs arrives as one that is not set, and that is refused.
ValidPC(pc, limit) ==
    \/ pc = None
    \/ /\ pc.round < limit
       /\ ~pc.alone
       /\ ProposalSigned(pc.round, pc.proposal)
       /\ \E S \in SUBSET (PrepareSenders(pc.round, pc.proposal) \ {Proposer[pc.round]}) :
             S # {} /\ HasQuorum(S \cup {Proposer[pc.round]})

RoundChangesOf(r) == {m \in roundChanges : m.round = r}

Usable(messages, r) == {m \in messages : ValidPC(m.pc, r)}

FaultyRoundChanges(r) ==
    [from : Faulty, round : {r},
     pc : {pc \in PreparedCertificate \cup {None} : ValidPC(pc, r)}]

\* The ROUND_CHANGE messages of view r that pass isValidMsgFn
ValidRoundChanges(r) == Usable(RoundChangesOf(r), r) \cup FaultyRoundChanges(r)

ValidQuorum(r) == {S \in SUBSET Senders(ValidRoundChanges(r)) : HasQuorum(S)} # {}

UniqueSenders(messages) ==
    \A m1, m2 \in messages : m1.from = m2.from => m1 = m2

\* The certificates that can be made of valid messages of view r.
RoundChangeCertificates(r) ==
    {C \in SUBSET ValidRoundChanges(r) : UniqueSenders(C) /\ HasQuorum(Senders(C))}

\* AddMessage signals a ROUND_CHANGE event for view r on a quorum of stored
\* messages, before any of them is validated.  GetExtendedRCC then filters out
\* those that validPC refuses: what faulty senders made so, and a correct
\* message whose certificate nobody accepts.
UnusableQuorum(r) ==
    \E M \in SUBSET RoundChangesOf(r) :
        /\ UniqueSenders(M)
        /\ HasQuorum(Senders(M) \cup Faulty)
        /\ ~HasQuorum(Senders(Usable(M, r)))

PreparedRounds(C) == {m.pc : m \in C} \ {None}

BugMatchesCertificate(value, C) ==
    \/ PreparedRounds(C) = {}
    \/ \E pc \in PreparedRounds(C) : pc.proposal = [value |-> value, round |-> pc.round]

\* The last part of validateProposal: the value is the one of the certificate
\* with the highest view round, if there is one.
MatchesCertificate(value, C) ==
    \/ PreparedRounds(C) = {}
    \/ \E pc \in PreparedRounds(C) :
          /\ \A other \in PreparedRounds(C) : other.round <= pc.round
          /\ pc.proposal = [value |-> value, round |-> pc.round]

BugValidateProposal(n, m, r) ==
    /\ m.proposal.round = r
    /\ m.from = Proposer[r]
    /\ m.proposal.value \in ValidValues
    /\ n # Proposer[r]

BugValidateProposalValue(n, m, r) ==
    /\ m.proposal.round = r
    /\ m.from = Proposer[r]
    /\ n # Proposer[r]
    /\ r > 0 => MatchesCertificate(m.proposal.value, Usable(m.certificate, r))

\* validateProposal0 and validateProposal at validator n for its view round r.
\* A ROUND_CHANGE whose certificate validPC refuses counts as one without a
\* certificate.
ValidateProposal(n, m, r) ==
    /\ m.proposal.round = r
    /\ m.from = Proposer[r]
    /\ m.proposal.value \in ValidValues
    /\ n # Proposer[r]
    /\ r > 0 => /\ UniqueSenders(m.certificate)
                /\ HasQuorum(Senders(m.certificate))
                /\ \A rc \in m.certificate : rc.round = r
                /\ MatchesCertificate(m.proposal.value, Usable(m.certificate, r))

\* PREPREPARE messages of view r that validators can have received.  A faulty
\* proposer may certify its proposal with any ROUND_CHANGE messages of the round
\* (those of other rounds are refused, and a faulty one with a certificate that
\* is refused counts for what one without a certificate does).
PrePreparesOf(r) ==
    {m \in prePrepares : m.round = r} \cup
    IF Proposer[r] \in Faulty
    THEN [from : {Proposer[r]}, round : {r}, proposal : Proposal,
          certificate : SUBSET (RoundChangesOf(r) \cup FaultyRoundChanges(r))]
    ELSE {}

\* handlePrePrepare: the proposals it can return at n for view r
HandlePrePrepare(n, r) ==
    {m.proposal : m \in {m \in PrePreparesOf(r) : ValidateProposal(n, m, r)}}

-----------------------------------------------------------------------------
(* The startRound worker of validator n *)

BugNewRound(n) ==
    /\ roundStarted' = [roundStarted EXCEPT ![n] = TRUE]
    /\ name' = [name EXCEPT ![n] = "newRound"]

\* state.newRound
NewRound(n) ==
    /\ roundStarted' = [roundStarted EXCEPT ![n] = TRUE]
    /\ name' = [name EXCEPT ![n] = IF roundStarted[n] THEN @ ELSE "newRound"]

StartRound(n) ==
    /\ worker[n] = "startRound"
    /\ n # Proposer[round[n]]
    /\ NewRound(n)
    /\ worker' = [worker EXCEPT ![n] = "runStates"]
    /\ UNCHANGED <<round, proposal, latestPC, seals, rcc, inserted, msgs>>

\* acceptProposal and sendPreprepareMessage, with a message for the view of n
Propose(n, value, C) ==
    LET p == [value |-> value, round |-> round[n]] IN
    /\ proposal' = [proposal EXCEPT ![n] = p]
    /\ name' = [name EXCEPT ![n] = "prepare"]
    /\ prePrepares' = prePrepares \cup
          {[from |-> n, round |-> round[n], proposal |-> p, certificate |-> C]}
    /\ worker' = [worker EXCEPT ![n] = "runStates"]
    /\ UNCHANGED <<round, latestPC, seals, rcc, inserted, prepares, commits, roundChanges>>

\* The proposer of round 0 builds its proposal without a certificate.
StartRoundAsFirstProposer(n) ==
    /\ worker[n] = "startRound"
    /\ round[n] = 0
    /\ n = Proposer[0]
    /\ roundStarted' = [roundStarted EXCEPT ![n] = TRUE]
    /\ \E value \in ValidValues : Propose(n, value, {})

\* The proposer of a later round has to wait for a certificate.
StartRoundAsProposer(n) ==
    /\ worker[n] = "startRound"
    /\ round[n] > 0
    /\ n = Proposer[round[n]]
    /\ NewRound(n)
    /\ worker' = [worker EXCEPT ![n] = "waitForRCC"]
    /\ UNCHANGED <<round, proposal, latestPC, seals, rcc, inserted, msgs>>

Reporting(C) == {m \in C : m.pc # None}

\* buildProposal looks at the round of the Proposal inside the PREPREPARE of a
\* certificate, and nothing compares that one with the view or the hash of the
\* message.  A faulty sender and a faulty proposer make it what they like.
FreePayload(m) == m.from \in Faulty /\ Proposer[m.pc.round] \in Faulty

BugProposableValues(C) ==
    IF Reporting(C) = {} THEN {None} ELSE {m.pc.proposal.value : m \in Reporting(C)}

BugFreshValues(C) == ValidValues

\* buildProposal: the prepared proposal of the certificate whose Proposal has
\* the highest round, or a new one.
ProposableValues(C) ==
    IF Reporting(C) = {} THEN ValidValues
    ELSE {m.pc.proposal.value : m \in {m \in Reporting(C) :
            \/ FreePayload(m)
            \/ \A other \in Reporting(C) :
                  FreePayload(other) \/ other.pc.proposal.round <= m.pc.proposal.round}}

\* waitForRCC is woken by a quorum for the view of n, and takes the highest
\* round of the store for which GetExtendedRCC finds a quorum.
BuildProposal(n) ==
    /\ worker[n] = "waitForRCC"
    /\ \E r \in Rounds \ {0} :
          /\ \/ r >= round[n] /\ ValidQuorum(round[n])
             \/ UnusableQuorum(round[n])
          /\ \E C \in RoundChangeCertificates(r) :
                \E value \in ProposableValues(C) : Propose(n, value, C)
    /\ UNCHANGED roundStarted

\* runNewRound
RunNewRound(n) ==
    /\ worker[n] = "runStates"
    /\ name[n] = "newRound"
    /\ \E p \in HandlePrePrepare(n, round[n]) :
          /\ proposal' = [proposal EXCEPT ![n] = p]
          /\ prepares' = prepares \cup {[from |-> n, round |-> round[n], hash |-> p]}
    /\ name' = [name EXCEPT ![n] = "prepare"]
    /\ UNCHANGED <<round, roundStarted, latestPC, seals, worker, rcc, inserted,
                   prePrepares, commits, roundChanges>>

\* runPrepare and handlePrepare: PREPAREs of the view of n with the hash of its
\* proposal.
RunPrepare(n) ==
    /\ worker[n] = "runStates"
    /\ name[n] = "prepare"
    /\ \E S \in PrepareQuorums(round[n], proposal[n]) :
          latestPC' = [latestPC EXCEPT ![n] =
              [round |-> round[n], proposal |-> proposal[n], alone |-> S = {}]]
    /\ commits' = commits \cup {[from |-> n, round |-> round[n], hash |-> proposal[n]]}
    /\ name' = [name EXCEPT ![n] = "commit"]
    /\ UNCHANGED <<round, roundStarted, proposal, seals, worker, rcc, inserted,
                   prePrepares, prepares, roundChanges>>

\* runCommit and handleCommit
RunCommit(n) ==
    /\ worker[n] = "runStates"
    /\ name[n] = "commit"
    /\ CommitQuorum(round[n], proposal[n])
    /\ seals' = [seals EXCEPT ![n] = proposal[n]]
    /\ name' = [name EXCEPT ![n] = "fin"]
    /\ UNCHANGED <<round, roundStarted, proposal, latestPC, worker, rcc, inserted, msgs>>

-----------------------------------------------------------------------------
(* The watcher for round change certificates of validator n *)

\* watchForRoundChangeCertificates: woken by a quorum for a round above its
\* own, it takes the highest round of the store with a quorum, and blocks in
\* signalNewRCC.  The accepted proposal is read here, the signal is received
\* later, and the goroutine signals once per round.
WatchForRoundChangeCertificates(n) ==
    /\ worker[n] # "returned"
    /\ rcc[n] = None
    /\ \E r \in Rounds \ {0} :
          /\ ValidQuorum(r)
          /\ r = round[n] => proposal[n] = None
          /\ \/ r > round[n]
             \/ \E event \in Rounds : event > round[n] /\ UnusableQuorum(event)
          /\ rcc' = [rcc EXCEPT ![n] = r]
    /\ UNCHANGED <<state, worker, inserted, msgs>>

-----------------------------------------------------------------------------
(* The select of RunSequence at validator n.  Each case first waits for the *)
(* worker (teardown), and startRound runs state.newRound before it looks at *)
(* its context: no case completes while the worker is at "startRound".      *)

BugMoveToNewRound(n, r, accepted) ==
    /\ worker[n] \notin {"startRound", "returned"}
    /\ round' = [round EXCEPT ![n] = r]
    /\ proposal' = [proposal EXCEPT ![n] = accepted]
    /\ roundStarted' = [roundStarted EXCEPT ![n] = TRUE]
    /\ worker' = [worker EXCEPT ![n] = "startRound"]
    /\ rcc' = [rcc EXCEPT ![n] = None]
    /\ UNCHANGED <<name, latestPC, seals, inserted>>

\* moveToNewRound, and the next iteration of the loop
MoveToNewRound(n, r, accepted) ==
    /\ worker[n] \notin {"startRound", "returned"}
    /\ round' = [round EXCEPT ![n] = r]
    /\ proposal' = [proposal EXCEPT ![n] = accepted]
    /\ roundStarted' = [roundStarted EXCEPT ![n] = accepted # None]
    /\ name' = [name EXCEPT ![n] = IF accepted = None THEN "newRound" ELSE "prepare"]
    /\ worker' = [worker EXCEPT ![n] = "startRound"]
    /\ rcc' = [rcc EXCEPT ![n] = None]
    /\ UNCHANGED <<latestPC, seals, inserted>>

\* newProposal: watchForFutureProposal found a valid PREPREPARE of a higher
\* round; the PREPARE is sent for the view of the round that was left.
FutureProposal(n) ==
    \E r \in Rounds :
        /\ r > round[n]
        /\ \E p \in HandlePrePrepare(n, r) :
              /\ MoveToNewRound(n, r, p)
              /\ prepares' = prepares \cup {[from |-> n, round |-> round[n], hash |-> p]}
        /\ UNCHANGED <<prePrepares, commits, roundChanges>>

\* roundCertificate
RoundCertificate(n) ==
    /\ rcc[n] # None
    /\ MoveToNewRound(n, rcc[n], None)
    /\ UNCHANGED msgs

BugRoundExpired(n) ==
    /\ round[n] < MaxRound
    /\ MoveToNewRound(n, round[n] + 1, None)
    /\ roundChanges' = roundChanges \cup
          {[from |-> n, round |-> round[n] + 1,
            pc |-> IF name[n] = "commit" THEN latestPC[n] ELSE None]}
    /\ UNCHANGED <<prePrepares, prepares, commits>>

\* roundExpired
RoundExpired(n) ==
    /\ round[n] < MaxRound
    /\ MoveToNewRound(n, round[n] + 1, None)
    /\ roundChanges' = roundChanges \cup
          {[from |-> n, round |-> round[n] + 1, pc |-> latestPC[n]]}
    /\ UNCHANGED <<prePrepares, prepares, commits>>

\* roundDone: insertBlock with the raw data of the accepted proposal
RoundDone(n) ==
    /\ worker[n] = "runStates"
    /\ name[n] = "fin"
    /\ inserted' = [inserted EXCEPT ![n] =
          [value |-> IF proposal[n] = None THEN None ELSE proposal[n].value,
           round |-> round[n], seals |-> seals[n]]]
    /\ worker' = [worker EXCEPT ![n] = "returned"]
    /\ rcc' = [rcc EXCEPT ![n] = None]
    /\ UNCHANGED <<state, msgs>>

\* ctxRound.Done, when the caller's context is cancelled
Cancel(n) ==
    /\ n \in Cancellable
    /\ worker[n] \notin {"startRound", "returned"}
    /\ worker' = [worker EXCEPT ![n] = "returned"]
    /\ rcc' = [rcc EXCEPT ![n] = None]
    /\ UNCHANGED <<state, inserted, msgs>>

Next ==
    \E n \in Correct :
        \/ StartRound(n)
        \/ StartRoundAsFirstProposer(n)
        \/ StartRoundAsProposer(n)
        \/ BuildProposal(n)
        \/ RunNewRound(n)
        \/ RunPrepare(n)
        \/ RunCommit(n)
        \/ WatchForRoundChangeCertificates(n)
        \/ FutureProposal(n)
        \/ RoundCertificate(n)
        \/ RoundExpired(n)
        \/ RoundDone(n)
        \/ Cancel(n)

Spec == Init /\ [][Next]_vars

-----------------------------------------------------------------------------
(* Properties *)

AbstractConsensus ==
    INSTANCE Consensus WITH
        Nodes <- Correct,
        Valid <- ValidValues,
        Nil <- None,
        decided <- [n \in Correct |-> IF inserted[n] = None THEN None ELSE inserted[n].value]

ValidatorOf(n) ==
    INSTANCE Validator WITH
        Heights <- {0}, height <- 0,
        ProposerRounds <- {r \in Rounds : Proposer[r] = n},
        round <- round[n], name <- name[n], roundStarted <- roundStarted[n],
        accepted <- proposal[n] # None, worker <- worker[n], rcc <- rcc[n]

\* No two correct validators insert different raw proposals for the height,
\* in whatever rounds they finish it.
Agreement ==
    \A m, n \in Correct :
        inserted[m] # None /\ inserted[n] # None => inserted[m].value = inserted[n].value

\* Every inserted value passed IsValidProposal, also when it reached the round
\* that finished through the prepared certificates of earlier rounds.
Validity ==
    \A n \in Correct : inserted[n] # None => inserted[n].value \in ValidValues

\* A block goes to the backend with seals that a quorum has sent as COMMITs of
\* the round and value it is inserted with, although moveToNewRound does not
\* clear the seals of an earlier round.
BlockIsSealed ==
    \A n \in Correct : inserted[n] # None =>
        LET hash == [value |-> inserted[n].value, round |-> inserted[n].round] IN
        /\ inserted[n].seals = hash
        /\ \E S \in SUBSET CommitSenders(inserted[n].round, hash) : HasQuorum(S)

\* A correct validator votes for at most one proposal of a round: one PREPARE,
\* in whatever view it is sent, one COMMIT, and one PREPREPARE.
VotesOnce ==
    /\ \A m1, m2 \in prepares :
          m1.from = m2.from /\ m1.hash.round = m2.hash.round => m1.hash = m2.hash
    /\ \A m1, m2 \in commits :
          m1.from = m2.from /\ m1.round = m2.round => m1.hash = m2.hash
    /\ \A m1, m2 \in prePrepares : m1.round = m2.round => m1 = m2

\* A ROUND_CHANGE reports a certificate at least as recent as every COMMIT its
\* sender sent in earlier rounds: a vote that may have finished a block is
\* never forgotten when the round is given up, in whatever state it expired.
ReportsLock ==
    \A m \in roundChanges : \A c \in commits :
        c.from = m.from /\ c.round < m.round =>
            /\ m.pc # None
            /\ m.pc.round >= c.round
            /\ m.pc.round = c.round => m.pc.proposal = c.hash

\* The certificate that handlePrepare builds from the PREPAREs it received is
\* one that validPC accepts at every other validator: a correct ROUND_CHANGE
\* is never filtered out of a round change certificate.
OwnCertificatesUsable ==
    \A m \in roundChanges : ValidPC(m.pc, m.round)

\* A certificate that is signalled to RunSequence is for a round above the one
\* that the validator is in: "we received a valid RCC for a higher round".
RoundCertificateIsHigher ==
    \A n \in Correct : rcc[n] # None => rcc[n] > round[n]

\* A PREPARE is sent for the view in which its proposal was accepted.
PrepareViewMatchesProposal ==
    \A m \in prepares : m.round = m.hash.round

\* The PREPREPARE that a correct proposer builds is one that every other
\* correct validator accepts in that round.
OwnProposalsAcceptable ==
    \A m \in prePrepares : \A n \in Correct \ {m.from} : ValidateProposal(n, m, m.round)

\* The height implements one decision: no backend is given a second block, a
\* different block than another, or one that is not valid.
ImplementsConsensus == AbstractConsensus!Spec

\* Whatever messages make them do, the validators keep to the steps of Validator:
\* rounds only go up but for a certificate, a proposal is accepted once in a round
\* and kept through a jump, and a block is inserted of an accepted proposal.
ValidatorsStep ==
    /\ \A n \in Correct : ValidatorOf(n)!Init
    /\ [][\A n \in Correct : [ValidatorOf(n)!Next]_(ValidatorOf(n)!vars)]_vars
=============================================================================
