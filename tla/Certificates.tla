---------------------------- MODULE Certificates ----------------------------
(***************************************************************************)
(* One call of handleRoundChangeMessage over the ROUND_CHANGE messages     *)
(* that the store holds for the height, and, when a proposer made it in    *)
(* waitForRCC, the proposal that buildProposal makes of the certificate    *)
(* and validateProposal of another validator judges.  Go visits a map in   *)
(* any order, and so do the loops here.                                    *)
(*                                                                         *)
(* IBFT has the results of these functions as set definitions; here they   *)
(* look at one message after the other.  A Proposal stands for its hash:   *)
(* IsValidProposalHash(p, h) is p = h.  None is a field that is not set.   *)
(***************************************************************************)
EXTENDS VotingPower, Integers, Sequences

CONSTANTS
    Proposer,       \* backend.IsProposer for the height: the proposer of each round
    MaxRound,       \* bound: the last round
    Values,         \* raw proposals that backend.IsValidProposal accepts
    Heights,
    Height,         \* the height of the call
    Addresses,      \* senders, not all of them validators
    None,
    Inputs          \* bound: the calls

Rounds == 0 .. MaxRound

Proposal == [value : Values, round : Rounds]

Types == {"PREPREPARE", "PREPARE", "COMMIT", "ROUND_CHANGE"}

\* A message of a prepared certificate.  proposalRound is the round of the
\* Proposal in the payload of a PREPREPARE, None if the payload has no Proposal.
IbftMessage ==
    [type : Types, height : Heights, round : Rounds, from : Addresses,
     hash : Proposal \cup {None}, proposalRound : Rounds \cup {None}]

PreparedCertificate ==
    [proposalMessage : IbftMessage \cup {None}, prepareMessages : Seq(IbftMessage)]

\* A ROUND_CHANGE of the height, with its lastPreparedProposal and its
\* latestPreparedCertificate.
RoundChange ==
    [from : Validators, round : Rounds, proposal : Proposal \cup {None},
     pc : PreparedCertificate \cup {None}]

\* The store, the round of the view, whether a proposal is accepted, and the caller.
Input ==
    [messages : SUBSET RoundChange, round : Rounds, hasAcceptedProposal : BOOLEAN,
     caller : {"waitForRCC", "watchForRoundChangeCertificates"}]

-----------------------------------------------------------------------------
(* Validation of a prepared certificate *)

SendersOf(messages) == {m.from : m \in messages}

AllMessages(pc) == <<pc.proposalMessage>> \o pc.prepareMessages

MessagesIn(s) == {s[i] : i \in DOMAIN s}

HasUniqueSenders(s) == \A i, j \in DOMAIN s : s[i].from = s[j].from => i = j

\* AreValidPCMessages.  A message without a hash leaves the reference unset: it
\* is only compared with those before it.
AreValidPCMessages(s, limit) ==
    /\ \A i \in DOMAIN s :
          /\ s[i].height = Height
          /\ s[i].round = s[1].round /\ s[i].round < limit
          /\ s[i].type \in {"PREPREPARE", "PREPARE"}
          /\ \A j \in 1 .. i : s[j].hash # None => s[i].hash = s[j].hash
    /\ HasUniqueSenders(s)

BugValidPC(pc, limit) ==
    \/ pc = None
    \/ /\ pc.proposalMessage # None /\ pc.prepareMessages # <<>>
       /\ HasQuorum(SendersOf(MessagesIn(AllMessages(pc))))
       /\ pc.proposalMessage.type = "PREPREPARE"
       /\ \A m \in MessagesIn(pc.prepareMessages) : m.type = "PREPARE"
       /\ AreValidPCMessages(AllMessages(pc), limit)
       /\ pc.proposalMessage.from \in Validators
       /\ \A m \in MessagesIn(pc.prepareMessages) : m.from \in Validators

\* validPC.  A list of PREPAREs without an element arrives as one that is not set.
ValidPC(pc, limit) ==
    \/ pc = None
    \/ /\ pc.proposalMessage # None /\ pc.prepareMessages # <<>>
       /\ HasQuorum(SendersOf(MessagesIn(AllMessages(pc))))
       /\ pc.proposalMessage.type = "PREPREPARE"
       /\ \A m \in MessagesIn(pc.prepareMessages) : m.type = "PREPARE"
       /\ AreValidPCMessages(AllMessages(pc), limit)
       /\ pc.proposalMessage.from = Proposer[pc.proposalMessage.round]
       /\ pc.proposalMessage.from \in Validators
       /\ \A m \in MessagesIn(pc.prepareMessages) :
             m.from \in Validators /\ m.from # Proposer[m.round]

ProposalMatchesCertificate(proposal, pc) ==
    \/ proposal = None /\ pc = None
    \/ /\ pc # None
       /\ \A m \in MessagesIn(AllMessages(pc)) : m.hash # None /\ m.hash = proposal

\* isValidMsgFn
IsValidMsg(m) ==
    ValidPC(m.pc, m.round) /\ ProposalMatchesCertificate(m.proposal, m.pc)

-----------------------------------------------------------------------------

ASSUME CertificatesAssumption ==
    /\ MaxRound \in Nat
    /\ Height \in Heights /\ Validators \subseteq Addresses
    /\ Proposer \in [Rounds -> Validators]
    /\ None \notin Proposal \cup PreparedCertificate \cup IbftMessage \cup Values \cup Rounds

\* The calls: of a proposer without a proposal, or of the watcher.  The messages
\* have type, view and sender as their key in the store.
ASSUME InputsAssumption ==
    \A input \in Inputs :
        /\ input \in Input
        /\ \A m, n \in input.messages : m.round = n.round /\ m.from = n.from => m = n
        /\ input.caller = "waitForRCC" => ~input.hasAcceptedProposal /\ input.round > 0

VARIABLES
    input,
    step,               \* which loop it is in
    rounds, rest,       \* the rounds, then the messages, that the loop has not visited
    highestRound, extendedRCC,      \* of GetExtendedRCC; {} is nil
    previousProposal, maxRound,     \* of buildProposal
    accepted            \* what validateProposal returned

vars == <<input, step, rounds, rest, highestRound, extendedRCC, previousProposal, maxRound,
          accepted>>

RoundChangesOf(r) == {m \in input.messages : m.round = r}

ValidRoundChanges(r) == {m \in RoundChangesOf(r) : IsValidMsg(m)}

\* isValidRCCFn
IsValidRCC(r, messages) ==
    /\ ~(r = input.round /\ input.hasAcceptedProposal)
    /\ HasQuorum(SendersOf(messages))

Init ==
    /\ input \in Inputs
    /\ step = "GetExtendedRCC"
    /\ rounds = {m.round : m \in input.messages} /\ rest = {}
    /\ highestRound = 0 /\ extendedRCC = {}
    /\ previousProposal = None /\ maxRound = 0
    /\ accepted = FALSE

BugVisitRound(r) ==
    /\ step = "GetExtendedRCC" /\ r \in rounds
    /\ rounds' = rounds \ {r}
    /\ IF r > 0 /\ IsValidRCC(r, ValidRoundChanges(r))
       THEN highestRound' = r /\ extendedRCC' = ValidRoundChanges(r)
       ELSE UNCHANGED <<highestRound, extendedRCC>>
    /\ UNCHANGED <<input, step, rest, previousProposal, maxRound, accepted>>

VisitRound(r) ==
    /\ step = "GetExtendedRCC" /\ r \in rounds
    /\ rounds' = rounds \ {r}
    /\ IF r > highestRound /\ IsValidRCC(r, ValidRoundChanges(r))
       THEN highestRound' = r /\ extendedRCC' = ValidRoundChanges(r)
       ELSE UNCHANGED <<highestRound, extendedRCC>>
    /\ UNCHANGED <<input, step, rest, previousProposal, maxRound, accepted>>

\* handleRoundChangeMessage returns; waitForRCC waits on without a certificate.
Collected ==
    /\ step = "GetExtendedRCC" /\ rounds = {}
    /\ step' = IF input.caller = "waitForRCC" /\ extendedRCC # {} THEN "buildProposal" ELSE "done"
    /\ rest' = IF step' = "buildProposal" THEN extendedRCC ELSE {}
    /\ UNCHANGED <<input, rounds, highestRound, extendedRCC, previousProposal, maxRound, accepted>>

\* ExtractProposal finds what the loop reads: the round of the Proposal.
HasProposal(m) == m.pc # None => m.pc.proposalMessage.proposalRound # None

BugTakePrevious(m) ==
    /\ step = "buildProposal" /\ m \in rest /\ HasProposal(m)
    /\ rest' = rest \ {m}
    /\ IF m.pc # None /\ m.proposal # None
       THEN /\ previousProposal' = m.proposal.value
            /\ maxRound' = m.pc.proposalMessage.proposalRound
       ELSE UNCHANGED <<previousProposal, maxRound>>
    /\ UNCHANGED <<input, step, rounds, highestRound, extendedRCC, accepted>>

BugTakeProposal(m) ==
    /\ step = "buildProposal" /\ m \in rest /\ HasProposal(m)
    /\ rest' = rest \ {m}
    /\ IF /\ m.pc # None /\ m.proposal # None
          /\ previousProposal = None \/ m.pc.proposalMessage.proposalRound > maxRound
       THEN /\ previousProposal' = m.proposal
            /\ maxRound' = m.pc.proposalMessage.proposalRound
       ELSE UNCHANGED <<previousProposal, maxRound>>
    /\ UNCHANGED <<input, step, rounds, highestRound, extendedRCC, accepted>>

\* The loop of buildProposal over the certificate
TakePrevious(m) ==
    /\ step = "buildProposal" /\ m \in rest /\ HasProposal(m)
    /\ rest' = rest \ {m}
    /\ IF /\ m.pc # None /\ m.proposal # None
          /\ previousProposal = None \/ m.pc.proposalMessage.proposalRound > maxRound
       THEN /\ previousProposal' = m.proposal.value
            /\ maxRound' = m.pc.proposalMessage.proposalRound
       ELSE UNCHANGED <<previousProposal, maxRound>>
    /\ UNCHANGED <<input, step, rounds, highestRound, extendedRCC, accepted>>

\* The loop reads the round of a Proposal that is nil, before anything else of the
\* message.
PanicOnPrevious(m) ==
    /\ step = "buildProposal" /\ m \in rest /\ ~HasProposal(m)
    /\ step' = "panicked"
    /\ UNCHANGED <<input, rounds, rest, highestRound, extendedRCC, previousProposal, maxRound,
                   accepted>>

\* The last part of validateProposal: the highest round among the valid
\* certificates, the last one visited if there are several.
MatchesCertificates(value) ==
    LET prepared == {m \in extendedRCC : m.pc # None /\ ValidPC(m.pc, input.round)}
    IN  \/ prepared = {} /\ accepted' = TRUE
        \/ \E m \in prepared :
              /\ \A n \in prepared : n.pc.proposalMessage.round <= m.pc.proposalMessage.round
              /\ accepted' = (m.pc.proposalMessage.hash =
                                 [value |-> value, round |-> m.pc.proposalMessage.round])

\* buildProposal with the previous proposal or a new one, for the round of the
\* view, and validateProposal of another validator in that round.
Propose ==
    /\ step = "buildProposal" /\ rest = {}
    /\ step' = "done"
    /\ \E value \in IF previousProposal = None THEN Values ELSE {previousProposal} :
          IF /\ extendedRCC # {} /\ HasQuorum(SendersOf(extendedRCC))
             /\ \A m, n \in extendedRCC : m.from = n.from => m = n
             /\ \A m \in extendedRCC : m.round = input.round
          THEN MatchesCertificates(value)
          ELSE accepted' = FALSE
    /\ UNCHANGED <<input, rounds, rest, highestRound, extendedRCC, previousProposal, maxRound>>

Next ==
    \/ \E r \in Rounds : VisitRound(r)
    \/ Collected
    \/ \E m \in RoundChangesOf(highestRound) : TakePrevious(m) \/ PanicOnPrevious(m)
    \/ Propose

Spec == Init /\ [][Next]_vars

-----------------------------------------------------------------------------
(* Properties *)

TypeOK ==
    /\ input \in Inputs
    /\ step \in {"GetExtendedRCC", "buildProposal", "done", "panicked"}
    /\ rounds \subseteq Rounds /\ rest \subseteq input.messages
    /\ highestRound \in Rounds
    /\ extendedRCC \subseteq input.messages
    /\ previousProposal \in Values \cup {None}
    /\ maxRound \in Rounds
    /\ accepted \in BOOLEAN

\* The rounds that have a certificate for this call
CertifiedRounds == {r \in Rounds \ {0} : IsValidRCC(r, ValidRoundChanges(r))}

\* In whatever order the map is visited, the certificate is the one of the highest
\* round that has one.
HighestCertificate ==
    step # "GetExtendedRCC" =>
        IF CertifiedRounds = {} THEN extendedRCC = {}
        ELSE /\ highestRound \in CertifiedRounds
             /\ \A r \in CertifiedRounds : r <= highestRound
             /\ extendedRCC = ValidRoundChanges(highestRound)

\* pc is what the protocol means by a certificate for the proposal: the
\* PREPREPARE of its proposer and PREPAREs of others for it, in one earlier round,
\* from different validators that are a quorum.
Prepared(pc, proposal, limit) ==
    LET r == pc.proposalMessage.round
        all == MessagesIn(AllMessages(pc))
    IN  /\ r < limit
        /\ pc.proposalMessage.from = Proposer[r]
        /\ \A m \in all : m.height = Height /\ m.round = r /\ m.hash = proposal
        /\ \A m \in MessagesIn(pc.prepareMessages) : m.type = "PREPARE" /\ m.from # Proposer[r]
        /\ \A m, n \in all : m.from = n.from => m = n
        /\ SendersOf(all) \in Quorums

\* Every message of a certificate reports nothing, or a prepared proposal with
\* its proof, although hashes that are not set get past validPC.
CertificatesAreSound ==
    \A m \in extendedRCC :
        IF m.pc = None THEN m.proposal = None ELSE Prepared(m.pc, m.proposal, m.round)
=============================================================================
