------------------------- MODULE CertificatesMapping -------------------------
(***************************************************************************)
(* What Certificates computes message by message is what IBFT has as set   *)
(* definitions.                                                            *)
(*                                                                         *)
(* A ROUND_CHANGE carries the signature of its sender, and so does every   *)
(* message of its certificate: those of correct validators were sent by    *)
(* them.  Protocol is IBFT in a state in which correct validators have     *)
(* sent what the store shows of them and nothing else.  When they have     *)
(* sent more, the definitions of IBFT used below allow at least as much.   *)
(***************************************************************************)
EXTENDS Certificates

CONSTANT Faulty     \* validators that need not follow the protocol

Correct == Validators \ Faulty

\* The faulty validators have at most a third of the power, as in IBFT.
ASSUME MappingAssumption ==
    /\ Faulty \subseteq Validators
    /\ 3 * PowerOf(Faulty) <= TotalPower
    /\ None \notin [round : Rounds, proposal : Proposal, alone : BOOLEAN]

\* The payload of a PREPREPARE has a Proposal of the round of its view, and its
\* hash, when a correct validator has built it or has accepted it
\* (validateProposalCommon) and reports it.
ASSUME PayloadAssumption ==
    \A call \in Inputs : \A rc \in call.messages :
        LET p == rc.pc.proposalMessage
        IN  /\ rc.pc # None /\ p # None
            /\ p.type = "PREPREPARE" /\ p.height = Height
            /\ rc.from \in Correct \/ p.from \in Correct
            => p.proposalRound = p.round /\ p.hash # None /\ p.hash.round = p.round

\* The messages of this height that correct validators have signed, among those
\* in the certificates of the store
Signed(type) ==
    {m \in UNION {MessagesIn(AllMessages(rc.pc)) : rc \in {n \in input.messages : n.pc # None}} :
        m # None /\ m.type = type /\ m.height = Height /\ m.from \in Correct}

\* A ROUND_CHANGE in IBFT: its certificate is a round and a hash, with PREPAREs
\* or without.
RoundChangeOf(rc) ==
    [from |-> rc.from, round |-> rc.round,
     pc |-> IF rc.pc = None THEN None
            ELSE [round |-> rc.pc.proposalMessage.round, proposal |-> rc.proposal,
                  alone |-> rc.pc.prepareMessages = <<>>]]

CertificateOf(messages) == {RoundChangeOf(rc) : rc \in messages}

Protocol ==
    INSTANCE IBFT WITH
        ValidValues <- Values,
        Cancellable <- {},
        prePrepares <- {[from |-> m.from, round |-> m.round, proposal |-> m.hash, certificate |-> {}] :
                            m \in Signed("PREPREPARE")},
        prepares <- {[from |-> m.from, round |-> m.round, hash |-> m.hash] : m \in Signed("PREPARE")},
        commits <- {},
        roundChanges <- CertificateOf({rc \in input.messages : rc.from \in Correct}),
        \* not read by what is used below
        round <- 0, name <- "newRound", roundStarted <- TRUE, proposal <- None, latestPC <- None,
        seals <- None, worker <- "waitForRCC", rcc <- None, inserted <- None

-----------------------------------------------------------------------------
(* Properties *)

\* What handleRoundChangeMessage returns is a certificate that IBFT lets the
\* watcher signal and the proposer take: every message of it passes the ValidPC of
\* IBFT, which asks only for a round, a hash and who has sent them.
ReturnsCertificateOfIBFT ==
    extendedRCC # {} =>
        /\ CertificateOf(extendedRCC) \in Protocol!RoundChangeCertificates(highestRound)
        /\ highestRound = input.round => ~input.hasAcceptedProposal

\* What buildProposal proposes is a value that IBFT lets it propose with the
\* certificate, and when validateProposal of another validator accepts the message
\* that of IBFT does, at every validator.
ProposesAsInIBFT ==
    [][Propose =>
        \E value \in Protocol!ProposableValues(CertificateOf(extendedRCC))
                        \cap IF previousProposal = None THEN Values ELSE {previousProposal} :
            LET m == [from |-> Proposer[input.round], round |-> input.round,
                      proposal |-> [value |-> value, round |-> input.round],
                      certificate |-> CertificateOf(extendedRCC)]
            IN  \A n \in Validators \ {m.from} :
                    accepted' => Protocol!ValidateProposal(n, m, input.round)]_vars

\* A correct proposer has its proposal refused, or fails to build one, with a
\* certificate of its round: buildProposal and validateProposal go by different
\* fields, in different orders, one with > and one with >=.
Failed ==
    \/ step = "panicked"
    \/ /\ step = "done" /\ input.caller = "waitForRCC" /\ highestRound = input.round
       /\ ~accepted

\* The payload of the PREPREPARE that m reports is for its view and for the proposal.
ConsistentPayload(m) ==
    m.pc.proposalMessage.proposalRound = m.pc.proposalMessage.round
        /\ m.proposal.round = m.pc.proposalMessage.round

\* When the correct validators have voted once in a round, that needs a report by
\* a faulty sender of the proposal of a faulty proposer, whose payload is for
\* another round than its view.  With any other reports the two functions agree, in
\* every order of their loops.
RefusalNeedsFaulty ==
    Protocol!VotesOnce /\ Failed =>
        \E m \in extendedRCC :
            /\ m.pc # None /\ Protocol!FreePayload(RoundChangeOf(m))
            /\ ~ConsistentPayload(m)
=============================================================================
