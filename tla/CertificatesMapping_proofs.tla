--------------------- MODULE CertificatesMapping_proofs ---------------------
(***************************************************************************)
(* The loops of Certificates compute what IBFT has as set definitions.     *)
(***************************************************************************)
EXTENDS CertificatesMapping, Certificates_proofs

\* IBFT and Certificates have the same quorums.
LEMMA SameQuorums == \A S : Protocol!HasQuorum(S) <=> HasQuorum(S)
<1>1. \A S : Protocol!PowerOf(S) = PowerOf(S)
  BY DEF Protocol!PowerOf, PowerOf, Protocol!MapThenSumSet, MapThenSumSet,
         Protocol!MapThenFoldSet, MapThenFoldSet
<1>2. Protocol!QuorumSize = QuorumSize
  BY <1>1 DEF Protocol!QuorumSize, QuorumSize, Protocol!TotalPower, TotalPower
<1> QED
  BY <1>1, <1>2 DEF Protocol!HasQuorum, HasQuorum, Protocol!Quorums, Quorums


-----------------------------------------------------------------------------
(* The messages of a certificate *)

\* What correct validators have signed in a certificate that isValidMsgFn lets
\* through is what Protocol has of them.
LEMMA CertificateIsSigned ==
  ASSUME NEW rc \in input.messages, rc \in RoundChange, IsValidMsg(rc), rc.pc # None
  PROVE  /\ rc.pc.proposalMessage.from \in Correct =>
               rc.pc.proposalMessage \in Signed("PREPREPARE")
         /\ \A m \in MessagesIn(rc.pc.prepareMessages) :
               m.from \in Correct => m \in Signed("PREPARE")
<1> DEFINE p == rc.pc.proposalMessage
           s == rc.pc.prepareMessages
           all == MessagesIn(AllMessages(rc.pc))
<1>1. p \in IbftMessage /\ Prepared(rc.pc, rc.proposal, rc.round)
  BY ValidIsPrepared
<1>2. s \in Seq(IbftMessage)
  BY RoundChangeType
<1>3. all = {p} \cup MessagesIn(s)
  BY <1>1, <1>2, AllMessagesSplit DEF AllMessages
<1>4. MessagesIn(s) \subseteq IbftMessage
  BY <1>2 DEF MessagesIn
<1>5. p.type = "PREPREPARE" /\ \A m \in MessagesIn(s) : m.type = "PREPARE"
  BY DEF IsValidMsg, ValidPC
<1>6. \A m \in all : m.height = Height
  BY <1>1 DEF Prepared
<1>7. \A m \in all : m # None
  BY <1>1, <1>3, <1>4, CertificatesAssumption
<1>8. \A m \in all :
         m \in UNION {MessagesIn(AllMessages(n.pc)) : n \in {n \in input.messages : n.pc # None}}
  OBVIOUS
<1> QED
  BY <1>3, <1>5, <1>6, <1>7, <1>8 DEF Signed

\* validPC and proposalMatchesCertificate let through what ValidPC of IBFT does.
LEMMA ValidInIBFT ==
  ASSUME NEW rc \in input.messages, rc \in RoundChange, IsValidMsg(rc)
  PROVE  /\ Protocol!ValidPC(RoundChangeOf(rc).pc, rc.round)
         /\ RoundChangeOf(rc).pc \in Protocol!PreparedCertificate \cup {None}
         /\ rc.pc # None => RoundChangeOf(rc).pc # None
<1>1. CASE rc.pc = None
  BY <1>1 DEF RoundChangeOf, Protocol!ValidPC
<1>2. CASE rc.pc # None
  <2> DEFINE p == rc.pc.proposalMessage
             r == p.round
             h == rc.proposal
             S == SendersOf(MessagesIn(rc.pc.prepareMessages))
  <2>1. /\ Prepared(rc.pc, h, rc.round) /\ p \in IbftMessage /\ h \in Proposal
        /\ p.hash = h
    BY <1>2, ValidIsPrepared
  <2>2. RoundChangeOf(rc).pc = [round |-> r, proposal |-> h, alone |-> FALSE]
    BY <1>2 DEF RoundChangeOf, IsValidMsg, ValidPC
  <2>3. /\ r < rc.round /\ p.from = Proposer[r] /\ p.from \in Validators
        /\ \A m \in MessagesIn(rc.pc.prepareMessages) :
              m.from \in Validators /\ m.from # Proposer[r] /\ m.round = r /\ m.hash = h
        /\ S \cup {Proposer[r]} \in Quorums
    <3>1. MessagesIn(AllMessages(rc.pc)) = {p} \cup MessagesIn(rc.pc.prepareMessages)
      BY <1>2, <2>1, RoundChangeType, AllMessagesSplit DEF AllMessages
    <3>2. SendersOf(MessagesIn(AllMessages(rc.pc))) = S \cup {p.from}
      BY <3>1 DEF SendersOf
    <3>3. /\ p.from \in Validators
          /\ \A m \in MessagesIn(rc.pc.prepareMessages) : m.from \in Validators
      BY <1>2 DEF IsValidMsg, ValidPC
    <3> QED
      BY <2>1, <3>1, <3>2, <3>3 DEF Prepared
  <2>4. r \in Rounds
    BY <2>1 DEF IbftMessage
  <2>5. Protocol!ProposalSigned(r, h)
    <3>1. CASE p.from \in Correct
      <4>1. p \in Signed("PREPREPARE")
        BY <1>2, <3>1, CertificateIsSigned
      <4> DEFINE m == [from |-> p.from, round |-> p.round, proposal |-> p.hash, certificate |-> {}]
      <4>2. m.round = r /\ m.proposal = h
        BY <2>1
      <4> QED
        BY <4>1, <4>2 DEF Protocol!ProposalSigned
    <3>2. CASE p.from \notin Correct
      BY <2>3, <3>2 DEF Protocol!ProposalSigned, Correct
    <3> QED
      BY <3>1, <3>2
  <2>6. S \in SUBSET (Protocol!PrepareSenders(r, h) \ {Proposer[r]})
    <3> SUFFICES ASSUME NEW m \in MessagesIn(rc.pc.prepareMessages)
                 PROVE  m.from \in Protocol!PrepareSenders(r, h) /\ m.from # Proposer[r]
      BY DEF SendersOf
    <3>1. CASE m.from \in Correct
      <4>1. m \in Signed("PREPARE")
        BY <1>2, <3>1, CertificateIsSigned
      <4> DEFINE vote == [from |-> m.from, round |-> m.round, hash |-> m.hash]
      <4>2. vote.from = m.from /\ vote.round = r /\ vote.hash = h
        BY <2>3
      <4> QED
        BY <2>3, <4>1, <4>2 DEF Protocol!PrepareSenders, Protocol!Senders
    <3>2. CASE m.from \notin Correct
      BY <2>3, <3>2 DEF Protocol!PrepareSenders, Correct
    <3> QED
      BY <3>1, <3>2
  <2>a. S # {}
    <3>1. rc.pc.prepareMessages # <<>> /\ rc.pc.prepareMessages \in Seq(IbftMessage)
      BY <1>2, RoundChangeType DEF IsValidMsg, ValidPC
    <3>2. 1 \in DOMAIN rc.pc.prepareMessages
      BY <3>1
    <3> QED
      BY <3>2 DEF SendersOf, MessagesIn
  <2>7. Protocol!HasQuorum(S \cup {Proposer[r]})
    <3>1. (S \cup {Proposer[r]}) \cap Validators = S \cup {Proposer[r]}
      BY <2>3 DEF Quorums
    <3> QED
      BY <2>3, <3>1, SameQuorums DEF HasQuorum
  <2> HIDE DEF p, r, h, S
  <2> DEFINE pc == [round |-> r, proposal |-> h, alone |-> FALSE]
  <2>8. Protocol!ValidPC(pc, rc.round)
    <3>1. pc.round = r /\ pc.proposal = h /\ pc.alone = FALSE
      OBVIOUS
    <3> HIDE DEF pc
    <3> QED
      BY <2>3, <2>5, <2>6, <2>7, <2>a, <3>1 DEF Protocol!ValidPC
  <2>9. pc \in Protocol!PreparedCertificate /\ pc # None
    <3>1. h \in Proposal
      BY <2>1 DEF h
    <3>2. pc \in [round : Rounds, proposal : Proposal, alone : BOOLEAN]
      BY <2>4, <3>1, Zenon
    <3>3. Protocol!PreparedCertificate = [round : Rounds, proposal : Proposal, alone : BOOLEAN]
      BY DEF Protocol!PreparedCertificate, Protocol!Rounds, Rounds, Protocol!Proposal, Proposal
    <3> HIDE DEF pc
    <3> QED
      BY <3>2, <3>3, MappingAssumption
  <2> QED
    BY <2>2, <2>8, <2>9
<1> QED
  BY <1>1, <1>2

-----------------------------------------------------------------------------
(* The certificate of handleRoundChangeMessage *)

LEMMA CertificateInIBFT ==
  ASSUME TypeOK, CollectedCertificate, extendedRCC # {}
  PROVE  CertificateOf(extendedRCC) \in Protocol!RoundChangeCertificates(highestRound)
<1> DEFINE C == CertificateOf(extendedRCC)
<1>1. /\ \A rc \in extendedRCC :
            rc \in input.messages /\ rc \in RoundChange /\ rc.round = highestRound /\ IsValidMsg(rc)
      /\ \A m, n \in extendedRCC : m.from = n.from => m = n
      /\ HasQuorum(SendersOf(extendedRCC))
  BY CertificateType
<1>2. ASSUME NEW rc \in extendedRCC
      PROVE  RoundChangeOf(rc) \in Protocol!ValidRoundChanges(highestRound)
  <2> DEFINE m == RoundChangeOf(rc)
  <2>0. m = RoundChangeOf(rc)
    OBVIOUS
  <2>1. /\ Protocol!ValidPC(m.pc, highestRound)
        /\ m.pc \in Protocol!PreparedCertificate \cup {None}
    BY <1>1, ValidInIBFT
  <2>2. m.from = rc.from /\ m.round = highestRound /\ m.from \in Validators
    BY <1>1, RoundChangeType DEF RoundChangeOf
  <2>3. m = [from |-> m.from, round |-> m.round, pc |-> m.pc]
    BY DEF RoundChangeOf
  <2>4. CASE rc.from \in Correct
    <3>1. m \in CertificateOf({n \in input.messages : n.from \in Correct})
      BY <1>1, <2>4 DEF CertificateOf
    <3> HIDE DEF m
    <3> QED
      BY <2>0, <2>1, <2>2, <3>1
         DEF Protocol!ValidRoundChanges, Protocol!Usable, Protocol!RoundChangesOf
  <2>5. CASE rc.from \notin Correct
    <3>1. m.from \in Faulty
      BY <2>2, <2>5 DEF Correct
    <3> HIDE DEF m
    <3>2. m \in [from : Faulty, round : {highestRound},
                 pc : {pc \in Protocol!PreparedCertificate \cup {None} :
                          Protocol!ValidPC(pc, highestRound)}]
      BY <2>1, <2>2, <2>3, <3>1
    <3> QED
      BY <2>0, <3>2 DEF Protocol!ValidRoundChanges, Protocol!FaultyRoundChanges
  <2> QED
    BY <2>4, <2>5
<1>3. C \in SUBSET Protocol!ValidRoundChanges(highestRound)
  BY <1>2 DEF CertificateOf
<1>4. Protocol!UniqueSenders(C)
  <2> SUFFICES ASSUME NEW m \in extendedRCC, NEW n \in extendedRCC,
                      RoundChangeOf(m).from = RoundChangeOf(n).from
               PROVE  RoundChangeOf(m) = RoundChangeOf(n)
    BY DEF CertificateOf, Protocol!UniqueSenders
  <2>1. m.from = n.from
    BY DEF RoundChangeOf
  <2> QED
    BY <1>1, <2>1
<1>5. Protocol!Senders(C) = SendersOf(extendedRCC)
  <2>1. \A rc : RoundChangeOf(rc).from = rc.from
    BY DEF RoundChangeOf
  <2> QED
    BY <2>1 DEF Protocol!Senders, SendersOf, CertificateOf
<1>6. Protocol!HasQuorum(Protocol!Senders(C))
  BY <1>1, <1>5, SameQuorums
<1> HIDE DEF C
<1>7. C \in Protocol!RoundChangeCertificates(highestRound)
  BY <1>3, <1>4, <1>6 DEF Protocol!RoundChangeCertificates
<1> QED
  BY <1>7 DEF C

\* A certificate that the watcher signals or waitForRCC takes is one of IBFT, in
\* every order of the loops and whatever the faulty validators report.
THEOREM ReturnsCertificateOfIBFTHolds == Spec => []ReturnsCertificateOfIBFT
<1>1. Inv => ReturnsCertificateOfIBFT
  <2> SUFFICES ASSUME Inv, extendedRCC # {}
               PROVE  /\ CertificateOf(extendedRCC) \in
                            Protocol!RoundChangeCertificates(highestRound)
                      /\ highestRound = input.round => ~input.hasAcceptedProposal
    BY DEF ReturnsCertificateOfIBFT
  <2>1. TypeOK /\ CollectedCertificate
    BY DEF Inv
  <2>2. highestRound \in CertifiedRounds
    BY <2>1 DEF CollectedCertificate
  <2>3. highestRound = input.round => ~input.hasAcceptedProposal
    BY <2>2 DEF CertifiedRounds, IsValidRCC
  <2> QED
    BY <2>1, <2>3, CertificateInIBFT
<1> QED
  BY <1>1, Invariance, PTL

-----------------------------------------------------------------------------
(* The proposal of buildProposal *)

\* The certificates in C, as IBFT has them, are those of its messages.
LEMMA PreparedRoundsOf ==
  ASSUME TypeOK, CollectedCertificate
  PROVE  Protocol!PreparedRounds(CertificateOf(extendedRCC)) =
            {RoundChangeOf(rc).pc : rc \in {m \in extendedRCC : m.pc # None}}
<1>1. \A rc \in extendedRCC : rc.pc # None => RoundChangeOf(rc).pc # None
  BY CertificateType, ValidInIBFT
<1>2. \A rc \in extendedRCC : rc.pc = None => RoundChangeOf(rc).pc = None
  BY DEF RoundChangeOf
<1>3. {m.pc : m \in CertificateOf(extendedRCC)} = {RoundChangeOf(rc).pc : rc \in extendedRCC}
  BY DEF CertificateOf
<1> QED
  BY <1>1, <1>2, <1>3 DEF Protocol!PreparedRounds

\* Nothing in the certificate is refused by validPC at another validator.
LEMMA UsableCertificate ==
  ASSUME TypeOK, CollectedCertificate
  PROVE  Protocol!Usable(CertificateOf(extendedRCC), highestRound) = CertificateOf(extendedRCC)
<1>1. ASSUME NEW rc \in extendedRCC PROVE Protocol!ValidPC(RoundChangeOf(rc).pc, highestRound)
  BY CertificateType, ValidInIBFT
<1> QED
  BY <1>1 DEF CertificateOf, Protocol!Usable

\* A report that a correct sender or a correct proposer stands behind has the
\* payload of its view.
LEMMA ReportIsConsistent ==
  ASSUME input \in Inputs,
         NEW rc \in input.messages, rc \in RoundChange, IsValidMsg(rc), rc.pc # None,
         ~Protocol!FreePayload(RoundChangeOf(rc))
  PROVE  ConsistentPayload(rc)
<1> DEFINE p == rc.pc.proposalMessage
<1>1. /\ Prepared(rc.pc, rc.proposal, rc.round) /\ p \in IbftMessage /\ p.hash = rc.proposal
      /\ rc.from \in Validators
  BY ValidIsPrepared, RoundChangeType
<1>2. p.from = Proposer[p.round] /\ p.from \in Validators /\ p # None /\ p.type = "PREPREPARE"
  BY DEF IsValidMsg, ValidPC
<1>3. p.height = Height
  BY <1>1, RoundChangeType, AllMessagesSplit DEF Prepared, AllMessages
<1>4. RoundChangeOf(rc).from = rc.from /\ RoundChangeOf(rc).pc.round = p.round
  BY DEF RoundChangeOf
<1>5. rc.from \in Correct \/ p.from \in Correct
  BY <1>1, <1>2, <1>4 DEF Protocol!FreePayload, Correct
<1>6. p.proposalRound = p.round /\ p.hash.round = p.round
  BY <1>2, <1>3, <1>5, PayloadAssumption
<1> QED
  BY <1>1, <1>6 DEF ConsistentPayload

\* With what the loop leaves in previousProposal, IBFT may propose the value.
LEMMA ProposedInIBFT ==
  ASSUME Inv, Propose,
         NEW value \in IF previousProposal = None THEN Values ELSE {previousProposal}
  PROVE  value \in Values /\ value \in Protocol!ProposableValues(CertificateOf(extendedRCC))
<1> DEFINE C == CertificateOf(extendedRCC)
<1>1. TypeOK /\ CollectedCertificate /\ Building /\ step = "buildProposal" /\ rest = {}
  BY DEF Inv, Propose
<1>2. value \in Values
  BY <1>1 DEF TypeOK
<1>3. \A m \in extendedRCC : m.pc # None <=> RoundChangeOf(m).pc # None
  <2>1. \A m \in extendedRCC : m.pc # None => RoundChangeOf(m).pc # None
    BY <1>1, CertificateType, ValidInIBFT
  <2>2. \A m \in extendedRCC : m.pc = None => RoundChangeOf(m).pc = None
    BY DEF RoundChangeOf
  <2> QED
    BY <2>1, <2>2
<1>4. Protocol!Reporting(C) = {RoundChangeOf(m) : m \in {m \in extendedRCC : m.pc # None}}
  BY <1>3 DEF Protocol!Reporting, CertificateOf
<1>5. CASE previousProposal = None
  <2>1. Protocol!Reporting(C) = {}
    BY <1>1, <1>4, <1>5 DEF Building
  <2> QED
    BY <1>2, <2>1 DEF Protocol!ProposableValues
<1>6. CASE previousProposal # None
  <2>1. PICK k \in extendedRCC : /\ k.pc # None /\ k.proposal.value = value
                                 /\ k.pc.proposalMessage.proposalRound = maxRound
    BY <1>1, <1>6 DEF Building
  <2>2. \A m \in extendedRCC :
           m.pc # None => m.pc.proposalMessage.proposalRound <= maxRound
    BY <1>1, <1>6 DEF Building
  <2>3. \A m \in extendedRCC :
           m.pc # None => RoundChangeOf(m).pc.proposal = m.proposal
    BY DEF RoundChangeOf
  <2>4. \A m \in extendedRCC :
           m.pc # None /\ ~Protocol!FreePayload(RoundChangeOf(m))
              => m.proposal.round = m.pc.proposalMessage.proposalRound
    BY <1>1, CertificateType, ReportIsConsistent DEF TypeOK, ConsistentPayload
  <2> DEFINE chosen == RoundChangeOf(k)
  <2>5. chosen \in Protocol!Reporting(C) /\ chosen.pc.proposal.value = value
    BY <1>4, <2>1, <2>3
  <2>6. \/ Protocol!FreePayload(chosen)
        \/ \A other \in Protocol!Reporting(C) :
              \/ Protocol!FreePayload(other)
              \/ other.pc.proposal.round <= chosen.pc.proposal.round
    <3> SUFFICES ASSUME ~Protocol!FreePayload(chosen),
                        NEW m \in extendedRCC, m.pc # None,
                        ~Protocol!FreePayload(RoundChangeOf(m))
                 PROVE  RoundChangeOf(m).pc.proposal.round <= chosen.pc.proposal.round
      BY <1>4
    <3>1. k.proposal.round = maxRound
      BY <2>1, <2>4
    <3>2. m.proposal.round <= maxRound
      BY <2>2, <2>4
    <3> QED
      BY <2>1, <2>3, <3>1, <3>2
  <2> HIDE DEF chosen, C
  <2>7. value \in Protocol!ProposableValues(C)
    BY <2>5, <2>6 DEF Protocol!ProposableValues
  <2> QED
    BY <1>2, <2>7 DEF C
<1> QED
  BY <1>5, <1>6

\* If the code accepts the value for the certificate, so does IBFT.
LEMMA MatchesInIBFT ==
  ASSUME TypeOK, CollectedCertificate, highestRound = input.round,
         NEW value, MatchesCertificates(value), accepted'
  PROVE  Protocol!MatchesCertificate(value, CertificateOf(extendedRCC))
<1> DEFINE pcs == Protocol!PreparedRounds(CertificateOf(extendedRCC))
           prepared == {m \in extendedRCC : m.pc # None}
<1>1. pcs = {RoundChangeOf(rc).pc : rc \in prepared}
  BY PreparedRoundsOf
<1>2. \A m \in extendedRCC : ValidPC(m.pc, input.round)
  BY CertificateType DEF IsValidMsg
<1>3. {m \in extendedRCC : m.pc # None /\ ValidPC(m.pc, input.round)} = prepared
  BY <1>2
<1>4. \A m \in prepared : /\ RoundChangeOf(m).pc.round = m.pc.proposalMessage.round
                          /\ RoundChangeOf(m).pc.proposal = m.pc.proposalMessage.hash
  <2> SUFFICES ASSUME NEW m \in extendedRCC, m.pc # None
               PROVE  /\ RoundChangeOf(m).pc.round = m.pc.proposalMessage.round
                      /\ RoundChangeOf(m).pc.proposal = m.pc.proposalMessage.hash
    OBVIOUS
  <2>1. m.pc.proposalMessage.hash = m.proposal
    BY CertificateType, ValidIsPrepared
  <2> QED
    BY <2>1 DEF RoundChangeOf
<1>5. \/ prepared = {}
      \/ \E m \in prepared :
            /\ \A n \in prepared : n.pc.proposalMessage.round <= m.pc.proposalMessage.round
            /\ accepted' = (m.pc.proposalMessage.hash =
                               [value |-> value, round |-> m.pc.proposalMessage.round])
  BY <1>3 DEF MatchesCertificates
<1> HIDE DEF pcs, prepared
<1>6. CASE prepared = {}
  BY <1>1, <1>6 DEF pcs, Protocol!MatchesCertificate
<1>7. CASE prepared # {}
  <2>1. PICK m \in prepared :
           /\ \A n \in prepared : n.pc.proposalMessage.round <= m.pc.proposalMessage.round
           /\ m.pc.proposalMessage.hash =
                 [value |-> value, round |-> m.pc.proposalMessage.round]
    BY <1>5, <1>7
  <2>2. /\ RoundChangeOf(m).pc \in pcs
        /\ \A other \in pcs : other.round <= RoundChangeOf(m).pc.round
        /\ RoundChangeOf(m).pc.proposal =
              [value |-> value, round |-> RoundChangeOf(m).pc.round]
    BY <1>1, <1>4, <2>1
  <2> QED
    BY <2>2 DEF pcs, Protocol!MatchesCertificate
<1> QED
  BY <1>6, <1>7

\* The value that is proposed is one that IBFT proposes, and a message that is
\* accepted is accepted in IBFT.
LEMMA ProposeStep ==
  ASSUME Inv, Propose
  PROVE  \E value \in Protocol!ProposableValues(CertificateOf(extendedRCC))
                        \cap IF previousProposal = None THEN Values ELSE {previousProposal} :
            LET m == [from |-> Proposer[input.round], round |-> input.round,
                      proposal |-> [value |-> value, round |-> input.round],
                      certificate |-> CertificateOf(extendedRCC)]
            IN  \A n \in Validators \ {m.from} :
                    accepted' => Protocol!ValidateProposal(n, m, input.round)
<1> DEFINE C == CertificateOf(extendedRCC)
<1>1. /\ TypeOK /\ CollectedCertificate /\ extendedRCC # {}
      /\ input.caller = "waitForRCC" /\ input \in Inputs
  BY DEF Inv, Propose, Building, TypeOK
<1>2. input.round > 0
  BY <1>1, InputType
<1>3. PICK value \in (IF previousProposal = None THEN Values ELSE {previousProposal}) :
         accepted' = TRUE => highestRound = input.round /\ MatchesCertificates(value)
  <2>1. highestRound # input.round => ~ \A m \in extendedRCC : m.round = input.round
    BY <1>1, CertificateType
  <2> QED
    BY <2>1 DEF Propose
<1>4. value \in Values /\ value \in Protocol!ProposableValues(C)
  BY ProposedInIBFT
<1> DEFINE m == [from |-> Proposer[input.round], round |-> input.round,
                 proposal |-> [value |-> value, round |-> input.round], certificate |-> C]
<1>5. ASSUME accepted', NEW n \in Validators \ {m.from}
      PROVE  Protocol!ValidateProposal(n, m, input.round)
  <2>1. highestRound = input.round /\ MatchesCertificates(value)
    BY <1>1, <1>3, <1>5
  <2>2. Protocol!MatchesCertificate(value, C)
    BY <1>1, <1>5, <2>1, MatchesInIBFT
  <2>3. Protocol!Usable(C, input.round) = C
    BY <1>1, <2>1, UsableCertificate
  <2>4. Protocol!UniqueSenders(C) /\ Protocol!HasQuorum(Protocol!Senders(C))
    BY <1>1, CertificateInIBFT DEF Protocol!RoundChangeCertificates
  <2>5. \A rc \in C : rc.round = input.round
    BY <1>1, <2>1, CertificateType DEF CertificateOf, RoundChangeOf
  <2>6. /\ m.proposal.round = input.round /\ m.from = Proposer[input.round]
        /\ m.proposal.value \in Values /\ m.proposal.value = value
        /\ n # Proposer[input.round] /\ m.certificate = C
    BY <1>4, <1>5
  <2> HIDE DEF m, C
  <2> QED
    BY <2>2, <2>3, <2>4, <2>5, <2>6 DEF Protocol!ValidateProposal
<1>6. \A n \in Validators \ {m.from} :
         accepted' => Protocol!ValidateProposal(n, m, input.round)
  BY <1>5
<1> QED
  BY <1>4, <1>6 DEF C

\* buildProposal and validateProposal stay within what IBFT says of them in one
\* definition each, in every order of their loops and whatever faulty validators
\* put into the payloads that they report.
THEOREM ProposesAsInIBFTHolds == Spec => ProposesAsInIBFT
<1> DEFINE Simulated ==
      \E value \in Protocol!ProposableValues(CertificateOf(extendedRCC))
                        \cap IF previousProposal = None THEN Values ELSE {previousProposal} :
            LET m == [from |-> Proposer[input.round], round |-> input.round,
                      proposal |-> [value |-> value, round |-> input.round],
                      certificate |-> CertificateOf(extendedRCC)]
            IN  \A n \in Validators \ {m.from} :
                    accepted' => Protocol!ValidateProposal(n, m, input.round)
<1>1. Inv /\ [Next]_vars => [Propose => Simulated]_vars
  BY ProposeStep
<1> QED
  BY <1>1, Invariance, PTL DEF Spec, ProposesAsInIBFT

-----------------------------------------------------------------------------
(* The certificates of a round *)

\* Every sender of a valid certificate that is correct has signed the proposal in
\* it, the proposer in its PREPREPARE and another validator in a PREPARE.
LEMMA SenderHasSigned ==
  ASSUME NEW rc \in input.messages, rc \in RoundChange, IsValidMsg(rc), rc.pc # None,
         NEW v \in SendersOf(MessagesIn(AllMessages(rc.pc))), v \in Correct,
         NEW r, r = rc.pc.proposalMessage.round
  PROVE  IF v = Proposer[r]
         THEN \E m \in Signed("PREPREPARE") : m.from = v /\ m.round = r /\ m.hash = rc.proposal
         ELSE \E m \in Signed("PREPARE") : m.from = v /\ m.round = r /\ m.hash = rc.proposal
<1> DEFINE p == rc.pc.proposalMessage
           s == MessagesIn(rc.pc.prepareMessages)
<1>1. /\ Prepared(rc.pc, rc.proposal, rc.round) /\ p \in IbftMessage /\ p.hash = rc.proposal
  BY ValidIsPrepared
<1>2. MessagesIn(AllMessages(rc.pc)) = {p} \cup s
  BY <1>1, RoundChangeType, AllMessagesSplit DEF AllMessages
<1>3. /\ p.from = Proposer[r]
      /\ \A m \in s : m.from # Proposer[r] /\ m.round = r /\ m.hash = rc.proposal
  BY <1>1, <1>2 DEF Prepared
<1>4. PICK m \in {p} \cup s : m.from = v
  BY <1>2 DEF SendersOf
<1>5. CASE v = Proposer[r]
  <2>1. m = p
    BY <1>3, <1>4, <1>5
  <2> QED
    BY <1>1, <1>4, <1>5, <2>1, CertificateIsSigned
<1>6. CASE v # Proposer[r]
  <2>1. m \in s
    BY <1>3, <1>4, <1>6
  <2> QED
    BY <1>3, <1>4, <1>6, <2>1, CertificateIsSigned
<1> QED
  BY <1>5, <1>6

\* When correct validators have voted once in a round (VotesOnce, here of the
\* messages in the store), the certificates of one round are for one proposal, if
\* they are for proposals of their round.
THEOREM PreparedOnce ==
  ASSUME Protocol!VotesOnce,
         NEW m \in input.messages, m \in RoundChange, IsValidMsg(m), m.pc # None,
         NEW n \in input.messages, n \in RoundChange, IsValidMsg(n), n.pc # None,
         NEW r, m.pc.proposalMessage.round = r, n.pc.proposalMessage.round = r,
         m.proposal.round = r, n.proposal.round = r
  PROVE  m.proposal = n.proposal
<1> DEFINE QuorumOf(rc) == SendersOf(MessagesIn(AllMessages(rc.pc)))
<1>1. QuorumOf(m) \in Quorums /\ QuorumOf(n) \in Quorums
  BY ValidIsPrepared DEF Prepared
<1>2. PICK v \in QuorumOf(m) \cap QuorumOf(n) : v \notin Faulty
  BY <1>1, MappingAssumption, QuorumsMeetOutside
<1>3. v \in Correct
  BY <1>1, <1>2 DEF Quorums, Correct
<1>4. CASE v = Proposer[r]
  <2>1. PICK x \in Signed("PREPREPARE") : x.from = v /\ x.round = r /\ x.hash = m.proposal
    BY <1>2, <1>3, <1>4, SenderHasSigned
  <2>2. PICK y \in Signed("PREPREPARE") : y.from = v /\ y.round = r /\ y.hash = n.proposal
    BY <1>2, <1>3, <1>4, SenderHasSigned
  <2> DEFINE Sent(k) == [from |-> k.from, round |-> k.round, proposal |-> k.hash, certificate |-> {}]
  <2>3. Sent(x).round = Sent(y).round => Sent(x) = Sent(y)
    BY DEF Protocol!VotesOnce
  <2> QED
    BY <2>1, <2>2, <2>3
<1>5. CASE v # Proposer[r]
  <2>1. PICK x \in Signed("PREPARE") : x.from = v /\ x.round = r /\ x.hash = m.proposal
    BY <1>2, <1>3, <1>5, SenderHasSigned
  <2>2. PICK y \in Signed("PREPARE") : y.from = v /\ y.round = r /\ y.hash = n.proposal
    BY <1>2, <1>3, <1>5, SenderHasSigned
  <2> DEFINE Sent(k) == [from |-> k.from, round |-> k.round, hash |-> k.hash]
  <2>3. Sent(x).from = Sent(y).from /\ Sent(x).hash.round = Sent(y).hash.round
           => Sent(x).hash = Sent(y).hash
    BY DEF Protocol!VotesOnce
  <2> QED
    BY <2>1, <2>2, <2>3
<1> QED
  BY <1>4, <1>5

-----------------------------------------------------------------------------
(* Proposals that are refused *)

\* Reports that are no work of two faulty validators are consistent with each other.
LEMMA ReportsAreConsistent ==
  ASSUME TypeOK, CollectedCertificate, Protocol!VotesOnce,
         \A m \in extendedRCC :
            m.pc # None /\ Protocol!FreePayload(RoundChangeOf(m)) => ConsistentPayload(m)
  PROVE  ConsistentReports
<1>1. \A m \in extendedRCC : m.pc # None => ConsistentPayload(m)
  BY CertificateType, ReportIsConsistent DEF TypeOK
<1>2. ASSUME NEW m \in extendedRCC, NEW n \in extendedRCC, m.pc # None, n.pc # None,
             m.pc.proposalMessage.round = n.pc.proposalMessage.round
      PROVE  m.proposal = n.proposal
  <2>1. /\ m \in input.messages /\ m \in RoundChange /\ IsValidMsg(m)
        /\ n \in input.messages /\ n \in RoundChange /\ IsValidMsg(n)
    BY CertificateType
  <2>2. /\ m.proposal.round = m.pc.proposalMessage.round
        /\ n.proposal.round = m.pc.proposalMessage.round
    BY <1>1, <1>2 DEF ConsistentPayload
  <2> QED
    BY <1>2, <2>1, <2>2, PreparedOnce
<1> QED
  BY <1>1, <1>2 DEF ConsistentReports, ConsistentPayload

\* A proposer whose certificate is of its round fails only because of a report
\* that a faulty validator makes of the proposal of a faulty one, whose payload is
\* of another round than its view: in every order of the loops, with all powers.
THEOREM RefusalNeedsFaultyHolds == Spec => []RefusalNeedsFaulty
<1> DEFINE Lied == \E m \in extendedRCC : /\ m.pc # None /\ Protocol!FreePayload(RoundChangeOf(m))
                                         /\ ~ConsistentPayload(m)
           Refused == /\ step = "done" /\ input.caller = "waitForRCC" /\ highestRound = input.round
                      /\ ~accepted
<1>1. Init => RefusalNeedsFaulty
  BY DEF Init, RefusalNeedsFaulty, Failed
<1>2. ASSUME Inv, RefusalNeedsFaulty, [Next]_vars
      PROVE  RefusalNeedsFaulty'
  <2>1. TypeOK /\ CollectedCertificate /\ Building
    BY <1>2 DEF Inv
  <2>2. ASSUME NEW r \in Rounds, VisitRound(r) PROVE ~Failed'
    BY <2>2 DEF VisitRound, Failed
  <2>3. ASSUME Collected PROVE ~Failed'
    <3> SUFFICES ASSUME Failed' PROVE FALSE
      OBVIOUS
    <3>1. /\ step' = IF input.caller = "waitForRCC" /\ extendedRCC # {} THEN "buildProposal" ELSE "done"
          /\ UNCHANGED <<input, highestRound, extendedRCC>>
      BY <2>3 DEF Collected
    <3>2. extendedRCC = {} /\ highestRound = input.round /\ input.caller = "waitForRCC"
      BY <3>1 DEF Failed
    <3>3. highestRound = 0
      BY <2>1, <3>2, CertifiedRoundsHaveMessages DEF CollectedCertificate
    <3> QED
      BY <2>1, <3>2, <3>3, InputType DEF TypeOK
  <2>4. ASSUME NEW m, TakePrevious(m) PROVE ~Failed'
    BY <2>4 DEF TakePrevious, Failed
  <2>5. ASSUME NEW m, PanicOnPrevious(m) PROVE Lied
    <3>1. m \in extendedRCC /\ m.pc # None /\ m.pc.proposalMessage.proposalRound = None
      BY <2>1, <2>5 DEF PanicOnPrevious, Building, HasProposal
    <3>2. m \in input.messages /\ m \in RoundChange /\ IsValidMsg(m) /\ input \in Inputs
      BY <2>1, <3>1, CertificateType DEF TypeOK
    <3>3. ~ConsistentPayload(m)
      BY <3>1, <3>2, ValidIsPrepared, CertificatesAssumption DEF ConsistentPayload, IbftMessage
    <3> QED
      BY <3>1, <3>2, <3>3, ReportIsConsistent
  <2>6. ASSUME Propose, Failed', Protocol!VotesOnce PROVE Lied
    <3> SUFFICES ASSUME ~Lied PROVE FALSE
      OBVIOUS
    <3>1. ConsistentReports
      BY <2>1, <2>6, ReportsAreConsistent
    <3>2. highestRound = input.round /\ accepted' # TRUE
      BY <2>6 DEF Propose, Failed
    <3> QED
      BY <1>2, <2>6, <3>1, <3>2, ProposeAccepted
  <2>7. ASSUME UNCHANGED <<input, highestRound, extendedRCC>>
        PROVE  (Protocol!VotesOnce' <=> Protocol!VotesOnce) /\ (Lied' <=> Lied)
    BY <2>7 DEF Protocol!VotesOnce, Signed, Protocol!FreePayload, RoundChangeOf, ConsistentPayload
  <2>8. CASE UNCHANGED vars
    BY <1>2, <2>7, <2>8 DEF vars, RefusalNeedsFaulty, Failed
  <2>9. ASSUME NEW m, PanicOnPrevious(m) PROVE RefusalNeedsFaulty'
    BY <2>5, <2>7, <2>9 DEF PanicOnPrevious, RefusalNeedsFaulty
  <2>10. CASE Propose
    BY <2>6, <2>7, <2>10 DEF Propose, RefusalNeedsFaulty
  <2> QED
    BY <1>2, <2>2, <2>3, <2>4, <2>8, <2>9, <2>10 DEF Next, RefusalNeedsFaulty
<1> QED
  BY <1>1, <1>2, Invariance, PTL DEF Spec
=============================================================================
