------------------------- MODULE Certificates_proofs -------------------------
(***************************************************************************)
(* Safety of Certificates: for every set of ROUND_CHANGE messages, in      *)
(* every order of the loops, for all voting powers.                        *)
(***************************************************************************)
EXTENDS Certificates, VotingPower_proofs, SequenceTheorems, TLAPS

\* The rounds of a height are numbers, the first is 0.
LEMMA RoundsAreNaturals == Rounds \subseteq Nat /\ 0 \in Rounds
BY CertificatesAssumption DEF Rounds

\* What the loop of GetExtendedRCC has: nothing, or the certificate of a round.
CollectedCertificate ==
    \/ highestRound = 0 /\ extendedRCC = {}
    \/ highestRound \in CertifiedRounds /\ extendedRCC = ValidRoundChanges(highestRound)

\* While the loop runs no certified round that was visited is higher.
Collecting ==
    step = "GetExtendedRCC" =>
        /\ previousProposal = None /\ rest = {}
        /\ \A r \in CertifiedRounds : r \in rounds \/ r <= highestRound

\* The loop of buildProposal: the previous proposal is that of the highest
\* certificate among the messages it has visited.
Building ==
    step = "buildProposal" =>
        /\ input.caller = "waitForRCC"
        /\ extendedRCC # {} /\ rest \subseteq extendedRCC
        /\ \A m \in extendedRCC \ rest : HasProposal(m)
        /\ IF previousProposal = None
           THEN \A m \in extendedRCC \ rest : m.pc = None
           ELSE /\ \E m \in extendedRCC :
                      /\ m.pc # None /\ m.proposal.value = previousProposal
                      /\ m.pc.proposalMessage.proposalRound = maxRound
                /\ \A m \in extendedRCC \ rest :
                      m.pc # None => m.pc.proposalMessage.proposalRound <= maxRound

Inv ==
    TypeOK /\ CollectedCertificate /\ Collecting /\ HighestCertificate /\ Building

-----------------------------------------------------------------------------
(* What validPC and proposalMatchesCertificate let through *)

\* The messages of a certificate are the proposal message, first, and the
\* PREPARE messages.
LEMMA AllMessagesSplit ==
  ASSUME NEW p \in IbftMessage, NEW s \in Seq(IbftMessage)
  PROVE  LET all == <<p>> \o s
         IN  /\ all \in Seq(IbftMessage) /\ 1 \in DOMAIN all /\ all[1] = p
             /\ MessagesIn(all) = {p} \cup MessagesIn(s)
<1> DEFINE all == <<p>> \o s
<1>1. <<p>> \in Seq(IbftMessage) /\ Len(<<p>>) = 1 /\ <<p>>[1] = p
  OBVIOUS
<1>2. /\ all \in Seq(IbftMessage) /\ Len(all) = 1 + Len(s)
      /\ \A i \in 1 .. 1 + Len(s) : all[i] = IF i <= 1 THEN <<p>>[i] ELSE s[i - 1]
  BY <1>1, ConcatProperties
<1>3. DOMAIN all = 1 .. 1 + Len(s) /\ DOMAIN s = 1 .. Len(s) /\ Len(s) \in Nat
  BY <1>2
<1> HIDE DEF all
<1>4. 1 \in DOMAIN all /\ all[1] = p
  BY <1>1, <1>2, <1>3
<1>5. \A i \in DOMAIN s : i + 1 \in DOMAIN all /\ all[i + 1] = s[i]
  BY <1>2, <1>3
<1>6. \A i \in DOMAIN all : i = 1 \/ (i - 1 \in DOMAIN s /\ all[i] = s[i - 1])
  BY <1>2, <1>3
<1>7. MessagesIn(all) = {p} \cup MessagesIn(s)
  BY <1>4, <1>5, <1>6 DEF MessagesIn
<1> QED
  BY <1>2, <1>4, <1>7 DEF all

\* The type of a ROUND_CHANGE that reports something.
LEMMA RoundChangeType ==
  ASSUME NEW m \in RoundChange
  PROVE  /\ m.round \in Rounds /\ m.from \in Validators
         /\ m.proposal \in Proposal \cup {None}
         /\ m.pc # None => /\ m.pc.proposalMessage \in IbftMessage \cup {None}
                           /\ m.pc.prepareMessages \in Seq(IbftMessage)
<1>1. /\ m.round \in Rounds /\ m.from \in Validators /\ m.proposal \in Proposal \cup {None}
      /\ m.pc \in PreparedCertificate \cup {None}
  BY DEF RoundChange
<1>2. ASSUME m.pc # None
      PROVE  /\ m.pc.proposalMessage \in IbftMessage \cup {None}
             /\ m.pc.prepareMessages \in Seq(IbftMessage)
  BY <1>1, <1>2 DEF PreparedCertificate
<1> QED
  BY <1>1, <1>2

\* A message that isValidMsgFn accepts reports nothing, or a prepared proposal.
LEMMA ValidIsPrepared ==
  ASSUME NEW m \in RoundChange, IsValidMsg(m), m.pc # None
  PROVE  /\ Prepared(m.pc, m.proposal, m.round)
         /\ m.pc.proposalMessage \in IbftMessage
         /\ m.proposal \in Proposal /\ m.proposal # None
         /\ m.pc.proposalMessage.hash = m.proposal
<1> DEFINE p == m.pc.proposalMessage
           s == m.pc.prepareMessages
           all == AllMessages(m.pc)
<1>1. p # None /\ p \in IbftMessage /\ s \in Seq(IbftMessage)
  BY RoundChangeType DEF IsValidMsg, ValidPC
<1>2. /\ all \in Seq(IbftMessage) /\ 1 \in DOMAIN all /\ all[1] = p
      /\ MessagesIn(all) = {p} \cup MessagesIn(s)
  BY <1>1, AllMessagesSplit DEF AllMessages
<1>3. /\ HasQuorum(SendersOf(MessagesIn(all)))
      /\ \A n \in MessagesIn(s) : n.type = "PREPARE"
      /\ AreValidPCMessages(all, m.round)
      /\ p.from = Proposer[p.round] /\ p.from \in Validators
      /\ \A n \in MessagesIn(s) : n.from \in Validators /\ n.from # Proposer[n.round]
  BY DEF IsValidMsg, ValidPC
<1>4. \A n \in MessagesIn(all) : n.hash # None /\ n.hash = m.proposal
  BY DEF IsValidMsg, ProposalMatchesCertificate
<1> HIDE DEF p, s, all
<1>5. \A n \in MessagesIn(all) :
         n.height = Height /\ n.round = p.round /\ n.round < m.round
  BY <1>2, <1>3 DEF AreValidPCMessages, MessagesIn
<1>6. \A n, k \in MessagesIn(all) : n.from = k.from => n = k
  BY <1>3 DEF AreValidPCMessages, HasUniqueSenders, MessagesIn
<1>7. p \in MessagesIn(all) /\ \A n \in MessagesIn(s) : n \in MessagesIn(all)
  BY <1>2
<1>8. SendersOf(MessagesIn(all)) \in Quorums
  <2>1. SendersOf(MessagesIn(all)) \subseteq Validators
    BY <1>2, <1>3 DEF SendersOf
  <2>2. SendersOf(MessagesIn(all)) \cap Validators = SendersOf(MessagesIn(all))
    BY <2>1
  <2> QED
    BY <1>3, <2>2 DEF HasQuorum
<1>9. p.round < m.round
  BY <1>5, <1>7
<1>10. \A n \in MessagesIn(s) : n.type = "PREPARE" /\ n.from # Proposer[p.round]
  BY <1>3, <1>5, <1>7
<1>11. Prepared(m.pc, m.proposal, m.round)
  BY <1>3, <1>4, <1>5, <1>6, <1>8, <1>9, <1>10 DEF Prepared, p, s, all
<1>12. m.proposal # None /\ p.hash = m.proposal
  BY <1>4, <1>7
<1> QED
  BY <1>1, <1>11, <1>12, RoundChangeType DEF p

\* The messages of the store have their types, and the filters take some of them.
LEMMA InputType ==
  ASSUME input \in Inputs
  PROVE  /\ input.messages \subseteq RoundChange
         /\ input.round \in Rounds
         /\ \A m, n \in input.messages : m.round = n.round /\ m.from = n.from => m = n
         /\ input.caller = "waitForRCC" => input.round > 0
         /\ \A r : /\ ValidRoundChanges(r) \subseteq input.messages
                   /\ \A m \in ValidRoundChanges(r) : m.round = r /\ IsValidMsg(m)
<1>1. input \in Input
      /\ (\A m, n \in input.messages : m.round = n.round /\ m.from = n.from => m = n)
      /\ (input.caller = "waitForRCC" => input.round > 0)
  BY InputsAssumption
<1>2. input.messages \subseteq RoundChange /\ input.round \in Rounds
  BY <1>1 DEF Input
<1>3. \A r : /\ ValidRoundChanges(r) \subseteq input.messages
             /\ \A m \in ValidRoundChanges(r) : m.round = r /\ IsValidMsg(m)
  BY DEF ValidRoundChanges, RoundChangesOf
<1> QED
  BY <1>1, <1>2, <1>3


\* Every message of the certificate is a valid one of its round, from different
\* senders that are a quorum.
LEMMA CertificateType ==
  ASSUME TypeOK, CollectedCertificate
  PROVE  /\ \A m \in extendedRCC :
               m \in input.messages /\ m \in RoundChange /\ m.round = highestRound /\ IsValidMsg(m)
         /\ \A m, n \in extendedRCC : m.from = n.from => m = n
         /\ extendedRCC # {} => highestRound > 0 /\ HasQuorum(SendersOf(extendedRCC))
<1>1. input \in Inputs
  BY DEF TypeOK
<1>2. \A m \in extendedRCC :
         m \in input.messages /\ m \in RoundChange /\ m.round = highestRound /\ IsValidMsg(m)
  BY <1>1, InputType DEF CollectedCertificate
<1>3. \A m, n \in extendedRCC : m.from = n.from => m = n
  BY <1>1, <1>2, InputType
<1>4. ASSUME extendedRCC # {}
      PROVE  highestRound > 0 /\ HasQuorum(SendersOf(extendedRCC))
  <2>1. highestRound \in CertifiedRounds /\ extendedRCC = ValidRoundChanges(highestRound)
    BY <1>4 DEF CollectedCertificate
  <2>2. highestRound \in Rounds \ {0} /\ IsValidRCC(highestRound, extendedRCC)
    BY <2>1 DEF CertifiedRounds
  <2> QED
    BY <2>2, CertificatesAssumption, RoundsAreNaturals DEF IsValidRCC
<1> QED
  BY <1>2, <1>3, <1>4

\* A certified round has messages: no round is certified that is not visited.
LEMMA CertifiedRoundsHaveMessages ==
  \A r \in CertifiedRounds : r \in Rounds /\ r > 0 /\ ValidRoundChanges(r) # {}
<1> SUFFICES ASSUME NEW r \in CertifiedRounds
             PROVE  r \in Rounds /\ r > 0 /\ ValidRoundChanges(r) # {}
  OBVIOUS
<1>1. r \in Rounds \ {0} /\ HasQuorum(SendersOf(ValidRoundChanges(r)))
  BY DEF CertifiedRounds, IsValidRCC
<1>2. r > 0
  BY <1>1, RoundsAreNaturals
<1>3. SendersOf({}) = {} /\ ~HasQuorum({})
  BY QuorumsGrow DEF SendersOf, HasQuorum
<1> QED
  BY <1>1, <1>2, <1>3

-----------------------------------------------------------------------------
(* Inv is inductive *)

LEMMA InitInv == Init => Inv
<1> SUFFICES ASSUME Init PROVE Inv
  OBVIOUS
<1>0. input \in Inputs /\ step = "GetExtendedRCC" /\ rest = {} /\ extendedRCC = {}
      /\ highestRound = 0 /\ maxRound = 0 /\ previousProposal = None
      /\ rounds = {m.round : m \in input.messages}
  BY DEF Init
<1>1. accepted \in BOOLEAN
  BY Zenon DEF Init
<1>2. rounds \subseteq Rounds
  BY <1>0, InputType, RoundChangeType
<1>3. TypeOK
  BY <1>0, <1>1, <1>2, CertificatesAssumption, RoundsAreNaturals DEF TypeOK
<1>4. CollectedCertificate
  BY <1>0 DEF CollectedCertificate
<1>5. Collecting
  <2>1. ASSUME NEW r \in CertifiedRounds PROVE r \in rounds
    <3>1. PICK m \in ValidRoundChanges(r) : TRUE
      BY CertifiedRoundsHaveMessages
    <3> QED
      BY <1>0, <3>1, InputType
  <2> QED
    BY <1>0, <2>1 DEF Collecting
<1> QED
  BY <1>0, <1>3, <1>4, <1>5 DEF Inv, HighestCertificate, Building

\* What only reads input does not change when input does not.
LEMMA Unchanged ==
  ASSUME UNCHANGED input
  PROVE  /\ CertifiedRounds' = CertifiedRounds
         /\ \A r : ValidRoundChanges(r)' = ValidRoundChanges(r)
BY DEF CertifiedRounds, ValidRoundChanges, RoundChangesOf, IsValidRCC

LEMMA VisitRoundInv ==
  ASSUME Inv, NEW r \in Rounds, VisitRound(r)
  PROVE  Inv'
<1>0. /\ step = "GetExtendedRCC" /\ step' = step /\ rounds' = rounds \ {r}
      /\ UNCHANGED <<input, rest, previousProposal, maxRound, accepted>>
  BY DEF VisitRound
<1>a. TypeOK /\ CollectedCertificate /\ Collecting
  BY DEF Inv
<1>b. /\ CertifiedRounds' = CertifiedRounds
      /\ \A k : ValidRoundChanges(k)' = ValidRoundChanges(k)
  BY <1>0, Unchanged
<1>c. Rounds \subseteq Nat /\ CertifiedRounds \subseteq Rounds \ {0}
  BY RoundsAreNaturals DEF CertifiedRounds
<1>d. highestRound \in Rounds /\ input \in Inputs
  BY <1>a DEF TypeOK
<1>1. \/ /\ r > highestRound /\ r \in CertifiedRounds
         /\ highestRound' = r /\ extendedRCC' = ValidRoundChanges(r)
      \/ /\ r <= highestRound \/ r \notin CertifiedRounds
         /\ highestRound' = highestRound /\ extendedRCC' = extendedRCC
  <2>1. CASE r > highestRound /\ IsValidRCC(r, ValidRoundChanges(r))
    <3>1. r \in Rounds \ {0}
      BY <2>1, <1>c, <1>d
    <3> QED
      BY <2>1, <3>1 DEF VisitRound, CertifiedRounds
  <2>2. CASE ~(r > highestRound /\ IsValidRCC(r, ValidRoundChanges(r)))
    <3>1. highestRound' = highestRound /\ extendedRCC' = extendedRCC
      BY <2>2 DEF VisitRound
    <3>2. r <= highestRound \/ ~IsValidRCC(r, ValidRoundChanges(r))
      BY <2>2, <1>c, <1>d
    <3> QED
      BY <3>1, <3>2 DEF CertifiedRounds
  <2> QED
    BY <2>1, <2>2
<1>2. CollectedCertificate'
  <2>1. CASE highestRound' = r /\ extendedRCC' = ValidRoundChanges(r) /\ r \in CertifiedRounds
    BY <2>1, <1>b DEF CollectedCertificate
  <2>2. CASE highestRound' = highestRound /\ extendedRCC' = extendedRCC
    BY <2>2, <1>a, <1>b DEF CollectedCertificate
  <2> QED
    BY <1>1, <2>1, <2>2
<1>3. Collecting'
  <2>1. \A k \in CertifiedRounds : k \in rounds \/ k <= highestRound
    BY <1>0, <1>a DEF Collecting
  <2>2. ASSUME NEW k \in CertifiedRounds PROVE k \in rounds \ {r} \/ k <= highestRound'
    BY <2>1, <1>1, <1>c, <1>d
  <2> QED
    BY <1>0, <1>a, <1>b, <2>2 DEF Collecting
<1>4. TypeOK'
  <2>1. highestRound' \in Rounds
    BY <1>1, <1>d
  <2>2. extendedRCC' \subseteq input.messages
    BY <1>1, <1>a, <1>d, InputType DEF TypeOK
  <2> QED
    BY <1>0, <1>a, <2>1, <2>2 DEF TypeOK
<1> QED
  BY <1>0, <1>2, <1>3, <1>4 DEF Inv, HighestCertificate, Building

LEMMA CollectedInv ==
  ASSUME Inv, Collected
  PROVE  Inv'
<1>0. /\ step = "GetExtendedRCC" /\ rounds = {}
      /\ step' = IF input.caller = "waitForRCC" /\ extendedRCC # {} THEN "buildProposal" ELSE "done"
      /\ rest' = IF step' = "buildProposal" THEN extendedRCC ELSE {}
      /\ UNCHANGED <<input, rounds, highestRound, extendedRCC, previousProposal, maxRound,
                     accepted>>
  BY DEF Collected
<1>a. TypeOK /\ CollectedCertificate /\ Collecting
  BY DEF Inv
<1>b. /\ CertifiedRounds' = CertifiedRounds
      /\ \A k : ValidRoundChanges(k)' = ValidRoundChanges(k)
  BY <1>0, Unchanged
<1>c. Rounds \subseteq Nat /\ CertifiedRounds \subseteq Rounds \ {0}
  BY RoundsAreNaturals DEF CertifiedRounds
<1>d. highestRound \in Rounds /\ input \in Inputs
  BY <1>a DEF TypeOK
<1>1. TypeOK'
  BY <1>0, <1>a DEF TypeOK
<1>2. CollectedCertificate'
  BY <1>0, <1>a, <1>b DEF CollectedCertificate
<1>3. HighestCertificate'
  <2>1. \A r \in CertifiedRounds : r <= highestRound
    BY <1>0, <1>a DEF Collecting
  <2>2. CASE highestRound = 0 /\ extendedRCC = {}
    <3>1. CertifiedRounds = {}
      BY <2>1, <2>2, <1>c
    <3> QED
      BY <3>1, <2>2, <1>0, <1>b DEF HighestCertificate
  <2>3. CASE highestRound \in CertifiedRounds /\ extendedRCC = ValidRoundChanges(highestRound)
    BY <2>1, <2>3, <1>0, <1>b DEF HighestCertificate
  <2> QED
    BY <2>2, <2>3, <1>a DEF CollectedCertificate
<1>4. Building'
  BY <1>0, <1>a DEF Building, Collecting
<1> QED
  BY <1>0, <1>1, <1>2, <1>3, <1>4 DEF Inv, Collecting


LEMMA TakePreviousInv ==
  ASSUME Inv, NEW m, m \in RoundChangesOf(highestRound), TakePrevious(m)
  PROVE  Inv'
<1>0. /\ step = "buildProposal" /\ m \in rest /\ rest' = rest \ {m} /\ step' = step
      /\ UNCHANGED <<input, rounds, highestRound, extendedRCC, accepted>>
  BY DEF TakePrevious
<1>a. TypeOK /\ CollectedCertificate /\ HighestCertificate /\ Building
  BY DEF Inv
<1>b. /\ CertifiedRounds' = CertifiedRounds
      /\ \A k : ValidRoundChanges(k)' = ValidRoundChanges(k)
  BY <1>0, Unchanged
<1>c. m \in extendedRCC /\ m \in RoundChange /\ IsValidMsg(m)
  BY <1>0, <1>a, CertificateType DEF Building
\* What is taken is a value and a round; without a certificate nothing is.
<1>d. ASSUME m.pc # None
      PROVE  /\ m.proposal # None /\ m.proposal.value \in Values
             /\ m.pc.proposalMessage.proposalRound \in Rounds
  <2>1. HasProposal(m)
    BY DEF TakePrevious
  <2> QED
    BY <1>c, <1>d, <2>1, ValidIsPrepared DEF Proposal, IbftMessage, HasProposal
<1>e. maxRound \in Rounds /\ Rounds \subseteq Nat /\ None \notin Values
  BY <1>a, CertificatesAssumption, RoundsAreNaturals DEF TypeOK
<1>1. \/ /\ m.pc # None
         /\ previousProposal = None \/ m.pc.proposalMessage.proposalRound > maxRound
         /\ previousProposal' = m.proposal.value
         /\ maxRound' = m.pc.proposalMessage.proposalRound
      \/ /\ m.pc = None \/ (/\ previousProposal # None
                            /\ m.pc.proposalMessage.proposalRound <= maxRound)
         /\ previousProposal' = previousProposal /\ maxRound' = maxRound
  <2>1. CASE /\ m.pc # None /\ m.proposal # None
             /\ previousProposal = None \/ m.pc.proposalMessage.proposalRound > maxRound
    BY <2>1 DEF TakePrevious
  <2>2. CASE ~(/\ m.pc # None /\ m.proposal # None
               /\ previousProposal = None \/ m.pc.proposalMessage.proposalRound > maxRound)
    <3>1. previousProposal' = previousProposal /\ maxRound' = maxRound
      BY <2>2 DEF TakePrevious
    <3>2. m.pc # None => maxRound \in Nat /\ m.pc.proposalMessage.proposalRound \in Nat
      BY <1>d, <1>e
    <3> QED
      BY <2>2, <3>1, <3>2, <1>d
  <2> QED
    BY <2>1, <2>2
<1>2. TypeOK'
  <2>1. previousProposal' \in Values \cup {None} /\ maxRound' \in Rounds
    BY <1>1, <1>d, <1>a DEF TypeOK
  <2> QED
    BY <1>0, <1>a, <2>1 DEF TypeOK
<1>3. CollectedCertificate' /\ HighestCertificate'
  BY <1>0, <1>a, <1>b DEF CollectedCertificate, HighestCertificate
<1>4. Building'
  <2> DEFINE visited == extendedRCC \ rest
  <2>1. extendedRCC \ rest' = visited \cup {m}
    BY <1>0, <1>c
  <2>2. \A n \in visited : n.pc # None => n.pc.proposalMessage.proposalRound \in Rounds
    <3> SUFFICES ASSUME NEW n \in visited, n.pc # None
                 PROVE  n.pc.proposalMessage.proposalRound \in Rounds
      OBVIOUS
    <3>1. n \in RoundChange /\ IsValidMsg(n)
      BY <1>a, CertificateType
    <3>2. HasProposal(n)
      BY <1>0, <1>a DEF Building
    <3> QED
      BY <3>1, <3>2, ValidIsPrepared DEF IbftMessage, HasProposal
  <2>3. IF previousProposal = None THEN \A n \in visited : n.pc = None
        ELSE /\ \E n \in extendedRCC :
                   /\ n.pc # None /\ n.proposal.value = previousProposal
                   /\ n.pc.proposalMessage.proposalRound = maxRound
             /\ \A n \in visited : n.pc # None => n.pc.proposalMessage.proposalRound <= maxRound
    BY <1>0, <1>a DEF Building
  <2>4. IF previousProposal' = None THEN \A n \in visited \cup {m} : n.pc = None
        ELSE /\ \E n \in extendedRCC :
                   /\ n.pc # None /\ n.proposal.value = previousProposal'
                   /\ n.pc.proposalMessage.proposalRound = maxRound'
             /\ \A n \in visited \cup {m} :
                   n.pc # None => n.pc.proposalMessage.proposalRound <= maxRound'
    <3> HIDE DEF visited
    <3>1. CASE /\ m.pc # None
               /\ previousProposal = None \/ m.pc.proposalMessage.proposalRound > maxRound
               /\ previousProposal' = m.proposal.value
               /\ maxRound' = m.pc.proposalMessage.proposalRound
      <4>1. previousProposal' # None /\ maxRound' \in Rounds
        BY <3>1, <1>d, <1>e
      <4>2. \A n \in visited : n.pc # None => n.pc.proposalMessage.proposalRound <= maxRound'
        BY <3>1, <4>1, <2>2, <2>3, <1>e
      <4>3. maxRound' <= maxRound'
        BY <4>1, <1>e
      <4> QED
        BY <3>1, <4>1, <4>2, <4>3, <1>c
    <3>2. CASE /\ m.pc = None \/ (/\ previousProposal # None
                                  /\ m.pc.proposalMessage.proposalRound <= maxRound)
               /\ previousProposal' = previousProposal /\ maxRound' = maxRound
      BY <3>2, <2>3
    <3> QED
      BY <1>1, <3>1, <3>2
  <2>5. \A n \in extendedRCC \ rest' : HasProposal(n)
    BY <1>0, <1>a, <2>1 DEF Building, TakePrevious
  <2> QED
    BY <1>0, <1>a, <2>1, <2>4, <2>5 DEF Building, HasProposal
<1> QED
  BY <1>0, <1>2, <1>3, <1>4 DEF Inv, Collecting

LEMMA PanicInv ==
  ASSUME Inv, NEW m, PanicOnPrevious(m)
  PROVE  Inv'
<1>0. /\ step = "buildProposal" /\ step' = "panicked"
      /\ UNCHANGED <<input, rounds, rest, highestRound, extendedRCC, previousProposal, maxRound,
                     accepted>>
  BY DEF PanicOnPrevious
<1>a. TypeOK /\ CollectedCertificate /\ HighestCertificate
  BY DEF Inv
<1>b. /\ CertifiedRounds' = CertifiedRounds
      /\ \A k : ValidRoundChanges(k)' = ValidRoundChanges(k)
  BY <1>0, Unchanged
<1>1. TypeOK'
  BY <1>0, <1>a DEF TypeOK
<1>2. CollectedCertificate' /\ HighestCertificate'
  BY <1>0, <1>a, <1>b DEF CollectedCertificate, HighestCertificate
<1> QED
  BY <1>0, <1>1, <1>2 DEF Inv, Collecting, Building

\* What the certificate reports: one proposal for each round, and the payload of
\* each PREPREPARE is for its view.
ConsistentReports ==
    \A m, n \in {k \in extendedRCC : k.pc # None} :
        /\ m.pc.proposalMessage.round = n.pc.proposalMessage.round => m.proposal = n.proposal
        /\ m.proposal.round = m.pc.proposalMessage.round
        /\ m.pc.proposalMessage.proposalRound = m.pc.proposalMessage.round

\* The proposal that is built of a certificate of the round with such reports passes
\* validateProposal.
LEMMA ProposeAccepted ==
  ASSUME Inv, Propose, highestRound = input.round, ConsistentReports
  PROVE  accepted' = TRUE
<1>a. TypeOK /\ CollectedCertificate /\ Building /\ step = "buildProposal" /\ rest = {}
  BY DEF Inv, Propose
<1>b. input \in Inputs /\ Rounds \subseteq Nat /\ None \notin Values
  BY <1>a, CertificatesAssumption, RoundsAreNaturals DEF TypeOK
<1>1. /\ extendedRCC # {} /\ HasQuorum(SendersOf(extendedRCC))
      /\ \A m, n \in extendedRCC : m.from = n.from => m = n
      /\ \A m \in extendedRCC : m.round = input.round
  BY <1>a, CertificateType DEF Building
<1>2. PICK value \in (IF previousProposal = None THEN Values ELSE {previousProposal}) :
         MatchesCertificates(value)
  BY <1>1 DEF Propose
<1> DEFINE prepared == {m \in extendedRCC : m.pc # None /\ ValidPC(m.pc, input.round)}
<1>3. prepared = {m \in extendedRCC : m.pc # None}
  BY <1>1, <1>a, CertificateType DEF IsValidMsg
<1>4. \/ prepared = {} /\ accepted' = TRUE
      \/ \E m \in prepared :
            /\ \A n \in prepared : n.pc.proposalMessage.round <= m.pc.proposalMessage.round
            /\ accepted' = (m.pc.proposalMessage.hash =
                               [value |-> value, round |-> m.pc.proposalMessage.round])
  BY <1>2 DEF MatchesCertificates
<1> HIDE DEF prepared
\* What is known of the messages with a certificate
<1>5. \A m \in prepared :
         /\ m.pc.proposalMessage \in IbftMessage /\ m.proposal \in Proposal
         /\ m.pc.proposalMessage.hash = m.proposal
         /\ m.pc.proposalMessage.proposalRound = m.pc.proposalMessage.round
         /\ m.proposal.round = m.pc.proposalMessage.round
         /\ m.pc.proposalMessage.round \in Rounds
  <2> SUFFICES ASSUME NEW m \in prepared
               PROVE  /\ m.pc.proposalMessage \in IbftMessage /\ m.proposal \in Proposal
                      /\ m.pc.proposalMessage.hash = m.proposal
                      /\ m.pc.proposalMessage.proposalRound = m.pc.proposalMessage.round
                      /\ m.proposal.round = m.pc.proposalMessage.round
                      /\ m.pc.proposalMessage.round \in Rounds
    OBVIOUS
  <2>1. m \in input.messages /\ m \in RoundChange /\ IsValidMsg(m) /\ m.pc # None
    BY <1>3, <1>a, CertificateType
  <2>2. /\ m.pc.proposalMessage \in IbftMessage /\ m.proposal \in Proposal
        /\ m.pc.proposalMessage.hash = m.proposal
    BY <2>1, ValidIsPrepared
  <2>3. /\ m.pc.proposalMessage.proposalRound = m.pc.proposalMessage.round
        /\ m.proposal.round = m.pc.proposalMessage.round
    BY <2>1, <1>3 DEF ConsistentReports
  <2> QED
    BY <2>2, <2>3 DEF IbftMessage
<1>6. \A m, n \in prepared :
         m.pc.proposalMessage.round = n.pc.proposalMessage.round => m.proposal = n.proposal
  <2> SUFFICES ASSUME NEW m \in prepared, NEW n \in prepared,
                      m.pc.proposalMessage.round = n.pc.proposalMessage.round
               PROVE  m.proposal = n.proposal
    OBVIOUS
  <2> QED
    BY <1>3 DEF ConsistentReports
<1>7. CASE previousProposal = None
  <2>1. \A m \in extendedRCC : m.pc = None
    BY <1>7, <1>a DEF Building
  <2>2. prepared = {}
    BY <2>1, <1>3
  <2> QED
    BY <2>2, <1>4
<1>8. CASE previousProposal # None
  <2>1. value = previousProposal
    BY <1>2, <1>8
  <2>2. PICK k \in prepared : /\ k.proposal.value = value
                              /\ k.pc.proposalMessage.proposalRound = maxRound
    BY <1>8, <1>a, <1>3, <2>1 DEF Building
  <2>3. \A n \in prepared : n.pc.proposalMessage.round <= k.pc.proposalMessage.round
    <3>1. \A n \in prepared : n.pc.proposalMessage.proposalRound <= maxRound
      BY <1>8, <1>a, <1>3 DEF Building
    <3> QED
      BY <3>1, <2>2, <1>5
  <2>4. PICK m \in prepared :
           /\ \A n \in prepared : n.pc.proposalMessage.round <= m.pc.proposalMessage.round
           /\ accepted' = (m.pc.proposalMessage.hash =
                              [value |-> value, round |-> m.pc.proposalMessage.round])
    BY <1>4, <2>2
  <2>5. m.pc.proposalMessage.round = k.pc.proposalMessage.round
    <3>1. /\ m.pc.proposalMessage.round <= k.pc.proposalMessage.round
          /\ k.pc.proposalMessage.round <= m.pc.proposalMessage.round
      BY <2>3, <2>4
    <3>2. m.pc.proposalMessage.round \in Nat /\ k.pc.proposalMessage.round \in Nat
      BY <1>5, <1>b
    <3> QED
      BY <3>1, <3>2
  <2>6. m.proposal = k.proposal
    BY <2>5, <1>6
  <2>7. m.pc.proposalMessage.hash = k.proposal /\ k.proposal \in Proposal
    BY <2>6, <1>5
  <2>8. k.proposal = [value |-> value, round |-> m.pc.proposalMessage.round]
    <3>1. k.proposal.value = value /\ k.proposal.round = m.pc.proposalMessage.round
      BY <2>2, <2>5, <1>5
    <3> QED
      BY <3>1, <2>7 DEF Proposal
  <2> QED
    BY <2>4, <2>7, <2>8
<1> QED
  BY <1>7, <1>8

LEMMA ProposeInv ==
  ASSUME Inv, Propose
  PROVE  Inv'
<1>0. /\ step = "buildProposal" /\ step' = "done"
      /\ UNCHANGED <<input, rounds, rest, highestRound, extendedRCC, previousProposal, maxRound>>
  BY DEF Propose
<1>a. TypeOK /\ CollectedCertificate /\ HighestCertificate
  BY DEF Inv
<1>b. /\ CertifiedRounds' = CertifiedRounds
      /\ \A k : ValidRoundChanges(k)' = ValidRoundChanges(k)
  BY <1>0, Unchanged
<1>1. accepted' \in BOOLEAN
  <2>1. ASSUME NEW value, MatchesCertificates(value) PROVE accepted' \in BOOLEAN
    BY <2>1, Zenon DEF MatchesCertificates
  <2>2. ASSUME accepted' = FALSE PROVE accepted' \in BOOLEAN
    BY <2>2, Zenon
  <2> QED
    BY <2>1, <2>2, Zenon DEF Propose
<1>2. TypeOK'
  BY <1>0, <1>1, <1>a DEF TypeOK
<1>3. CollectedCertificate' /\ HighestCertificate'
  BY <1>0, <1>a, <1>b DEF CollectedCertificate, HighestCertificate
<1> QED
  BY <1>0, <1>2, <1>3 DEF Inv, Collecting, Building

-----------------------------------------------------------------------------

\* Inv holds throughout every call of handleRoundChangeMessage and buildProposal.
THEOREM Invariance == Spec => []Inv
<1>1. ASSUME Inv, [Next]_vars PROVE Inv'
  <2>1. ASSUME NEW r \in Rounds, VisitRound(r) PROVE Inv'
    BY <1>1, <2>1, VisitRoundInv
  <2>2. CASE Collected
    BY <1>1, <2>2, CollectedInv
  <2>3. ASSUME NEW m \in RoundChangesOf(highestRound), TakePrevious(m) PROVE Inv'
    BY <1>1, <2>3, TakePreviousInv
  <2>4. CASE Propose
    BY <1>1, <2>4, ProposeInv
  <2>6. ASSUME NEW m \in RoundChangesOf(highestRound), PanicOnPrevious(m) PROVE Inv'
    BY <1>1, <2>6, PanicInv
  <2>5. CASE UNCHANGED vars
    <3>1. UNCHANGED <<input, step, rounds, rest, highestRound, extendedRCC, previousProposal,
                      maxRound, accepted>>
      BY <2>5 DEF vars
    <3>2. /\ CertifiedRounds' = CertifiedRounds
          /\ \A k : ValidRoundChanges(k)' = ValidRoundChanges(k)
      BY <3>1, Unchanged
    <3> QED
      BY <1>1, <3>1, <3>2 DEF Inv, TypeOK, CollectedCertificate, Collecting,
           HighestCertificate, Building, HasProposal
  <2> QED
    BY <1>1, <2>1, <2>2, <2>3, <2>4, <2>5, <2>6 DEF Next
<1> QED
  BY InitInv, <1>1, PTL DEF Spec

\* The loops keep their types, for every store and every order.
THEOREM TypeCorrect == Spec => []TypeOK
<1>1. Inv => TypeOK
  BY DEF Inv
<1> QED
  BY Invariance, <1>1, PTL

\* GetExtendedRCC returns the certificate of the highest round that has one, in
\* whatever order it visits the map.
THEOREM HighestCertificateHolds == Spec => []HighestCertificate
<1>1. Inv => HighestCertificate
  BY DEF Inv
<1> QED
  BY Invariance, <1>1, PTL

\* Every message that a certificate takes reports nothing, or a prepared proposal
\* with a quorum of different senders behind it.
THEOREM CertificatesAreSoundHolds == Spec => []CertificatesAreSound
<1>1. Inv => CertificatesAreSound
  <2> SUFFICES ASSUME Inv, NEW m \in extendedRCC
               PROVE  IF m.pc = None THEN m.proposal = None
                      ELSE Prepared(m.pc, m.proposal, m.round)
    BY DEF CertificatesAreSound
  <2>1. m \in RoundChange /\ IsValidMsg(m)
    BY CertificateType DEF Inv
  <2>2. CASE m.pc = None
    BY <2>1, <2>2 DEF IsValidMsg, ProposalMatchesCertificate
  <2>3. CASE m.pc # None
    BY <2>1, <2>3, ValidIsPrepared
  <2> QED
    BY <2>2, <2>3
<1> QED
  BY Invariance, <1>1, PTL
=============================================================================
