------------------------ MODULE RepeatedHeight_proofs ------------------------
(***************************************************************************)
(* What is left of the invariants of IBFT when heights are run again, for  *)
(* every value of the constants.                                           *)
(***************************************************************************)
EXTENDS RepeatedHeight, IBFT_proofs

\* state.reset leaves a validator as it was before its first round.
LEMMA RunAgainLocal ==
    ASSUME SoundInv, NEW n \in Correct, RunAgain(n)
    PROVE  LocalInv'
<1>1. \A k \in Correct \ {n} :
        /\ round'[k] = round[k]
        /\ name'[k] = name[k]
        /\ roundStarted'[k] = roundStarted[k]
        /\ proposal'[k] = proposal[k]
        /\ worker'[k] = worker[k]
        /\ seals'[k] = seals[k]
  BY DEF RunAgain, SoundInv, TypeOK
<1>2. UNCHANGED msgs
  BY DEF RunAgain
<1>3. \A k \in Correct \ {n} : LocalInvAt(k)'
  BY <1>1, <1>2, LocalFrame DEF SoundInv, msgs
<1>4. /\ name'[n] = "newRound" /\ proposal'[n] = None
      /\ worker'[n] = "startRound" /\ ~roundStarted'[n]
  BY DEF RunAgain, SoundInv, TypeOK
<1>5. LocalInvAt(n)'
  BY <1>4 DEF LocalInvAt, AcceptedInvAt
<1>6. QED
  BY <1>3, <1>5 DEF LocalInv

LEMMA RunAgainSound ==
    ASSUME SoundInv, NEW n \in Correct, RunAgain(n)
    PROVE  SoundInv'
<1>1. TypeOK'
  BY RoundsAreNat DEF SoundInv, TypeOK, RunAgain, StateNames, WorkerStates, msgs
<1>2. LocalInv'
  BY RunAgainLocal
<1>3. UNCHANGED <<inserted, msgs>> /\ inserted[n] = None
  BY DEF RunAgain
<1>4. /\ \A pc : (SoundPC(pc) => SoundPC(pc)') /\ (OwnPC(pc) => OwnPC(pc)')
      /\ \A pc, limit : ValidPC(pc, limit) => ValidPC(pc, limit)'
      /\ \A r, h : CommitQuorum(r, h) => CommitQuorum(r, h)'
  BY <1>3, Monotone DEF msgs
<1>5. ValidInv' /\ CertificateInv'
  BY <1>3, <1>4 DEF SoundInv, ValidInv, CertificateInv, msgs
<1>6. PreparedInv'
  <2>1. \A k \in Correct : latestPC'[k] = None \/ latestPC'[k] = latestPC[k]
    BY DEF RunAgain, SoundInv, TypeOK
  <2>2. QED
    BY <1>3, <1>4, <2>1 DEF SoundInv, PreparedInv, msgs
<1>7. InsertedInv'
  <2>1. \A k \in Correct \ {n} : worker'[k] = worker[k]
    BY DEF RunAgain, SoundInv, TypeOK
  <2>2. QED
    BY <1>3, <1>4, <2>1 DEF SoundInv, InsertedInv
<1>8. QED
  BY <1>1, <1>2, <1>5, <1>6, <1>7 DEF SoundInv

\* However often a height is run again: the state of each validator is consistent
\* with itself and with the messages, and the certificates are of messages sent.
THEOREM RepeatedSoundness == RunsSpec => []SoundInv
<1>1. SoundInv /\ [RunsNext]_<<vars, runs>> => SoundInv'
  <2> SUFFICES ASSUME SoundInv, [RunsNext]_<<vars, runs>> PROVE SoundInv'
    OBVIOUS
  <2>1. CASE [Next]_vars
    BY <2>1, SoundStep
  <2>2. CASE \E n \in Correct : RunAgain(n)
    BY <2>2, RunAgainSound
  <2>3. QED
    BY <2>1, <2>2 DEF RunsNext
<1>2. RunsInit => SoundInv
  BY SoundInit DEF RunsInit
<1>3. QED
  BY <1>1, <1>2, PTL DEF RunsSpec

\* What agreement leaves when locks are forgotten: every block was accepted by
\* IsValidProposal at a correct validator, and is sealed by a commit quorum of
\* its round, although the COMMITs may come from several runs of the height.
THEOREM RepeatedBlocks == RunsSpec => [](Validity /\ BlockIsSealed)
BY RepeatedSoundness, SoundValidity, SoundBlockIsSealed, PTL
=============================================================================
