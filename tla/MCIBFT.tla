------------------------------- MODULE MCIBFT -------------------------------
(***************************************************************************)
(* Instances of IBFT: four validators, of which d may be faulty.           *)
(***************************************************************************)
EXTENDS IBFTInvariant, IBFTLiveness, TLC

CONSTANTS a, b, c, d, v, w, x

EqualPower == [n \in Validators |-> 1]

\* Powers of which no quorum can do without a.
HeavyPower == a :> 2 @@ b :> 1 @@ c :> 1 @@ d :> 1

\* Powers with which a and d are a quorum of two; d has a quarter of the total.
UnequalPower == a :> 4 @@ b :> 1 @@ c :> 1 @@ d :> 2

\* Who proposes in rounds 0, 1, 2 and 3
ProposerAB == 0 :> a @@ 1 :> b
ProposerDA == 0 :> d @@ 1 :> a
ProposerABD == 0 :> a @@ 1 :> b @@ 2 :> d
ProposerDBA == 0 :> d @@ 1 :> b @@ 2 :> a
ProposerADB == 0 :> a @@ 1 :> d @@ 2 :> b
ProposerBACD == 0 :> b @@ 1 :> a @@ 2 :> c @@ 3 :> d

\* Every PREPARE, COMMIT or proposal is one of those allowed: who, for what value,
\* in what round.
PreparesAre(allowed) ==
    \A m \in prepares : m.round = m.hash.round /\ <<m.from, m.hash.value, m.round>> \in allowed

CommitsAre(allowed) ==
    \A m \in commits : <<m.from, m.hash.value, m.round>> \in allowed

ProposalsAre(allowed) ==
    \A m \in prePrepares : <<m.proposal.value, m.round>> \in allowed

\* The votes of the runs with four rounds.  First a commits v in round 1, which c
\* may do as well; then b and c commit w in round 2; and a and b vote in round 3.
FourRoundVotes ==
    /\ ProposalsAre({<<w, 0>>, <<v, 1>>, <<w, 2>>})
    /\ PreparesAre({<<b, v, 1>>, <<c, v, 1>>, <<b, w, 2>>} \cup {a, b} \X {v, w} \X {3})
    /\ CommitsAre({<<a, v, 1>>, <<c, v, 1>>, <<b, w, 2>>, <<c, w, 2>>} \cup {a, b} \X {v, w} \X {3})
    /\ (\E n \in Correct : round[n] >= 2) => a \in CommitSenders(1, [value |-> v, round |-> 1])
    /\ (\E n \in Correct : round[n] = 3) => {b, c} \subseteq CommitSenders(2, [value |-> w, round |-> 2])

\* Those in which only c moves by a certificate, to round 1 alone, and a and b
\* decide for w
SentBackVotes ==
    /\ FourRoundVotes
    /\ \A n \in Correct : rcc[n] # None => n = c /\ rcc[n] = 1
    /\ \A m \in prepares : m.round = 3 => m.hash.value = w

\* Nobody votes but c, and it does in round 3 alone, whose proposer is faulty; only c
\* moves by certificates.
LastRoundVotes ==
    /\ ProposalsAre({<<w, 0>>})
    /\ \A m \in prepares : m.from = c /\ m.hash.round = 3
    /\ \A n \in Correct : rcc[n] # None => n = c

\* The one or the other, when no validator is sent back
TimelyVotes == (FourRoundVotes \/ LastRoundVotes) /\ RoundCertificateIsHigher

\* No certificate is of a round that was left, and w is proposed in no round but
\* the first and the last.
TimelyCertificates ==
    /\ RoundCertificateIsHigher
    /\ \A m \in prePrepares : \A rc \in m.certificate : rc.round = m.round
    /\ \A m \in prePrepares : m.round = 1 => m.proposal.value = v
    /\ PreparesAre({<<a, w, 0>>, <<a, v, 1>>})

\* Only c votes; the first proposer has one proposal.
OneVoter ==
    /\ \A m \in prepares \cup commits : m.from = c
    /\ \A m \in prePrepares : m.round = 0 => m.proposal.value = v

\* startRound disables no step of another validator: it goes first.
StartRoundFirst ==
    (\E n \in Correct : worker[n] = "startRound") =>
        \E n \in Correct : worker[n] = "startRound" /\ worker'[n] # "startRound"
=============================================================================
