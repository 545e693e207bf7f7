--------------------------- MODULE MCCertificates ---------------------------
(***************************************************************************)
(* Instances of Certificates: the validators a, b, c and d of equal power, *)
(* and z that is none of them.  d, which is faulty, proposes in round 0, b *)
(* in round 1, c in round 2.  Some prepared v in round 0 and some w in     *)
(* round 1, whose certificate they report; d reports anything.             *)
(***************************************************************************)
EXTENDS CertificatesMapping, TLC

CONSTANTS a, b, c, d, z, v, w

EqualPower == [n \in Validators |-> 1]

ProposerDBC == 0 :> d @@ 1 :> b @@ 2 :> c

V0 == [value |-> v, round |-> 0]
W1 == [value |-> w, round |-> 1]
W2 == [value |-> w, round |-> 2]

Msg(type, r, from, hash) ==
    [type |-> type, height |-> 1, round |-> r, from |-> from, hash |-> hash, proposalRound |-> r]
PP(r, from, hash) == Msg("PREPREPARE", r, from, hash)
PPWith(payload) == [PP(0, d, V0) EXCEPT !.proposalRound = payload]
P(from, hash) == Msg("PREPARE", hash.round, from, hash)

PC(proposal, prepares) == [proposalMessage |-> proposal, prepareMessages |-> prepares]

PreparedV == PC(PP(0, d, V0), <<P(b, V0), P(c, V0)>>)
PreparedW == PC(PP(1, b, W1), <<P(a, W1), P(c, W1)>>)

RC(from, r, proposal, pc) == [from |-> from, round |-> r, proposal |-> proposal, pc |-> pc]

Nothing(n, r) == RC(n, r, None, None)

\* What d may report in round r
Reports(r) ==
    {Nothing(d, r), RC(d, r, V0, PreparedV), RC(d, r, W1, PreparedW),
     \* a proposal without its certificate, or the other way round
     RC(d, r, V0, None), RC(d, r, None, PreparedV), RC(d, r, W1, PreparedV),
     \* no hash in the PREPREPARE, other hashes in the PREPAREs, none at all
     RC(d, r, V0, PC(PP(0, d, None), <<P(b, V0), P(c, V0)>>)),
     RC(d, r, V0, PC(PP(0, d, V0), <<P(b, V0), P(a, [V0 EXCEPT !.value = w])>>)),
     RC(d, r, V0, PC(None, <<P(b, V0), P(c, V0)>>)),
     \* too few senders, one twice, one that is no validator, the proposer
     RC(d, r, V0, PC(PP(0, d, V0), <<P(b, V0), P(b, V0)>>)),
     RC(d, r, V0, PC(PP(0, d, V0), <<P(b, V0), P(c, V0), P(c, V0)>>)),
     RC(d, r, V0, PC(PP(0, d, V0), <<P(b, V0), P(c, V0), P(z, V0)>>)),
     \* a PREPREPARE of another than the proposer, a COMMIT, another height
     RC(d, r, W1, PC(PP(1, d, W1), <<P(a, W1), P(c, W1)>>)),
     RC(d, r, V0, PC(PP(0, d, V0), <<P(b, V0), Msg("COMMIT", 0, c, V0)>>)),
     RC(d, r, V0, PC([PP(0, d, V0) EXCEPT !.height = 0], <<P(b, V0), P(c, V0)>>)),
     \* no PREPAREs, a Proposal of another round in the payload, none in it
     RC(d, r, V0, PC(PP(0, d, V0), <<>>)),
     RC(d, r, V0, PC(PPWith(1), <<P(b, V0), P(c, V0)>>)),
     RC(d, r, V0, PC(PPWith(2), <<P(b, V0), P(c, V0)>>)),
     RC(d, r, V0, PC(PPWith(None), <<P(b, V0), P(c, V0)>>)),
     \* a certificate of the round itself
     RC(d, r, W2, PC(PP(2, c, W2), <<P(a, W2), P(b, W2)>>))}

\* Round 1 is entered with what was prepared in round 0, or only by some.
RoundOne ==
    {{Nothing(a, 1), Nothing(b, 1), Nothing(c, 1)}, {Nothing(b, 1), Nothing(d, 1)},
     {RC(c, 1, V0, PreparedV), Nothing(a, 1), Nothing(b, 1)}}
        \cup {{Nothing(a, 1), RC(b, 1, V0, PreparedV), m} : m \in Reports(1)}

RoundTwo ==
    {{}, {RC(a, 2, W1, PreparedW), RC(b, 2, V0, PreparedV), Nothing(c, 2)}}
        \cup {{RC(a, 2, W1, PreparedW), Nothing(c, 2), m} : m \in Reports(2)}
        \cup {{Nothing(a, 2), Nothing(c, 2), m} : m \in Reports(2)}

Calls ==
    [messages : {M \cup N : M \in RoundOne, N \in RoundTwo}, round : {1, 2},
     hasAcceptedProposal : BOOLEAN, caller : {"watchForRoundChangeCertificates"}]
    \cup
    [messages : {M \cup N : M \in RoundOne, N \in RoundTwo}, round : {1, 2},
     hasAcceptedProposal : {FALSE}, caller : {"waitForRCC"}]
=============================================================================
