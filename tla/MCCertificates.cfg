SPECIFICATION Spec
CONSTANTS
    a = a
    b = b
    c = c
    d = d
    z = z
    v = v
    w = w
    None = None
    Validators = {a, b, c, d}
    Addresses = {a, b, c, d, z}
    VotingPower <- EqualPower
    Proposer <- ProposerDBC
    MaxRound = 2
    Values = {v, w}
    Heights = {0, 1}
    Height = 1
    Inputs <- Calls
    Faulty = {d}
INVARIANTS
    TypeOK
    HighestCertificate
    CertificatesAreSound
    ReturnsCertificateOfIBFT
    RefusalNeedsFaulty
PROPERTIES
    ProposesAsInIBFT
CHECK_DEADLOCK FALSE
