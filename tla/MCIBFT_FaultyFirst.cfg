SPECIFICATION LiveSpec
CONSTANTS
    a = a
    b = b
    c = c
    d = d
    v = v
    w = w
    x = x
    None = None
    Validators = {a, b, c, d}
    VotingPower <- HeavyPower
    Faulty = {d}
    Proposer <- ProposerDA
    Values = {v, w, x}
    ValidValues = {v, w}
    MaxRound = 1
    Cancellable = {}
INVARIANTS
    OwnCertificatesUsable
    Validity
    SoundInv
PROPERTIES
    Terminates
CHECK_DEADLOCK FALSE
