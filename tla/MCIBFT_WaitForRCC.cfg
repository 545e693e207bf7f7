SPECIFICATION Spec
CONSTANTS
    a = a
    b = b
    c = c
    d = d
    v = v
    w = w
    x = x
    None = None
    Validators = {a, b, c, d}
    VotingPower <- EqualPower
    Faulty = {}
    Proposer <- ProposerABD
    Values = {v}
    ValidValues = {v}
    MaxRound = 2
    Cancellable = {}
INVARIANTS
    OwnProposalsAcceptable
CHECK_DEADLOCK FALSE
