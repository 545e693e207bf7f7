SPECIFICATION Spec
CONSTANTS
    a = a
    b = b
    c = c
    d = d
    v = v
    w = w
    x = x
    None = None
    Validators = {a, b, c, d}
    VotingPower <- EqualPower
    Faulty = {}
    Proposer <- ProposerAB
    Values = {v}
    ValidValues = {v}
    MaxRound = 1
    Cancellable = {}
INVARIANTS
    PrepareViewMatchesProposal
CHECK_DEADLOCK FALSE
