SPECIFICATION Spec
CONSTANTS
    a = a
    b = b
    c = c
    d = d
    v = v
    w = w
    x = x
    None = None
    Validators = {a, b, c, d}
    VotingPower <- UnequalPower
    Faulty = {d}
    Proposer <- ProposerDBA
    Values = {v, w}
    ValidValues = {v, w}
    MaxRound = 2
    Cancellable = {}
CONSTRAINT TimelyCertificates
ACTION_CONSTRAINT StartRoundFirst
INVARIANTS
    Agreement
CHECK_DEADLOCK FALSE
