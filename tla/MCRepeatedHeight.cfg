SPECIFICATION RunsSpec
CONSTANTS
    a = a
    b = b
    c = c
    d = d
    v = v
    w = w
    None = None
    Validators = {a, b, c, d}
    VotingPower <- EqualPower
    Faulty = {}
    Proposer <- ProposerAB
    Values = {v, w}
    ValidValues = {v, w}
    MaxRound = 1
    Cancellable = {b, c}
    MaxRuns = 2
CONSTRAINT TwoRuns
ACTION_CONSTRAINT StartRoundFirst
INVARIANTS
    Agreement
CHECK_DEADLOCK FALSE
