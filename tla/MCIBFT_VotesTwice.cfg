SPECIFICATION Spec
CONSTANTS
    a = a
    b = b
    c = c
    d = d
    v = v
    w = w
    x = x
    None = None
    Validators = {a, b, c, d}
    VotingPower <- EqualPower
    Faulty = {d}
    Proposer <- ProposerADB
    Values = {v, w}
    ValidValues = {v, w}
    MaxRound = 2
    Cancellable = {}
CONSTRAINT OneVoter
ACTION_CONSTRAINT StartRoundFirst
INVARIANTS
    VotesOnce
CHECK_DEADLOCK FALSE
