SPECIFICATION Spec
CONSTANTS
    a = a
    b = b
    c = c
    d = d
    v = v
    w = w
    x = x
    None = None
    Validators = {a, b, c, d}
    VotingPower <- EqualPower
    Faulty = {d}
    Proposer <- ProposerBACD
    Values = {v, w}
    ValidValues = {v, w}
    MaxRound = 3
    Cancellable = {}
CONSTRAINT SentBackVotes
ACTION_CONSTRAINT StartRoundFirst
INVARIANTS
    Agreement
CHECK_DEADLOCK FALSE
