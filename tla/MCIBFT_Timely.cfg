SPECIFICATION Spec
CONSTANTS
    a = a
    b = b
    c = c
    d = d
    v = v
    w = w
    x = x
    None = None
    Validators = {a, b, c, d}
    VotingPower <- EqualPower
    Faulty = {d}
    Proposer <- ProposerBACD
    Values = {v, w}
    ValidValues = {v, w}
    MaxRound = 3
    Cancellable = {c}
CONSTRAINT TimelyVotes
ACTION_CONSTRAINT StartRoundFirst
INVARIANTS
    TypeOK
    IInv
    BlockIsSealed
    Agreement
    ReportsLock
    VotesOnce
PROPERTIES
    ImplementsConsensus
    ValidatorsStep
CHECK_DEADLOCK FALSE
