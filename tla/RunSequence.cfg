SPECIFICATION Spec
CONSTANTS
    None = None
    Heights = {1, 2}
    MaxRound = 2
    ProposerRounds = {0, 2}
INVARIANTS
    TypeOK
    SignalsAreCurrent
    NameMatchesProposal
    DecisionStands
    PowersInUse
    Inv
PROPERTIES
    ImplementsValidator
    JumpsForward
    RoundEnds
    TeardownEnds
    CancelEnds
