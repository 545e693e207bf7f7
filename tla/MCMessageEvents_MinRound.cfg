SPECIFICATION Spec
CONSTANTS
    a = a
    b = b
    c = c
    v = v
    w = w
    None = None
    Bad = Bad
    Us = c
    Validators = {a, b, c}
    Heights = {0, 1}
    Rounds = {0, 1, 2}
    Hashes = {v, w, Bad}
    Listeners = {"worker", "proposals", "certificates"}
    ProposerOf <- ProposerACB
    Quorums <- AnyTwo
    Scenarios <- AheadScenarios
INVARIANTS
    MinRoundWakeup
