--------------------------- MODULE MCMessageEvents ---------------------------
(***************************************************************************)
(* Instances of MessageEvents: a validator c among three, any two of which *)
(* are a quorum; a proposes in round 0, c in round 1, b in round 2.        *)
(***************************************************************************)
EXTENDS MessageEvents, TLC

CONSTANTS a, b, c, v, w

ProposerACB == 0 :> a @@ 1 :> c @@ 2 :> b

AnyTwo == {S \in SUBSET Validators : \E m, n \in S : m # n}

PP(h, r, from, hash) ==
    [type |-> "PREPREPARE", height |-> h, round |-> r, from |-> from, hash |-> hash]
P(r, from, hash) ==
    [type |-> "PREPARE", height |-> 0, round |-> r, from |-> from, hash |-> hash]
C(from, hash) ==
    [type |-> "COMMIT", height |-> 0, round |-> 0, from |-> from, hash |-> hash]
RC(r, from, hash) ==
    [type |-> "ROUND_CHANGE", height |-> 0, round |-> r, from |-> from, hash |-> hash]

Scenario(messages, goroutines, heights, rounds) ==
    [arriving |-> messages, running |-> goroutines, heights |-> heights, rounds |-> rounds]

WakeupScenarios ==
    {\* round 0 up to the insertion of the block
     Scenario({PP(0, 0, a, v), P(0, b, v), C(a, v), C(b, v)}, {"worker"}, {0}, {0}),
     \* a proposal that replaces another, a PREPARE for one of them
     Scenario({PP(0, 0, a, v), PP(0, 0, a, w), P(0, c, w)}, {"worker"}, {0}, {0}),
     \* a PREPARE of the proposer
     Scenario({PP(0, 0, a, v), P(0, b, v), P(0, a, Bad)}, {"worker"}, {0}, {0}),
     \* a certificate for our own round, and for one to jump to, with a message
     \* that only counts until its handler looks at it
     Scenario({RC(1, a, v), RC(1, b, v)}, Goroutines, {0}, {0, 1}),
     Scenario({RC(1, a, v), RC(1, b, v), RC(1, c, Bad)}, {"worker"}, {0}, {0, 1}),
     Scenario({RC(2, a, v), RC(2, b, v), RC(2, c, Bad)}, {"certificates"}, {0}, {0, 1}),
     \* a proposal for a later round, and messages for the next height
     Scenario({PP(0, 2, b, v), PP(0, 2, a, Bad), P(2, a, v)}, {"worker", "proposals"}, {0}, {0}),
     Scenario({PP(1, 0, a, v), PP(0, 0, a, v), P(0, b, v)}, {"worker"}, {0, 1}, {0})}

\* A proposal two rounds ahead
AheadScenarios == {Scenario({PP(0, 2, b, v)}, {"proposals"}, {0}, {0})}
=============================================================================
