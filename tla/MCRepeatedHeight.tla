-------------------------- MODULE MCRepeatedHeight --------------------------
(***************************************************************************)
(* An instance of RepeatedHeight: four validators with equal powers.       *)
(***************************************************************************)
EXTENDS RepeatedHeight, TLC

CONSTANTS a, b, c, d, v, w

EqualPower == [n \in Validators |-> 1]

ProposerAB == 0 :> a @@ 1 :> b

\* Everyone votes for v in round 0, where a inserts it.  Then b and c run the height
\* again, and then round 1 begins.
TwoRuns ==
    /\ \A m \in prepares : m.hash.round = 0 => m.hash.value = v /\ m.from \in {b, c}
    /\ \A m \in commits : m.round = 0 => m.from # d
    /\ \A m \in prepares : m.hash.round = 1 => m.hash.value = w /\ m.round = 1
    /\ \A n \in Correct \ {a} : runs[n] = 2 => inserted[a] # None
    /\ \A n \in Correct : round[n] = 1 => n # a /\ runs[b] = 2 /\ runs[c] = 2 /\ rcc[n] = None

\* startRound disables no step of another validator: it goes first.
StartRoundFirst ==
    (\E n \in Correct : worker[n] = "startRound") =>
        \E n \in Correct : worker[n] = "startRound" /\ worker'[n] # "startRound"
=============================================================================
