--------------------------- MODULE RepeatedHeight ---------------------------
(***************************************************************************)
(* IBFT when the caller runs a height again.  A RunSequence call that ends *)
(* without a block (its context was cancelled) leaves the height to the    *)
(* caller, who calls RunSequence for it once more on the same instance.    *)
(* state.reset then forgets the whole state struct, the lock with it; the  *)
(* messages of the height stay in the stores, and those that were sent     *)
(* stay sent.                                                              *)
(***************************************************************************)
EXTENDS IBFTInvariant

CONSTANT MaxRuns    \* bound: the RunSequence calls of a validator

VARIABLE runs       \* the RunSequence calls of each validator so far

RunsInit == Init /\ runs = [n \in Correct |-> 1]

\* RunSequence for the height once more: state.reset, and the workers of round 0
RunAgain(n) ==
    /\ worker[n] = "returned"
    /\ inserted[n] = None
    /\ runs[n] < MaxRuns
    /\ runs' = [runs EXCEPT ![n] = @ + 1]
    /\ round' = [round EXCEPT ![n] = 0]
    /\ name' = [name EXCEPT ![n] = "newRound"]
    /\ roundStarted' = [roundStarted EXCEPT ![n] = FALSE]
    /\ proposal' = [proposal EXCEPT ![n] = None]
    /\ latestPC' = [latestPC EXCEPT ![n] = None]
    /\ seals' = [seals EXCEPT ![n] = None]
    /\ worker' = [worker EXCEPT ![n] = "startRound"]
    /\ UNCHANGED <<rcc, inserted, msgs>>

RunsNext ==
    \/ Next /\ UNCHANGED runs
    \/ \E n \in Correct : RunAgain(n)

RunsSpec == RunsInit /\ [][RunsNext]_<<vars, runs>>
=============================================================================
