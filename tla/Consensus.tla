----------------------------- MODULE Consensus ------------------------------
(***************************************************************************)
(* What a height of the protocol promises to the backends: each correct    *)
(* validator is given at most one block, its value never changes, it is a  *)
(* value the backends accept, and no two validators are given different    *)
(* values.                                                                 *)
(***************************************************************************)
CONSTANTS
    Nodes,      \* the correct validators
    Valid,      \* the values their backends accept
    Nil

VARIABLE decided    \* the value each node was given, or Nil

Init == decided = [n \in Nodes |-> Nil]

Decide(n, value) ==
    /\ decided[n] = Nil
    /\ \A m \in Nodes : decided[m] \in {Nil, value}
    /\ decided' = [decided EXCEPT ![n] = value]

Next == \E n \in Nodes, value \in Valid : Decide(n, value)

Spec == Init /\ [][Next]_decided
=============================================================================
