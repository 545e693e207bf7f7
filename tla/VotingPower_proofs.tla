-------------------------- MODULE VotingPower_proofs --------------------------
(***************************************************************************)
(* What the quorum arithmetic of core/validator_manager.go gives, for      *)
(* every validator set and every distribution of the voting power: the     *)
(* power of a set is a sum, two quorums share more than a third of the     *)
(* total, and the whole validator set is a quorum.                         *)
(*                                                                         *)
(* Inductions are done on sets: the library proves that < is well founded  *)
(* on Nat, so a set of numbers (or of sets of validators) that is closed   *)
(* under the step has no least element outside it.                         *)
(***************************************************************************)
EXTENDS VotingPower, FiniteSetTheorems, WellFoundedInduction, TLAPS

\* The element of a set that MapThenSumSet adds first.
First(S) == CHOOSE v \in S : TRUE

\* f gives every set of F the sum of its powers, taking First each time.
SumsOver(f, F) ==
    f = [S \in F |-> IF S = {} THEN 0 ELSE VotingPower[First(S)] + f[S \ {First(S)}]]

UpTo(n) == {S \in SUBSET Validators : Cardinality(S) <= n}

-----------------------------------------------------------------------------
(* Induction *)

\* A set of numbers that holds 0 and every successor is Nat.
LEMMA InductionOnNat ==
    ASSUME NEW N \in SUBSET Nat, 0 \in N, \A n \in N : n + 1 \in N
    PROVE  N = Nat
<1> SUFFICES ASSUME Nat \ N # {} PROVE FALSE
    OBVIOUS
<1>1. PICK m \in Nat \ N : \A k \in Nat \ N : ~(<<k, m>> \in OpToRel(<, Nat))
    <2> DEFINE T == Nat \ N
    <2>1. T \subseteq Nat /\ T # {}
        OBVIOUS
    <2>2. \E m \in T : \A k \in T : ~(<<k, m>> \in OpToRel(<, Nat))
        <3> HIDE DEF T
        <3> QED BY <2>1, WFMin, NatLessThanWellFounded
    <2> QED BY <2>2
<1>2. m # 0 /\ m - 1 \in Nat /\ m = (m - 1) + 1
    OBVIOUS
<1>3. m - 1 \notin N
    BY <1>2
<1>4. <<m - 1, m>> \in OpToRel(<, Nat)
    BY <1>2 DEF OpToRel
<1> QED BY <1>1, <1>2, <1>3, <1>4

LEMMA SubsetsAreFinite ==
    ASSUME NEW S \in SUBSET Validators
    PROVE  /\ IsFiniteSet(S)
           /\ Cardinality(S) \in Nat
           /\ Cardinality(S) = 0 <=> S = {}
           /\ \A x \in S : Cardinality(S \ {x}) = Cardinality(S) - 1
<1>1. IsFiniteSet(S)
    BY VotingPowerAssumption, FS_Subset
<1> QED BY <1>1, FS_CardinalityType, FS_EmptySet, FS_RemoveElement

\* A family of sets that holds a set whenever it holds what is left of it
\* without each of its elements holds all sets of validators.
LEMMA InductionOnSubsets ==
    ASSUME NEW F,
           \A S \in SUBSET Validators : (\A x \in S : S \ {x} \in F) => S \in F
    PROVE  SUBSET Validators \subseteq F
<1> DEFINE N == {n \in Nat : UpTo(n) \subseteq F}
<1>1. 0 \in N
    <2> SUFFICES ASSUME NEW S \in UpTo(0) PROVE S \in F
        OBVIOUS
    <2>1. S \in SUBSET Validators /\ S = {}
        BY SubsetsAreFinite DEF UpTo
    <2> QED BY <2>1
<1>2. ASSUME NEW n \in N PROVE n + 1 \in N
    <2> SUFFICES ASSUME NEW S \in UpTo(n + 1) PROVE S \in F
        OBVIOUS
    <2>1. S \in SUBSET Validators /\ Cardinality(S) <= n + 1
        BY DEF UpTo
    <2>2. ASSUME NEW x \in S PROVE S \ {x} \in F
        <3>1. Cardinality(S \ {x}) <= n
            BY <2>1, SubsetsAreFinite
        <3>2. S \ {x} \in UpTo(n)
            BY <2>1, <3>1 DEF UpTo
        <3> QED BY <3>2
    <2> QED BY <2>1, <2>2
<1>3. N = Nat
    <2> HIDE DEF N
    <2>1. N \in SUBSET Nat
        BY DEF N
    <2> QED BY <1>1, <1>2, <2>1, InductionOnNat
<1> SUFFICES ASSUME NEW S \in SUBSET Validators PROVE S \in F
    OBVIOUS
<1>4. Cardinality(S) \in N
    BY <1>3, SubsetsAreFinite
<1>5. S \in UpTo(Cardinality(S))
    BY SubsetsAreFinite DEF UpTo
<1> QED BY <1>4, <1>5

-----------------------------------------------------------------------------
(* The sum that PowerOf computes *)

LEMMA FirstIsElement ==
    ASSUME NEW S, S # {}
    PROVE  First(S) \in S
BY DEF First

\* The recursive function in MapThenSumSet exists.
LEMMA SumExists == \E f : SumsOver(f, SUBSET Validators)
<1> DEFINE N == {n \in Nat : \E f : SumsOver(f, UpTo(n))}
<1>1. 0 \in N
    <2> DEFINE f == [S \in UpTo(0) |-> 0]
    <2>1. \A S \in UpTo(0) : S = {}
        BY SubsetsAreFinite DEF UpTo
    <2>2. SumsOver(f, UpTo(0))
        BY <2>1 DEF SumsOver
    <2> QED BY <2>2
<1>2. ASSUME NEW n \in N PROVE n + 1 \in N
    <2>1. PICK f : SumsOver(f, UpTo(n))
        OBVIOUS
    <2> DEFINE value(g, S) ==
            IF S = {} THEN 0 ELSE VotingPower[First(S)] + g[S \ {First(S)}]
    <2> DEFINE g == [S \in UpTo(n + 1) |-> value(f, S)]
    <2>2. UpTo(n) \subseteq UpTo(n + 1)
        BY SubsetsAreFinite DEF UpTo
    <2>3. \A S \in UpTo(n) : g[S] = f[S]
        BY <2>1, <2>2 DEF SumsOver
    <2>4. ASSUME NEW S \in UpTo(n + 1), S # {}
          PROVE  g[S \ {First(S)}] = f[S \ {First(S)}]
        <3>1. S \in SUBSET Validators /\ Cardinality(S) <= n + 1 /\ First(S) \in S
            BY <2>4, FirstIsElement DEF UpTo
        <3>2. Cardinality(S \ {First(S)}) <= n
            BY <3>1, SubsetsAreFinite
        <3>3. S \ {First(S)} \in UpTo(n)
            BY <3>1, <3>2 DEF UpTo
        <3> QED BY <3>3, <2>3
    <2>5. \A S \in UpTo(n + 1) : value(f, S) = value(g, S)
        <3> HIDE DEF g
        <3> QED BY <2>4
    <2>6. g = [S \in UpTo(n + 1) |-> value(g, S)]
        BY <2>5
    <2>7. SumsOver(g, UpTo(n + 1))
        <3> HIDE DEF g
        <3> QED BY <2>6 DEF SumsOver
    <2> QED BY <2>7
<1>3. N = Nat
    <2> HIDE DEF N
    <2>1. N \in SUBSET Nat
        BY DEF N
    <2> QED BY <1>1, <1>2, <2>1, InductionOnNat
<1>4. Cardinality(Validators) \in N
    BY <1>3, SubsetsAreFinite
<1>5. UpTo(Cardinality(Validators)) = SUBSET Validators
    BY VotingPowerAssumption, FS_Subset DEF UpTo
<1> QED BY <1>4, <1>5

\* It is unique, whatever set MapThenSumSet builds it for.
LEMMA SumIsUnique ==
    ASSUME NEW f, SumsOver(f, SUBSET Validators),
           NEW S \in SUBSET Validators,
           NEW g, SumsOver(g, SUBSET S)
    PROVE  g[S] = f[S]
<1> DEFINE F == {T \in SUBSET Validators : T \subseteq S => g[T] = f[T]}
<1>1. ASSUME NEW T \in SUBSET Validators, \A x \in T : T \ {x} \in F
      PROVE  T \in F
    <2> SUFFICES ASSUME T \subseteq S PROVE g[T] = f[T]
        OBVIOUS
    <2>1. CASE T = {}
        BY <2>1 DEF SumsOver
    <2>2. CASE T # {}
        <3>1. First(T) \in T
            BY <2>2, FirstIsElement
        <3>2. T \ {First(T)} \in F
            BY <1>1, <3>1
        <3>3. g[T \ {First(T)}] = f[T \ {First(T)}]
            BY <3>2
        <3>4. g[T] = VotingPower[First(T)] + g[T \ {First(T)}]
            <4> HIDE DEF F
            <4> QED BY <2>2 DEF SumsOver
        <3>5. f[T] = VotingPower[First(T)] + f[T \ {First(T)}]
            <4> HIDE DEF F
            <4> QED BY <2>2 DEF SumsOver
        <3> QED BY <3>3, <3>4, <3>5
    <2> QED BY <2>1, <2>2
<1>2. SUBSET Validators \subseteq F
    <2> HIDE DEF F
    <2> QED BY <1>1, InductionOnSubsets
<1> QED BY <1>2

LEMMA PowerIsSum ==
    ASSUME NEW f, SumsOver(f, SUBSET Validators), NEW S \in SUBSET Validators
    PROVE  PowerOf(S) = f[S]
<1> DEFINE g == [T \in SUBSET S |-> f[T]]
           h == CHOOSE k : SumsOver(k, SUBSET S)
<1>1. SumsOver(g, SUBSET S)
    <2>1. \A T \in SUBSET S : T \ {First(T)} \in SUBSET S
        OBVIOUS
    <2>2. \A T \in SUBSET S :
             f[T] = IF T = {} THEN 0 ELSE VotingPower[First(T)] + f[T \ {First(T)}]
        BY DEF SumsOver
    <2> QED BY <2>1, <2>2 DEF SumsOver
<1>2. SumsOver(h, SUBSET S)
    <2> HIDE DEF g
    <2> QED BY <1>1
<1>3. h[S] = f[S]
    <2> HIDE DEF h
    <2> QED BY <1>2, SumIsUnique
<1>4. PowerOf(S) = h[S]
    <2>1. S \cap Validators = S
        OBVIOUS
    <2> QED BY <2>1 DEF PowerOf, MapThenSumSet, MapThenFoldSet, SumsOver, First
<1> QED BY <1>3, <1>4

\* The sum does not depend on the order in which CHOOSE takes the elements.
LEMMA PowerWithout ==
    ASSUME NEW S \in SUBSET Validators
    PROVE  /\ PowerOf(S) \in Nat
           /\ S = {} => PowerOf(S) = 0
           /\ \A x \in S : PowerOf(S) = VotingPower[x] + PowerOf(S \ {x})
<1>1. PICK f : SumsOver(f, SUBSET Validators)
    BY SumExists
<1>2. \A T \in SUBSET Validators :
         f[T] = IF T = {} THEN 0 ELSE VotingPower[First(T)] + f[T \ {First(T)}]
    BY <1>1 DEF SumsOver
<1> DEFINE F == {T \in SUBSET Validators :
                    /\ f[T] \in Nat
                    /\ \A x \in T : /\ f[T \ {x}] \in Nat
                                    /\ f[T] = VotingPower[x] + f[T \ {x}]}
<1>3. ASSUME NEW T \in SUBSET Validators, \A x \in T : T \ {x} \in F
      PROVE  T \in F
    <2>1. CASE T = {}
        <3>1. f[T] = 0
            BY <2>1, <1>2
        <3> QED BY <2>1, <3>1
    <2>2. CASE T # {}
        <3> DEFINE v == First(T)
        <3>1. v \in T /\ f[T] = VotingPower[v] + f[T \ {v}]
            BY <2>2, <1>2, FirstIsElement
        <3>2. T \ {v} \in F /\ VotingPower[v] \in Nat
            BY <1>3, <3>1, VotingPowerAssumption
        <3>3. ASSUME NEW x \in T, x # v
              PROVE  f[T] = VotingPower[x] + f[T \ {x}]
            <4> HIDE DEF v
            <4> DEFINE both == (T \ {v}) \ {x}
            <4>1. both = (T \ {x}) \ {v}
                OBVIOUS
            <4>2. T \ {x} \in F /\ v \in T \ {x} /\ x \in T \ {v}
                BY <1>3, <3>1, <3>3
            <4>3. f[T \ {v}] = VotingPower[x] + f[both]
                BY <3>2, <4>2
            <4>4. f[T \ {x}] = VotingPower[v] + f[both]
                BY <4>1, <4>2
            <4>5. both \in SUBSET Validators /\ VotingPower[x] \in Nat
                BY VotingPowerAssumption
            <4>6. f[T \ {x}] \in Nat /\ f[T \ {v}] \in Nat
                BY <3>2, <4>2
            <4>7. f[both] \in Nat
                BY <3>2, <4>2
            <4> HIDE DEF F, both
            <4> QED BY <3>1, <3>2, <4>3, <4>4, <4>5, <4>6, <4>7
        <3>4. f[T] \in Nat
            BY <3>1, <3>2
        <3>5. \A x \in T : f[T \ {x}] \in Nat
            BY <1>3
        <3> HIDE DEF v
        <3> QED BY <3>1, <3>3, <3>4, <3>5
    <2> QED BY <2>1, <2>2
<1>4. SUBSET Validators \subseteq F
    <2> HIDE DEF F
    <2> QED BY <1>3, InductionOnSubsets
<1>5. \A T \in SUBSET Validators : PowerOf(T) = f[T]
    BY <1>1, PowerIsSum
<1>6. \A x \in S : S \ {x} \in SUBSET Validators
    OBVIOUS
<1> QED BY <1>2, <1>4, <1>5, <1>6

LEMMA PowerOfAny ==
    ASSUME NEW S
    PROVE  /\ PowerOf(S) = PowerOf(S \cap Validators)
           /\ PowerOf(S) \in Nat
<1>1. (S \cap Validators) \cap Validators = S \cap Validators
    OBVIOUS
<1>2. PowerOf(S) = PowerOf(S \cap Validators)
    BY <1>1 DEF PowerOf
<1>3. PowerOf(S \cap Validators) \in Nat
    BY PowerWithout
<1> QED BY <1>2, <1>3

LEMMA PowerOfOne ==
    ASSUME NEW v \in Validators
    PROVE  PowerOf({v}) = VotingPower[v]
<1>1. {v} \ {v} = {} /\ VotingPower[v] \in Nat
    BY VotingPowerAssumption
<1>2. PowerOf({v} \ {v}) = 0
    BY <1>1, PowerWithout
<1> QED BY <1>1, <1>2, PowerWithout

LEMMA PowerOfDisjoint ==
    ASSUME NEW S \in SUBSET Validators, NEW T \in SUBSET Validators, S \cap T = {}
    PROVE  PowerOf(S \cup T) = PowerOf(S) + PowerOf(T)
<1> DEFINE F == {U \in SUBSET Validators :
                    S \cap U = {} => PowerOf(S \cup U) = PowerOf(S) + PowerOf(U)}
<1>1. ASSUME NEW U \in SUBSET Validators, \A x \in U : U \ {x} \in F
      PROVE  U \in F
    <2> SUFFICES ASSUME S \cap U = {}
                 PROVE  PowerOf(S \cup U) = PowerOf(S) + PowerOf(U)
        OBVIOUS
    <2>1. CASE U = {}
        <3>1. S \cup U = S /\ PowerOf(U) = 0 /\ PowerOf(S) \in Nat
            BY <2>1, PowerWithout
        <3> QED BY <3>1
    <2>2. CASE U # {}
        <3>1. PICK x \in U : TRUE
            BY <2>2
        <3>2. U \ {x} \in F /\ S \cap (U \ {x}) = {}
            BY <1>1
        <3>3. PowerOf(S \cup (U \ {x})) = PowerOf(S) + PowerOf(U \ {x})
            BY <3>2
        <3>4. (S \cup U) \ {x} = S \cup (U \ {x}) /\ x \in S \cup U
            OBVIOUS
        <3>5. PowerOf(U) = VotingPower[x] + PowerOf(U \ {x})
            BY PowerWithout
        <3>6. PowerOf(S \cup U) = VotingPower[x] + PowerOf(S \cup (U \ {x}))
            <4>1. S \cup U \in SUBSET Validators
                OBVIOUS
            <4>2. PowerOf(S \cup U) = VotingPower[x] + PowerOf((S \cup U) \ {x})
                BY <3>4, <4>1, PowerWithout
            <4> QED BY <3>4, <4>2
        <3>7. VotingPower[x] \in Nat
            BY VotingPowerAssumption
        <3>8. PowerOf(S) \in Nat /\ PowerOf(U \ {x}) \in Nat
            BY PowerOfAny
        <3> HIDE DEF F
        <3> QED BY <3>3, <3>5, <3>6, <3>7, <3>8
    <2> QED BY <2>1, <2>2
<1>2. SUBSET Validators \subseteq F
    <2> HIDE DEF F
    <2> QED BY <1>1, InductionOnSubsets
<1> QED BY <1>2

LEMMA PowerIsMonotone ==
    ASSUME NEW S, NEW T, S \cap Validators \subseteq T
    PROVE  PowerOf(S) <= PowerOf(T)
<1> DEFINE s == S \cap Validators
           t == T \cap Validators
<1>1. t = s \cup (t \ s) /\ s \cap (t \ s) = {}
    OBVIOUS
<1>2. PowerOf(t) = PowerOf(s) + PowerOf(t \ s)
    <2>1. s \in SUBSET Validators /\ t \ s \in SUBSET Validators
        OBVIOUS
    <2>2. PowerOf(s \cup (t \ s)) = PowerOf(s) + PowerOf(t \ s)
        <3> HIDE DEF s, t
        <3> QED BY <1>1, <2>1, PowerOfDisjoint
    <2> QED BY <1>1, <2>2
<1>3. PowerOf(S) = PowerOf(s) /\ PowerOf(T) = PowerOf(t)
    BY PowerOfAny
<1> HIDE DEF s, t
<1>4. PowerOf(s) \in Nat /\ PowerOf(t \ s) \in Nat
    BY PowerOfAny
<1> QED BY <1>2, <1>3, <1>4

\* The validators of two sets are counted twice where the sets meet.
LEMMA PowerOfUnion ==
    ASSUME NEW S \in SUBSET Validators, NEW T \in SUBSET Validators
    PROVE  PowerOf(S \cup T) + PowerOf(S \cap T) = PowerOf(S) + PowerOf(T)
<1>1. S \cup T = S \cup (T \ S) /\ S \cap (T \ S) = {}
    OBVIOUS
<1>2. T = (S \cap T) \cup (T \ S) /\ (S \cap T) \cap (T \ S) = {}
    OBVIOUS
<1>3. T \ S \in SUBSET Validators /\ S \cap T \in SUBSET Validators
    OBVIOUS
<1>4. PowerOf(S \cup (T \ S)) = PowerOf(S) + PowerOf(T \ S)
    BY <1>1, <1>3, PowerOfDisjoint
<1>5. PowerOf((S \cap T) \cup (T \ S)) = PowerOf(S \cap T) + PowerOf(T \ S)
    BY <1>2, <1>3, PowerOfDisjoint
<1>6. /\ PowerOf(S \cup T) = PowerOf(S) + PowerOf(T \ S)
      /\ PowerOf(T) = PowerOf(S \cap T) + PowerOf(T \ S)
    BY <1>1, <1>2, <1>4, <1>5
<1>7. PowerOf(S) \in Nat /\ PowerOf(S \cap T) \in Nat /\ PowerOf(T \ S) \in Nat
    BY PowerOfAny
<1> QED BY <1>6, <1>7

-----------------------------------------------------------------------------
(* Quorums *)

\* What Init accepts has a positive total power.
LEMMA TotalIsPositive == TotalPower \in Nat /\ TotalPower > 0
<1>1. PICK v \in Validators : VotingPower[v] > 0 /\ VotingPower[v] \in Nat
    BY VotingPowerAssumption
<1>2. PowerOf({v}) <= PowerOf(Validators)
    <2>1. {v} \cap Validators \subseteq Validators
        OBVIOUS
    <2> QED BY <2>1, PowerIsMonotone
<1>3. PowerOf({v}) = VotingPower[v]
    BY PowerOfOne
<1> QED BY <1>1, <1>2, <1>3, PowerOfAny DEF TotalPower

\* calculateQuorum rounds down and adds one: HasQuorum accepts exactly the
\* sets of validators with more than two thirds of the power, whatever the
\* remainder of the total power by three.
THEOREM QuorumIsTwoThirds ==
    \A S \in SUBSET Validators : S \in Quorums <=> 3 * PowerOf(S) > 2 * TotalPower
<1> TAKE S \in SUBSET Validators
<1> DEFINE p == PowerOf(S)
           t == TotalPower
           q == (2 * t) \div 3
<1>1. p \in Nat /\ t \in Nat
    BY PowerOfAny, TotalIsPositive
<1>2. S \in Quorums <=> p >= q + 1
    BY DEF Quorums, QuorumSize
<1> HIDE DEF p, t
<1>3. q \in Nat /\ 3 * q <= 2 * t /\ 2 * t < 3 * q + 3
    BY <1>1
<1> HIDE DEF q
<1>4. p >= q + 1 <=> 3 * p > 2 * t
    BY <1>1, <1>3
<1> QED BY <1>2, <1>4 DEF p, t

\* The quorum is never more than what the validators have: all of them
\* together are one, so an honest network can decide, at every total power.
THEOREM ValidatorsAreQuorum == HasQuorum(Validators)
<1>1. Validators \cap Validators \in SUBSET Validators /\ Validators \cap Validators = Validators
    OBVIOUS
<1>2. Validators \in Quorums
    BY <1>1, TotalIsPositive, QuorumIsTwoThirds DEF TotalPower
<1> QED BY <1>1, <1>2 DEF HasQuorum

\* More senders never undo a quorum.
LEMMA QuorumIsMonotone ==
    ASSUME NEW S, NEW T, S \cap Validators \subseteq T, HasQuorum(S)
    PROVE  HasQuorum(T)
<1>1. PowerOf(S \cap Validators) <= PowerOf(T \cap Validators)
    <2>1. (S \cap Validators) \cap Validators \subseteq T \cap Validators
        OBVIOUS
    <2> QED BY <2>1, PowerIsMonotone
<1>2. /\ PowerOf(S \cap Validators) \in Nat
      /\ PowerOf(T \cap Validators) \in Nat
      /\ TotalPower \in Nat
    BY PowerOfAny, TotalIsPositive
<1>3. 3 * PowerOf(S \cap Validators) > 2 * TotalPower
    BY QuorumIsTwoThirds DEF HasQuorum
<1>4. 3 * PowerOf(T \cap Validators) > 2 * TotalPower
    BY <1>1, <1>2, <1>3
<1> QED BY <1>4, QuorumIsTwoThirds DEF HasQuorum

\* No quorum is empty, and what contains one is one: all that the wakeups of
\* MessageEvents take of the quorums (QuorumsAssumption).
THEOREM QuorumsGrow ==
    /\ Quorums \subseteq SUBSET Validators
    /\ {} \notin Quorums
    /\ \A Q \in Quorums, S \in SUBSET Validators : Q \subseteq S => S \in Quorums
<1>1. {} \notin Quorums
    <2>1. PowerOf({}) = 0
        BY PowerWithout
    <2> QED BY <2>1, QuorumIsTwoThirds, TotalIsPositive
<1>2. ASSUME NEW Q \in Quorums, NEW S \in SUBSET Validators, Q \subseteq S
      PROVE  S \in Quorums
    <2>1. Q \cap Validators = Q /\ S \cap Validators = S
        BY <1>2 DEF Quorums
    <2> QED BY <1>2, <2>1, QuorumIsMonotone DEF HasQuorum
<1> QED BY <1>1, <1>2 DEF Quorums

\* Any two sets that HasQuorum accepts share more than a third of the power.
THEOREM QuorumsShareThird ==
    \A Q1, Q2 \in Quorums : 3 * PowerOf(Q1 \cap Q2) > TotalPower
<1> TAKE Q1, Q2 \in Quorums
<1>1. Q1 \in SUBSET Validators /\ Q2 \in SUBSET Validators
    BY DEF Quorums
<1>2. 3 * PowerOf(Q1) > 2 * TotalPower /\ 3 * PowerOf(Q2) > 2 * TotalPower
    BY <1>1, QuorumIsTwoThirds
<1>3. PowerOf(Q1 \cup Q2) + PowerOf(Q1 \cap Q2) = PowerOf(Q1) + PowerOf(Q2)
    BY <1>1, PowerOfUnion
<1>4. PowerOf(Q1 \cup Q2) <= TotalPower
    <2>1. (Q1 \cup Q2) \cap Validators \subseteq Validators
        OBVIOUS
    <2> QED BY <2>1, PowerIsMonotone DEF TotalPower
<1>5. /\ PowerOf(Q1) \in Nat /\ PowerOf(Q2) \in Nat /\ TotalPower \in Nat
      /\ PowerOf(Q1 \cup Q2) \in Nat /\ PowerOf(Q1 \cap Q2) \in Nat
    BY PowerOfAny, TotalIsPositive
<1> QED BY <1>2, <1>3, <1>4, <1>5

\* Two quorums share a validator outside every set with at most a third of the
\* power, and every quorum has one.
THEOREM QuorumsMeetOutside ==
    \A S : 3 * PowerOf(S) <= TotalPower =>
        \A Q1, Q2 \in Quorums : (Q1 \cap Q2) \ S # {}
<1> SUFFICES ASSUME NEW S, 3 * PowerOf(S) <= TotalPower,
                    NEW Q1 \in Quorums, NEW Q2 \in Quorums,
                    Q1 \cap Q2 \subseteq S
             PROVE  FALSE
    OBVIOUS
<1>1. PowerOf(Q1 \cap Q2) <= PowerOf(S)
    <2>1. (Q1 \cap Q2) \cap Validators \subseteq S
        OBVIOUS
    <2> QED BY <2>1, PowerIsMonotone
<1>2. 3 * PowerOf(Q1 \cap Q2) > TotalPower
    BY QuorumsShareThird
<1>3. PowerOf(Q1 \cap Q2) \in Nat /\ PowerOf(S) \in Nat /\ TotalPower \in Nat
    BY PowerOfAny, TotalIsPositive
<1> QED BY <1>1, <1>2, <1>3

\* What is left of the validators without a set is a quorum exactly when the
\* set has less than a third of the power.
THEOREM RestIsQuorum ==
    \A S \in SUBSET Validators :
        HasQuorum(Validators \ S) <=> 3 * PowerOf(S) < TotalPower
<1> TAKE S \in SUBSET Validators
<1>1. Validators \ S \in SUBSET Validators /\ (Validators \ S) \cap Validators = Validators \ S
    OBVIOUS
<1>2. S \cup (Validators \ S) = Validators /\ S \cap (Validators \ S) = {}
    OBVIOUS
<1>3. PowerOf(S \cup (Validators \ S)) = PowerOf(S) + PowerOf(Validators \ S)
    BY <1>1, <1>2, PowerOfDisjoint
<1>4. TotalPower = PowerOf(S) + PowerOf(Validators \ S)
    BY <1>2, <1>3 DEF TotalPower
<1>5. PowerOf(S) \in Nat /\ PowerOf(Validators \ S) \in Nat
    BY PowerOfAny
<1>6. HasQuorum(Validators \ S) <=> 3 * PowerOf(Validators \ S) > 2 * TotalPower
    BY <1>1, QuorumIsTwoThirds DEF HasQuorum
<1> QED BY <1>4, <1>5, <1>6
=============================================================================
