-------------------------- MODULE RunSequence_proofs --------------------------
(***************************************************************************)
(* Safety of RunSequence and its goroutines, for all heights, rounds and   *)
(* proposer schedules.                                                     *)
(***************************************************************************)
EXTENDS RunSequence, TLAPS

\* Inv holds before the first call.
LEMMA InitInv == Init => Inv
<1> SUFFICES ASSUME Init PROVE Inv
  OBVIOUS
<1>0. /\ accepted \in BOOLEAN /\ roundStarted \in BOOLEAN
      /\ ctx \in BOOLEAN /\ ctxRound \in BOOLEAN
  BY Zenon DEF Init
<1> USE ParameterAssumption DEF Init, Rounds, Phases
<1>1. TypeOK
  BY <1>0 DEF TypeOK
<1>2. SignalsAreCurrent /\ NameMatchesProposal /\ PowersInUse
  BY DEF SignalsAreCurrent, NameMatchesProposal, PowersInUse, Goroutines
<1> QED
  BY <1>1, <1>2 DEF Inv, Goroutines

\* A step of RunSequence itself, or of its caller, preserves Inv.
LEMMA MainStepInv ==
  ASSUME Inv, MainStep \/ CancelCaller \/ \E h \in Heights : Call(h)
  PROVE  Inv'
\* What the SMT encoding of FALSE does not see.
<1>a. ASSUME NEW h \in Heights, Call(h)
      PROVE  accepted' \in BOOLEAN /\ roundStarted' \in BOOLEAN /\ ctx' \in BOOLEAN
  BY <1>a, Zenon DEF Call
<1>b. ASSUME MoveToNewRound
      PROVE  accepted' \in BOOLEAN /\ roundStarted' \in BOOLEAN
  BY <1>b, Zenon DEF MoveToNewRound
<1> USE ParameterAssumption
    DEF Inv, TypeOK, SignalsAreCurrent, NameMatchesProposal, PowersInUse,
        Rounds, Phases, CurrentView, stateVars, mainVars, goroutineVars
<1>1. ASSUME NEW h \in Heights, Call(h) PROVE Inv'
  <2>0. /\ height' = h /\ round' = 0 /\ name' = "newRound" /\ main' = "init"
        /\ UNCHANGED <<powers, taken, ctxRound, phase, view, signal>>
    BY <1>1 DEF Call
  <2>1. TypeOK'
    BY <2>0, <1>1, <1>a
  <2>2. \A g \in Goroutines : phase'[g] = "ended"
    BY <1>1 DEF Call
  <2> QED
    BY <1>1, <2>1, <2>2 DEF Call, Goroutines
<1>2. CASE CancelCaller
  BY <1>2 DEF CancelCaller
<1>3. CASE InitPowers
  BY <1>3 DEF InitPowers
<1>4. CASE InitFails
  BY <1>4 DEF InitFails
<1>5. CASE StartOfRound
  BY <1>5 DEF StartOfRound, Goroutines
<1>6. ASSUME NEW g \in Goroutines, Receive(g) PROVE Inv'
  BY <1>6 DEF Receive, Goroutines
<1>7. CASE RoundCancelled
  BY <1>7 DEF RoundCancelled, Goroutines
<1>8. CASE NewProposal
  BY <1>8 DEF NewProposal, TornDown, Goroutines
<1>9. CASE MoveToNewRound
  <2>1. round' \in Rounds
    BY <1>9 DEF MoveToNewRound, TornDown
  <2>a. /\ name' = "newRound" /\ main' = "loop" /\ taken' = [by |-> None, round |-> 0]
        /\ UNCHANGED <<height, powers, ctx, ctxRound, phase, view, signal>>
    BY <1>9 DEF MoveToNewRound, TornDown
  <2>2. TypeOK'
    BY <1>9, <1>b, <2>1, <2>a
  <2> QED
    BY <1>9, <2>2 DEF MoveToNewRound, TornDown, Goroutines
<1>10. CASE RoundDone
  BY <1>10 DEF RoundDone, TornDown, Goroutines
<1>11. CASE SequenceCancelled
  BY <1>11 DEF SequenceCancelled, TornDown, Goroutines
<1> QED
  BY <1>1, <1>2, <1>3, <1>4, <1>5, <1>6, <1>7, <1>8, <1>9, <1>10, <1>11 DEF MainStep

\* A step of a goroutine preserves Inv.
LEMMA GoroutineStepInv ==
  ASSUME Inv, MessageStep \/ \E g \in Goroutines : GoroutineStep(g)
  PROVE  Inv'
<1> USE ParameterAssumption
    DEF Inv, TypeOK, SignalsAreCurrent, NameMatchesProposal, PowersInUse,
        Rounds, Phases, CurrentView, stateVars, mainVars, goroutineVars, Goes, Signals
<1>1. ASSUME NEW g \in Goroutines, GiveUp(g) PROVE Inv'
  BY <1>1 DEF GiveUp, WatchesContext, Goroutines
<1>2. ASSUME NEW g \in Goroutines, Return(g) PROVE Inv'
  BY <1>2 DEF Return, Goroutines
<1>3. ASSUME NEW g \in Goroutines, Subscribe(g) PROVE Inv'
  BY <1>3 DEF Subscribe, Goroutines
<1>4. CASE Expire
  BY <1>4 DEF Expire, Goroutines
<1>5. CASE StartRound
  BY <1>5 DEF StartRound, NewRound, Goroutines
<1>6. CASE EnterPrepare
  BY <1>6 DEF EnterPrepare, Goroutines
<1>7. CASE RunFin
  BY <1>7 DEF RunFin, Goroutines
<1>8. ASSUME NEW r \in Rounds, FindProposal(r) PROVE Inv'
  BY <1>8 DEF FindProposal, Goroutines
<1>9. ASSUME NEW r \in Rounds, FindCertificate(r) PROVE Inv'
  BY <1>9 DEF FindCertificate, Goroutines
<1>10. CASE SetProposal
  BY <1>10 DEF SetProposal, Goroutines
<1>11. CASE RunPrepare
  BY <1>11 DEF RunPrepare, Goroutines
<1>12. CASE RunCommit
  BY <1>12 DEF RunCommit, Goroutines
<1> QED
  BY <1>1, <1>2, <1>3, <1>4, <1>5, <1>6, <1>7, <1>8, <1>9, <1>10, <1>11, <1>12
  DEF MessageStep, GoroutineStep


\* The inductive invariant holds in every execution: at most the four goroutines
\* of one round exist, and what they promise is still true when it is used.
THEOREM Invariance == Spec => []Inv
<1>1. Inv /\ [Next]_vars => Inv'
  <2> SUFFICES ASSUME Inv, [Next]_vars PROVE Inv'
    OBVIOUS
  <2>1. CASE Next
    BY <2>1, MainStepInv, GoroutineStepInv DEF Next
  <2>2. CASE UNCHANGED vars
    BY <2>2 DEF vars, stateVars, mainVars, goroutineVars, Inv, TypeOK, SignalsAreCurrent,
                NameMatchesProposal, PowersInUse, CurrentView
  <2> QED
    BY <2>1, <2>2
<1> QED
  BY InitInv, <1>1, PTL DEF Spec

\* Type correctness: in particular every round that RunSequence moves to exists.
THEOREM TypeCorrect == Spec => []TypeOK
<1>1. Inv => TypeOK
  BY DEF Inv
<1> QED
  BY <1>1, Invariance, PTL

\* A goroutine never outlives the view it works for, so no signal of an old round
\* reaches a later one.
THEOREM SignalsAreCurrentHolds == Spec => []SignalsAreCurrent
<1>1. Inv => SignalsAreCurrent
  BY DEF Inv
<1> QED
  BY <1>1, Invariance, PTL

\* The state name and the accepted proposal agree whenever the worker is not
\* between the two writes that change them.
THEOREM NameMatchesProposalHolds == Spec => []NameMatchesProposal
<1>1. Inv => NameMatchesProposal
  BY DEF Inv
<1> QED
  BY <1>1, Invariance, PTL

\* insertBlock reads the decision that was signalled.
THEOREM DecisionStandsHolds == Spec => []DecisionStands
<1>1. Inv => DecisionStands
  <2> SUFFICES ASSUME Inv, main = "teardown", taken.by = "worker"
               PROVE  name = "fin" /\ accepted
    BY DEF DecisionStands
  <2>1. name = "fin" /\ phase["worker"] # "accepting"
    BY DEF Inv
  <2> QED
    BY <2>1 DEF Inv, NameMatchesProposal
<1> QED
  BY <1>1, Invariance, PTL

\* Every round of a height counts with the powers of that height.
THEOREM PowersInUseHolds == Spec => []PowersInUse
<1>1. Inv => PowersInUse
  BY DEF Inv
<1> QED
  BY <1>1, Invariance, PTL

\* Future proposals and expired timers lead to higher rounds.
THEOREM JumpsForwardHolds == Spec => JumpsForward
<1> DEFINE Jump == main = "teardown" /\ main' = "loop" /\ taken.by # "certificates"
                      => round' > round
<1>1. Inv /\ [Next]_vars => [Jump]_vars
  <2> SUFFICES ASSUME Inv, Next, main = "teardown", main' = "loop", taken.by # "certificates"
               PROVE  round' > round
    OBVIOUS
  <2>1. NewProposal \/ MoveToNewRound
    <3>1. ~MainStep => main' = main \/ main' = "init"
      BY DEF Next, Call, CancelCaller, GoroutineStep, MessageStep, GiveUp, Return, Subscribe,
             Expire, StartRound, EnterPrepare, RunFin, FindProposal, FindCertificate,
             SetProposal, RunPrepare, RunCommit, mainVars
    <3>2. MainStep => NewProposal \/ MoveToNewRound
      BY DEF MainStep, InitPowers, InitFails, StartOfRound, Receive, RoundCancelled,
             RoundDone, SequenceCancelled
    <3> QED
      BY <3>1, <3>2
  <2>2. CASE NewProposal
    BY <2>2 DEF NewProposal, TornDown, Inv
  <2>3. CASE MoveToNewRound
    <3>1. taken.by = "timer" /\ round' = round + 1
      BY <2>3 DEF MoveToNewRound, TornDown
    <3>2. round \in Int
      BY ParameterAssumption DEF Inv, TypeOK, Rounds
    <3> QED
      BY <3>1, <3>2
  <2> QED
    BY <2>1, <2>2, <2>3
<1> QED
  BY <1>1, Invariance, PTL DEF Spec, JumpsForward

-----------------------------------------------------------------------------
(* RunSequence implements Validator *)

\* What the mapping needs besides Inv: when a worker starts, and while it waits as
\* a proposer, what it has accepted; and what the two signals that lead to
\* another round say, from the send to the end of the teardown.
MappingInv ==
    /\ main \in {"init", "loop"} \/ phase["worker"] = "starting" =>
          /\ roundStarted <=> accepted
          /\ accepted => round \notin ProposerRounds
    /\ phase["worker"] = "building" => round \in ProposerRounds /\ ~accepted
    /\ phase["worker"] = "accepting" => name = "newRound"
    /\ phase["worker"] = "states" /\ round \in ProposerRounds => accepted
    /\ phase["certificates"] \in {"starting", "waiting"} => signal["certificates"] = 0
    /\ phase["certificates"] = "signalling" => signal["certificates"] > 0
    /\ phase["proposals"] = "signalling" => signal["proposals"] \notin ProposerRounds
    /\ main = "teardown" =>
          /\ taken.by = "certificates" => taken.round = signal["certificates"] /\ taken.round > 0
                                          /\ phase["certificates"] \in {"returning", "ended"}
          /\ taken.by = "proposals" => taken.round \notin ProposerRounds

LEMMA InitMapping == Init => MappingInv
BY DEF Init, MappingInv, Goroutines

LEMMA MainStepMapping ==
  ASSUME Inv, MappingInv, MainStep \/ CancelCaller \/ \E h \in Heights : Call(h)
  PROVE  MappingInv'
<1> USE ParameterAssumption
    DEF Inv, TypeOK, NameMatchesProposal, MappingInv, Rounds, Phases, stateVars, goroutineVars
<1>1. ASSUME NEW h \in Heights, Call(h) PROVE MappingInv'
  BY <1>1 DEF Call, Goroutines
<1>2. CASE CancelCaller
  BY <1>2 DEF CancelCaller
<1>3. CASE InitPowers
  BY <1>3 DEF InitPowers, Goroutines
<1>4. CASE InitFails
  BY <1>4 DEF InitFails, Goroutines
<1>5. CASE StartOfRound
  BY <1>5 DEF StartOfRound, Goroutines
<1>6. ASSUME NEW g \in Goroutines, Receive(g) PROVE MappingInv'
  BY <1>6 DEF Receive, Goroutines
<1>7. CASE RoundCancelled
  BY <1>7 DEF RoundCancelled, Goroutines
<1>8. CASE NewProposal
  BY <1>8 DEF NewProposal, TornDown, Goroutines
<1>9. CASE MoveToNewRound
  BY <1>9 DEF MoveToNewRound, TornDown, Goroutines
<1>10. CASE RoundDone
  BY <1>10 DEF RoundDone, TornDown, Goroutines
<1>11. CASE SequenceCancelled
  BY <1>11 DEF SequenceCancelled, TornDown, Goroutines
<1> QED
  BY <1>1, <1>2, <1>3, <1>4, <1>5, <1>6, <1>7, <1>8, <1>9, <1>10, <1>11 DEF MainStep

LEMMA GoroutineStepMapping ==
  ASSUME Inv, MappingInv, MessageStep \/ \E g \in Goroutines : GoroutineStep(g)
  PROVE  MappingInv'
<1> USE ParameterAssumption
    DEF Inv, TypeOK, NameMatchesProposal, SignalsAreCurrent, CurrentView, MappingInv, Rounds,
        Phases, stateVars, mainVars, goroutineVars, Goes, Signals
<1>1. ASSUME NEW g \in Goroutines, GiveUp(g) PROVE MappingInv'
  BY <1>1 DEF GiveUp, WatchesContext, Goroutines
<1>2. ASSUME NEW g \in Goroutines, Return(g) PROVE MappingInv'
  BY <1>2 DEF Return, Goroutines
<1>3. ASSUME NEW g \in Goroutines, Subscribe(g) PROVE MappingInv'
  BY <1>3 DEF Subscribe, Goroutines
<1>4. CASE Expire
  BY <1>4 DEF Expire, Goroutines
<1>5. CASE StartRound
  BY <1>5 DEF StartRound, NewRound, Goroutines
<1>6. CASE EnterPrepare
  BY <1>6 DEF EnterPrepare, Goroutines
<1>7. CASE RunFin
  BY <1>7 DEF RunFin, Goroutines
<1>8. ASSUME NEW r \in Rounds, FindProposal(r) PROVE MappingInv'
  BY <1>8 DEF FindProposal, Goroutines
<1>9. ASSUME NEW r \in Rounds, FindCertificate(r) PROVE MappingInv'
  BY <1>9 DEF FindCertificate, Goroutines
<1>10. CASE SetProposal
  BY <1>10 DEF SetProposal, Goroutines
<1>11. CASE RunPrepare
  BY <1>11 DEF RunPrepare, Goroutines
<1>12. CASE RunCommit
  BY <1>12 DEF RunCommit, Goroutines
<1> QED
  BY <1>1, <1>2, <1>3, <1>4, <1>5, <1>6, <1>7, <1>8, <1>9, <1>10, <1>11, <1>12
  DEF MessageStep, GoroutineStep

\* The steps of the goroutines that the abstract validator does not see.
LEMMA HiddenSteps ==
  ASSUME Inv, MappingInv,
         \/ CancelCaller \/ StartOfRound \/ RoundCancelled \/ Expire \/ RunFin \/ SetProposal
         \/ \E g \in Goroutines : Receive(g) \/ GiveUp(g) \/ Return(g) \/ Subscribe(g)
         \/ \E r \in Rounds : FindProposal(r)
  PROVE  UNCHANGED AbstractValidator!vars
<1> SUFFICES /\ UNCHANGED <<height, round, name, AcceptedBar, WorkerBar, RccBar>>
             /\ (roundStarted /\ ~FirstProposal)' = (roundStarted /\ ~FirstProposal)
  BY DEF AbstractValidator!vars
<1> USE ParameterAssumption
    DEF Inv, TypeOK, NameMatchesProposal, SignalsAreCurrent, CurrentView, MappingInv, Rounds,
        Phases, stateVars, mainVars, goroutineVars, Goes, Signals,
        AcceptedBar, WorkerBar, RccBar, FirstProposal
<1>1. CASE CancelCaller
  BY <1>1 DEF CancelCaller
<1>2. CASE StartOfRound
  BY <1>2 DEF StartOfRound, Goroutines
<1>3. CASE RoundCancelled
  BY <1>3 DEF RoundCancelled, Goroutines
<1>4. CASE Expire
  BY <1>4 DEF Expire, Goroutines
<1>5. CASE RunFin
  BY <1>5 DEF RunFin, Goroutines
<1>6. CASE SetProposal
  BY <1>6 DEF SetProposal, Goroutines
<1>7. ASSUME NEW g \in Goroutines, Receive(g)
      PROVE  /\ UNCHANGED <<height, round, name, AcceptedBar, WorkerBar, RccBar>>
             /\ (roundStarted /\ ~FirstProposal)' = (roundStarted /\ ~FirstProposal)
  BY <1>7 DEF Receive, Goroutines
<1>8. ASSUME NEW g \in Goroutines, GiveUp(g)
      PROVE  /\ UNCHANGED <<height, round, name, AcceptedBar, WorkerBar, RccBar>>
             /\ (roundStarted /\ ~FirstProposal)' = (roundStarted /\ ~FirstProposal)
  BY <1>8 DEF GiveUp, WatchesContext, Goroutines
<1>9. ASSUME NEW g \in Goroutines, Return(g)
      PROVE  /\ UNCHANGED <<height, round, name, AcceptedBar, WorkerBar, RccBar>>
             /\ (roundStarted /\ ~FirstProposal)' = (roundStarted /\ ~FirstProposal)
  BY <1>9 DEF Return, Goroutines
<1>10. ASSUME NEW g \in Goroutines, Subscribe(g)
       PROVE  /\ UNCHANGED <<height, round, name, AcceptedBar, WorkerBar, RccBar>>
              /\ (roundStarted /\ ~FirstProposal)' = (roundStarted /\ ~FirstProposal)
  BY <1>10 DEF Subscribe, Goroutines
<1>11. ASSUME NEW r \in Rounds, FindProposal(r)
       PROVE  /\ UNCHANGED <<height, round, name, AcceptedBar, WorkerBar, RccBar>>
              /\ (roundStarted /\ ~FirstProposal)' = (roundStarted /\ ~FirstProposal)
  BY <1>11 DEF FindProposal, Goroutines
<1> QED
  BY <1>1, <1>2, <1>3, <1>4, <1>5, <1>6, <1>7, <1>8, <1>9, <1>10, <1>11

\* The cases of the select, once teardown has returned, and the calls.
LEMMA MainSimulates ==
  ASSUME Inv, MappingInv,
         \/ \E h \in Heights : Call(h)
         \/ InitPowers \/ InitFails \/ NewProposal \/ MoveToNewRound \/ RoundDone
         \/ SequenceCancelled
  PROVE  AbstractValidator!Next
<1> USE ParameterAssumption
    DEF Inv, TypeOK, NameMatchesProposal, SignalsAreCurrent, CurrentView, MappingInv, Rounds,
        Phases, stateVars, mainVars, goroutineVars, TornDown,
        AcceptedBar, WorkerBar, RccBar, FirstProposal, AbstractValidator!view
<1>1. ASSUME NEW h \in Heights, Call(h) PROVE AbstractValidator!Call(h)
  BY <1>1 DEF Call, Goroutines, AbstractValidator!Call
<1>2. CASE InitPowers
  <2>1. AbstractValidator!InitPowers(TRUE)
    BY <1>2 DEF InitPowers, Goroutines, AbstractValidator!InitPowers
  <2> QED
    BY <2>1 DEF AbstractValidator!Next
<1>3. CASE InitFails
  <2>1. AbstractValidator!InitPowers(FALSE)
    BY <1>3 DEF InitFails, Goroutines, AbstractValidator!InitPowers
  <2> QED
    BY <2>1 DEF AbstractValidator!Next
<1>4. CASE NewProposal
  <2>1. AbstractValidator!FutureProposal(taken.round)
    BY <1>4 DEF NewProposal, Goroutines, AbstractValidator!FutureProposal,
         AbstractValidator!MoveToNewRound, AbstractValidator!InRound
  <2> QED
    BY <2>1 DEF AbstractValidator!Next
<1>5. CASE MoveToNewRound
  <2>1. CASE taken.by = "timer"
    <3>1. AbstractValidator!RoundExpired
      BY <1>5, <2>1 DEF MoveToNewRound, Goroutines, AbstractValidator!RoundExpired,
           AbstractValidator!MoveToNewRound, AbstractValidator!InRound
    <3> QED
      BY <3>1 DEF AbstractValidator!Next
  <2>2. CASE taken.by = "certificates"
    <3>1. AbstractValidator!RoundCertificate
      BY <1>5, <2>2 DEF MoveToNewRound, Goroutines, AbstractValidator!RoundCertificate,
           AbstractValidator!MoveToNewRound, AbstractValidator!InRound
    <3> QED
      BY <3>1 DEF AbstractValidator!Next
  <2> QED
    BY <1>5, <2>1, <2>2 DEF MoveToNewRound
<1>6. CASE RoundDone
  <2>1. AbstractValidator!RoundDone
    BY <1>6 DEF RoundDone, Goroutines, AbstractValidator!RoundDone, AbstractValidator!Returns
  <2> QED
    BY <2>1 DEF AbstractValidator!Next
<1>7. CASE SequenceCancelled
  <2>1. AbstractValidator!Cancel
    BY <1>7 DEF SequenceCancelled, Goroutines, AbstractValidator!Cancel,
         AbstractValidator!InRound, AbstractValidator!Returns
  <2> QED
    BY <2>1 DEF AbstractValidator!Next
<1> QED
  BY <1>1, <1>2, <1>3, <1>4, <1>5, <1>6, <1>7 DEF AbstractValidator!Next

\* The steps of the worker and of the watcher for certificates.
LEMMA GoroutineSimulates ==
  ASSUME Inv, MappingInv,
         \/ StartRound \/ EnterPrepare \/ RunPrepare \/ RunCommit
         \/ \E r \in Rounds : FindCertificate(r)
  PROVE  [AbstractValidator!Next]_(AbstractValidator!vars)
<1> USE ParameterAssumption
    DEF Inv, TypeOK, NameMatchesProposal, SignalsAreCurrent, CurrentView, MappingInv, Rounds,
        Phases, stateVars, mainVars, goroutineVars, Goes, Signals,
        AcceptedBar, WorkerBar, RccBar, FirstProposal, AbstractValidator!view
<1>1. CASE StartRound
  <2>1. CASE round = 0 /\ round \in ProposerRounds
    <3>1. /\ UNCHANGED <<height, round, name, AcceptedBar, WorkerBar, RccBar>>
          /\ (roundStarted /\ ~FirstProposal)' = (roundStarted /\ ~FirstProposal)
      BY <1>1, <2>1 DEF StartRound, NewRound, Goroutines
    <3> QED
      BY <3>1 DEF AbstractValidator!vars
  <2>2. CASE ~(round = 0 /\ round \in ProposerRounds)
    <3>1. AbstractValidator!StartRound
      BY <1>1, <2>2 DEF StartRound, NewRound, Goroutines, AbstractValidator!StartRound,
           AbstractValidator!NewRound
    <3> QED
      BY <3>1 DEF AbstractValidator!Next
  <2> QED
    BY <2>1, <2>2
<1>2. CASE EnterPrepare
  <2>1. AbstractValidator!AcceptProposal
    BY <1>2 DEF EnterPrepare, Goroutines, AbstractValidator!AcceptProposal
  <2>2. CASE FirstProposal
    <3>1. AbstractValidator!StartRoundAsFirstProposer
      BY <1>2, <2>1, <2>2 DEF EnterPrepare, Goroutines,
           AbstractValidator!StartRoundAsFirstProposer
    <3> QED
      BY <3>1 DEF AbstractValidator!Next
  <2>3. CASE ~FirstProposal /\ round \in ProposerRounds
    <3>1. AbstractValidator!BuildProposal
      BY <1>2, <2>1, <2>3 DEF EnterPrepare, Goroutines, AbstractValidator!BuildProposal
    <3> QED
      BY <3>1 DEF AbstractValidator!Next
  <2>4. CASE ~FirstProposal /\ round \notin ProposerRounds
    <3>1. AbstractValidator!RunNewRound
      BY <1>2, <2>1, <2>4 DEF EnterPrepare, Goroutines, AbstractValidator!RunNewRound
    <3> QED
      BY <3>1 DEF AbstractValidator!Next
  <2> QED
    BY <2>2, <2>3, <2>4
<1>3. CASE RunPrepare
  <2>1. AbstractValidator!RunVotes("prepare", "commit")
    BY <1>3 DEF RunPrepare, Goroutines, AbstractValidator!RunVotes
  <2> QED
    BY <2>1 DEF AbstractValidator!Next
<1>4. CASE RunCommit
  <2>1. AbstractValidator!RunVotes("commit", "fin")
    BY <1>4 DEF RunCommit, Goroutines, AbstractValidator!RunVotes
  <2> QED
    BY <2>1 DEF AbstractValidator!Next
<1>5. ASSUME NEW r \in Rounds, FindCertificate(r) PROVE AbstractValidator!Next
  <2>1. AbstractValidator!WatchForRoundChangeCertificates(r)
    BY <1>5 DEF FindCertificate, Goroutines, AbstractValidator!WatchForRoundChangeCertificates
  <2> QED
    BY <2>1 DEF AbstractValidator!Next
<1> QED
  BY <1>1, <1>2, <1>3, <1>4, <1>5

\* The goroutines and the channels of RunSequence implement the validator that IBFT
\* has: no order of their steps, signals and cancellations does anything else.
THEOREM Refinement == Spec => ImplementsValidator
<1>1. Init => AbstractValidator!Init
  BY ParameterAssumption DEF Init, AbstractValidator!Init, AcceptedBar, WorkerBar, RccBar,
       FirstProposal, Goroutines
<1>2. ASSUME Inv, MappingInv, [Next]_vars
      PROVE  MappingInv' /\ [AbstractValidator!Next]_(AbstractValidator!vars)
  <2>1. CASE UNCHANGED vars
    <3>1. MappingInv'
      BY <1>2, <2>1 DEF MappingInv, vars, stateVars, mainVars, goroutineVars
    <3>2. UNCHANGED AbstractValidator!vars
      BY <2>1 DEF vars, stateVars, mainVars, goroutineVars, AbstractValidator!vars, AcceptedBar,
           WorkerBar, RccBar, FirstProposal
    <3> QED
      BY <3>1, <3>2
  <2>2. CASE Next
    <3>1. MappingInv'
      BY <1>2, <2>2, MainStepMapping, GoroutineStepMapping DEF Next
    <3>2. [AbstractValidator!Next]_(AbstractValidator!vars)
      BY <1>2, <2>2, HiddenSteps, MainSimulates, GoroutineSimulates
      DEF Next, MainStep, GoroutineStep, MessageStep
    <3> QED
      BY <3>1, <3>2
  <2> QED
    BY <1>2, <2>1, <2>2
<1> QED
  BY <1>1, <1>2, InitMapping, Invariance, PTL
  DEF Spec, ImplementsValidator, AbstractValidator!Spec
=============================================================================
