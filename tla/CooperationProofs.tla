------------------------- MODULE CooperationProofs -------------------------
(***************************************************************************)
(* Theorems of the specification `Cooperation', for any identifiers, kits, *)
(* distances, durations and any saturation point of the clock.             *)
(***************************************************************************)
EXTENDS Cooperation, CooperationDomainProofs

\* The inductive invariant.  Consistent is what the next step's effect relies on
\* (which flags a phase stands for, who is down), InTime what the deadlines rely on.
IInv ==
    /\ Consistent(op)
    /\ InTime(op, clock)
    /\ clock \in Elapsed
    /\ answer \in Answers

\* Any call, whatever its arguments, is one of the steps of the domain.
LEMMA CallsAreSteps ==
    ASSUME IInv, Next, ~Tick
    PROVE  StepOf(op, op', clock) /\ UNCHANGED clock /\ answer' \in Answers
<1> USE DEF IInv, Take
<1>1. ASSUME RetryStartCall PROVE StepOf(op, op', clock) /\ UNCHANGED clock
  BY <1>1 DEF RetryStartCall, RetryStart, Result, StepOf
<1>2. ASSUME ArriveAnchorCall PROVE StepOf(op, op', clock) /\ UNCHANGED clock
  BY <1>2, ArriveAnchorSteps DEF ArriveAnchorCall
<1>3. ASSUME PingCall PROVE StepOf(op, op', clock) /\ UNCHANGED clock
  BY <1>3, PingSteps DEF PingCall
<1>4. ASSUME ArriveRunnerCall PROVE StepOf(op, op', clock) /\ UNCHANGED clock
  BY <1>4, ArriveRunnerSteps DEF ArriveRunnerCall
<1>5. ASSUME StartReviveCall PROVE StepOf(op, op', clock) /\ UNCHANGED clock
  BY <1>5, StartReviveSteps DEF StartReviveCall
<1>6. ASSUME ObserveReviveCall PROVE StepOf(op, op', clock) /\ UNCHANGED clock
  BY <1>6, ObserveReviveSteps, InputsAssumption DEF ObserveReviveCall, Consistent
<1>7. ASSUME CompleteWardenCall PROVE StepOf(op, op', clock) /\ UNCHANGED clock
  BY <1>7, CompleteWardenSteps DEF CompleteWardenCall
<1>8. ASSUME DefeatCall PROVE StepOf(op, op', clock) /\ UNCHANGED clock
  BY <1>8, DefeatParticipantSteps DEF DefeatCall
<1>9. ASSUME DisconnectCall PROVE StepOf(op, op', clock) /\ UNCHANGED clock
  BY <1>9, DisconnectSteps DEF DisconnectCall
<1>10. ASSUME ObserveDeadlinesCall PROVE StepOf(op, op', clock) /\ UNCHANGED clock
  BY <1>10, ObserveDeadlinesSteps DEF ObserveDeadlinesCall
<1>11. answer' \in Answers
  BY DEF Next, RetryStartCall, ArriveAnchorCall, PingCall, ArriveRunnerCall,
         StartReviveCall, ObserveReviveCall, CompleteWardenCall, DefeatCall,
         DisconnectCall, ObserveDeadlinesCall, RetryStart, ArriveAnchor, Ping,
         ArriveRunner, StartRevive, ObserveRevive, CompleteWarden, DefeatParticipant,
         Disconnect, ObserveDeadlines, Observe, Result, Answers
<1> QED
  BY <1>1, <1>2, <1>3, <1>4, <1>5, <1>6, <1>7, <1>8, <1>9, <1>10, <1>11 DEF Next

\* The first states satisfy the inductive invariant.
LEMMA InitIInv == Init => IInv
<1> SUFFICES ASSUME Init PROVE IInv
  OBVIOUS
<1>1. PICK id \in OperationIds, profile \in Admissions, health \in [Roles -> Healths] :
          CanStart(profile, health) /\ op = StartWithHealth(id, profile, health)
  BY DEF Init
<1>2. health \in [Roles -> Nat]
  BY InputsAssumption
<1>3. Consistent(op)
  BY <1>1, <1>2, StartConsistent DEF Admissions
<1>4. InTime(op, clock)
  BY <1>1 DEF StartWithHealth, InTime
<1> QED
  BY <1>3, <1>4, DurationsAssumption DEF Init, IInv, Elapsed, Answers

\* Every call and tick keeps it.
LEMMA NextIInv == IInv /\ [Next]_vars => IInv'
<1> SUFFICES ASSUME IInv, [Next]_vars PROVE IInv'
  OBVIOUS
<1>1. CASE Tick
  <2>1. clock' \in Elapsed /\ clock <= clock' /\ op' = op /\ answer' = answer
    BY <1>1, DurationsAssumption DEF Tick, IInv, Elapsed
  <2>2. InTime(op, clock')
    BY <2>1, InTimeLater DEF IInv, Consistent
  <2> QED
    BY <2>1, <2>2 DEF IInv
<1>2. CASE Next /\ ~Tick
  <2>1. StepOf(op, op', clock) /\ clock' = clock /\ answer' \in Answers
    BY <1>2, CallsAreSteps
  <2>2. Consistent(op') /\ InTime(op', clock)
    BY <2>1, StepConsistent, StepInTime DEF IInv
  <2> QED
    BY <2>1, <2>2 DEF IInv
<1>3. CASE UNCHANGED vars
  BY <1>3 DEF IInv, vars
<1> QED
  BY <1>1, <1>2, <1>3

\* It holds after any sequence of calls, retries and ticks of the operation.
THEOREM Invariance == Spec => []IInv
  BY InitIInv, NextIInv, PTL DEF Spec

-----------------------------------------------------------------------------
(* The invariants the runs check *)

\* Types, flags against phase, phase against outcome, life against health and the one
\* revive agree in every operation.
THEOREM Consistency == Spec => []StateIsConsistent
<1>1. IInv => StateIsConsistent
  BY DEF IInv, Consistent, StateIsConsistent, TypeOK, ContributionsMatchPhase,
         PhaseMatchesOutcome, LifeMatchesHealth, RevivedAtMostOnce
<1> QED
  BY <1>1, Invariance, PTL

\* The accepted times of every operation are in order and within their limits.
THEOREM Safety == Spec => []AcceptedInTime
<1>1. IInv => AcceptedInTime
  BY DEF IInv, Consistent, AcceptedInTime
<1> QED
  BY <1>1, Invariance, PTL

-----------------------------------------------------------------------------
(* What a step may do *)

\* An operation that ended never changes again.
THEOREM EndIsFinal == Spec => TerminalIsFinal
<1>1. IInv /\ [Next]_vars => [~Running(op) => op' = op]_vars
  <2> SUFFICES ASSUME IInv, Next, ~Running(op) PROVE op' = op
    BY DEF vars
  <2>1. CASE Tick
    BY <2>1 DEF Tick
  <2>2. CASE ~Tick
    BY <2>2, CallsAreSteps, TerminalStutters
  <2> QED
    BY <2>1, <2>2
<1> QED
  BY <1>1, Invariance, PTL DEF Spec, TerminalIsFinal

\* The deadlines as the code computes them are those of plain arithmetic: no sum of
\* an accepted time and a duration saturates.
LEMMA DeadlinesInTime ==
    ASSUME IInv, Running(op)
    PROVE  /\ PingExpired(op, clock) <=> PingIsLate
           /\ ReviveExpired(op, clock) <=> ReviveIsLate
<1>1. op \in CooperationStates /\ clock \in Nat
  BY DurationsAssumption DEF IInv, Consistent, Elapsed
<1>2. CASE op.phase = "AwaitingRunner"
  <2>1. op.ping # None
    BY <1>2 DEF IInv, Consistent, ContributionsAgree, RecordedIn
  <2>2. op.ping.at \in Nat /\ op.ping.at <= OperationDuration
    BY <1>1, <2>1, DurationsAssumption
    DEF IInv, InTime, CooperationStates, OperationRecords, Elapsed
  <2> QED
    BY <1>1, <1>2, <2>2, DurationsAssumption
    DEF PingExpired, ReviveExpired, PingIsLate, ReviveIsLate, StrictlyAfter
<1>3. CASE op.phase \in {"RunnerDowned", "ReviveChannel"}
  <2>1. op.downedAt # None
    BY <1>3 DEF IInv, Consistent, ContributionsAgree, RecordedIn
  <2>2. op.downedAt \in Nat /\ op.downedAt <= OperationDuration
    BY <1>1, <2>1, DurationsAssumption DEF IInv, InTime, CooperationStates, Elapsed
  <2> QED
    BY <1>1, <1>3, <2>2, DurationsAssumption
    DEF PingExpired, ReviveExpired, PingIsLate, ReviveIsLate, StrictlyAfter
<1>4. CASE op.phase \notin {"AwaitingRunner", "RunnerDowned", "ReviveChannel"}
  BY <1>4, DurationsAssumption DEF PingExpired, ReviveExpired, PingIsLate, ReviveIsLate
<1> QED
  BY <1>2, <1>3, <1>4

\* Changes are timely, and a timeout is the one that is due.
THEOREM Timely == Spec => DeadlinesDecide
<1> DEFINE D == op' # op =>
                  /\ op'.terminal = "FailedPingTimeout" <=> PingIsLate
                  /\ op'.terminal = "FailedReviveTimeout" <=> ReviveIsLate
                  /\ op'.terminal = "FailedOperationTimeout" <=>
                        OperationIsLate /\ ~PingIsLate /\ ~ReviveIsLate
<1>1. ASSUME IInv, StepOf(op, op', clock), op' # op
      PROVE  D
  <2>1. op \in CooperationStates /\ Consistent(op')
    BY <1>1, StepConsistent DEF IInv, Consistent
  <2>2. CASE /\ Running(op) /\ Expired(op, clock)
             /\ op' = CommitTerminal(op, TimeoutAt(op, clock))
    <3>1. op'.terminal = TimeoutAt(op, clock)
      BY <2>1, <2>2, CommitTerminalSets
    <3>2. ~(PingIsLate /\ ReviveIsLate)
      BY DEF PingIsLate, ReviveIsLate
    <3> QED
      BY <1>1, <2>2, <3>1, <3>2, DeadlinesInTime DEF Expired, TimeoutAt, OperationIsLate
  <2>3. CASE Running(op) /\ ~Expired(op, clock) /\ LiveStepOf(op, op', clock)
    <3>1. op'.terminal \notin Timeouts
      BY <2>1, <2>3, LiveStepEnds DEF Running, Timeouts
    <3> QED
      BY <1>1, <2>3, <3>1, DeadlinesInTime DEF Expired, Timeouts, OperationIsLate
  <2> QED
    BY <1>1, <2>2, <2>3 DEF StepOf
<1>2. IInv /\ [Next]_vars => [D]_vars
  <2> SUFFICES ASSUME IInv, Next, op' # op PROVE D
    BY DEF vars
  <2>1. ~Tick
    BY DEF Tick
  <2> QED
    BY <1>1, <2>1, CallsAreSteps
<1> QED
  BY <1>2, Invariance, PTL DEF Spec, DeadlinesDecide

-----------------------------------------------------------------------------
(* The operation implements its contract *)

\* The contract records in the order of the domain's phases.
LEMMA SameOrder == Contract!Before = RecordedBefore
  BY DEF Contract!Before, RecordedBefore

\* The methods, called in any order and at any time, keep the promise of the relay:
\* contributions one by one and in order, in time, ending once.
THEOREM Implements == Spec => ImplementsContract
<1> USE DEF Contract!vars
<1> DEFINE Seen(s) == IF Running(s) THEN "Running"
                      ELSE IF s.terminal = "Succeeded" THEN "Succeeded" ELSE "Failed"
<1>1. Init => Contract!Init
  BY DEF Init, Contract!Init, StartWithHealth, Running
<1>2. IInv /\ [Next]_vars => [Contract!Next]_(Contract!vars)
  <2> SUFFICES ASSUME IInv, [Next]_vars PROVE [Contract!Next]_(Contract!vars)
    OBVIOUS
  <2>1. CASE Tick
    <3>1. clock' \in Nat /\ clock' > clock /\ op' = op
      BY <2>1, DurationsAssumption DEF Tick, IInv, Elapsed
    <3> QED
      BY <3>1 DEF Contract!Next, Contract!Pass
  <2>2. CASE Next /\ ~Tick
    <3>0. StepOf(op, op', clock) /\ clock' = clock /\ Consistent(op)
      BY <2>2, CallsAreSteps DEF IInv
    <3>1. CASE op'.contributions = op.contributions /\ op'.terminal = op.terminal
      BY <3>0, <3>1 DEF Running
    <3>2. ASSUME Running(op), ~Expired(op, clock),
                 NEW c \in {"anchor_arrived", "pinged", "runner_arrived", "revived"},
                 op.contributions = Contract!Before[c],
                 op'.contributions = op.contributions \cup {c},
                 op'.terminal = op.terminal
          PROVE  Contract!Contribute(c) /\ c \in DOMAIN Contract!Before
      <4>1. clock <= OperationDuration
        BY <3>2, DurationsAssumption DEF Expired, IInv, Elapsed
      <4>2. Running(op') /\ c # "warden_completed" /\ c \in DOMAIN Contract!Before
        BY <3>2 DEF Running, Contract!Before
      <4> QED
        BY <3>0, <3>2, <4>1, <4>2 DEF Contract!Contribute
    <3>3. ASSUME Running(op), ~Expired(op, clock),
                 op.contributions = Contract!Before["warden_completed"],
                 op'.contributions = op.contributions \cup {"warden_completed"},
                 op'.terminal = "Succeeded"
          PROVE  /\ Contract!Contribute("warden_completed")
                 /\ "warden_completed" \in DOMAIN Contract!Before
      <4>1. clock <= OperationDuration
        BY <3>3, DurationsAssumption DEF Expired, IInv, Elapsed
      <4>2. ~Running(op') /\ "warden_completed" \in DOMAIN Contract!Before
        BY <3>3 DEF Running, Contract!Before
      <4> QED
        BY <3>0, <3>3, <4>1, <4>2 DEF Contract!Contribute
    <3>4. ASSUME Running(op), op'.contributions = op.contributions,
                 op'.terminal \in Failures
          PROVE  Contract!Fail
      <4>1. ~Running(op') /\ op'.terminal # "Succeeded"
        BY <3>4 DEF Running, Failures, Timeouts
      <4> QED
        BY <3>0, <3>4, <4>1 DEF Contract!Fail
    <3> QED
      BY <3>0, <3>1, <3>2, <3>3, <3>4, StepRecords, SameOrder DEF Contract!Next
  <2>3. CASE UNCHANGED vars
    BY <2>3 DEF vars, Running
  <2> QED
    BY <2>1, <2>2, <2>3
<1> QED
  BY <1>1, <1>2, Invariance, PTL DEF Spec, ImplementsContract, Contract!Spec
=============================================================================
