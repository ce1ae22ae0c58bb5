---------------------------- MODULE Cooperation ----------------------------
(***************************************************************************)
(* One cooperation operation driven by its callers: any method, with any   *)
(* arguments, at any time of a clock that never goes back.                 *)
(***************************************************************************)
EXTENDS CooperationDomain

CONSTANTS
    Distances,      \* squared distances a caller may measure
    Healths         \* current health a participant may be admitted with

ASSUME InputsAssumption == Distances \subseteq Int /\ Healths \subseteq Nat

VARIABLES
    op,         \* the CooperationState
    clock,      \* elapsed time since the operation started, saturating
    answer      \* what the last call was told

vars == <<op, clock, answer>>

Admissions == [Roles -> Profiles]

Init ==
    /\ \E id \in OperationIds, profile \in Admissions, health \in [Roles -> Healths] :
          /\ CanStart(profile, health)
          /\ op = StartWithHealth(id, profile, health)
    /\ clock = 0
    /\ answer = "Applied"

\* The caller keeps the state and the answer of a method.
Take(result) ==
    /\ op' = result.state
    /\ answer' = result.answer
    /\ UNCHANGED clock

-----------------------------------------------------------------------------

RetryStartCall ==
    \E id \in OperationIds, profile \in Admissions, health \in [Roles -> Healths] :
        Take(RetryStart(op, id, profile, health))

ArriveAnchorCall ==
    \E role \in Roles, target \in Targets : Take(ArriveAnchor(op, role, target, clock))

PingCall ==
    \E role \in Roles, target \in Targets, id \in OperationIds :
        Take(Ping(op, role, target, id, clock))

ArriveRunnerCall ==
    \E role \in Roles, target \in Targets : Take(ArriveRunner(op, role, target, clock))

StartReviveCall ==
    \E role, targetRole \in Roles, distance \in Distances, id \in OperationIds :
        Take(StartRevive(op, role, targetRole, distance, id, clock))

ObserveReviveCall ==
    \E role, targetRole \in Roles, distance \in Distances, id \in OperationIds :
        Take(ObserveRevive(op, role, targetRole, distance, id, clock))

CompleteWardenCall == Take(CompleteWarden(op, clock))

DefeatCall == \E role \in Roles : Take(DefeatParticipant(op, role, clock))

DisconnectCall == Take(Disconnect(op, clock))

ObserveDeadlinesCall == Take(ObserveDeadlines(op, clock))

Tick ==
    /\ clock < MaxElapsed
    /\ clock' = clock + 1
    /\ UNCHANGED <<op, answer>>

Next ==
    \/ RetryStartCall
    \/ ArriveAnchorCall
    \/ PingCall
    \/ ArriveRunnerCall
    \/ StartReviveCall
    \/ ObserveReviveCall
    \/ CompleteWardenCall
    \/ DefeatCall
    \/ DisconnectCall
    \/ ObserveDeadlinesCall
    \/ Tick

Spec == Init /\ [][Next]_vars

-----------------------------------------------------------------------------
(* Safety *)

\* Every field of the operation, the clock and the answer keep their types.
TypeOK ==
    /\ op \in CooperationStates
    /\ clock \in Elapsed
    /\ answer \in Answers

\* The five flags and the phase are written separately by each method; they never
\* disagree: a running operation has exactly the flags of its phase, a failed one
\* those of some earlier phase, and all five are set exactly when it succeeded.
ContributionsMatchPhase == ContributionsAgree(op)

\* Phase and terminal outcome are one fact written in two places, and the channel
\* is open in one phase only: a terminal commit must close it.
PhaseMatchesOutcome == OutcomeAgrees(op)

\* Health and life agree for both roles through downing, revive and defeat; only
\* the Runner is ever downed, and a defeat is the outcome of the operation.
LifeMatchesHealth == LifeAgrees(op)

\* The Runner is revived at most once, by the operation on record, however often
\* channels are opened, cancelled, observed and retried.
RevivedAtMostOnce == RevivedOnce(op)

\* The state of an operation never disagrees with itself, whatever is called and when.
StateIsConsistent ==
    /\ TypeOK
    /\ ContributionsMatchPhase
    /\ PhaseMatchesOutcome
    /\ LifeMatchesHealth
    /\ RevivedAtMostOnce

\* The accepted times are ordered and within the limits that follow them, so that
\* TimeReversal and the overflow of a deadline cannot happen.
AcceptedInTime == InTime(op, clock)

\* An operation that ended, with or without a reward, never changes again: no late
\* call, retry or departure turns a failure into a success or the reverse.
TerminalIsFinal == [][~Running(op) => op' = op]_vars

PingIsLate      == op.phase = "AwaitingRunner" /\ clock > op.ping.at + PingTTL
ReviveIsLate    == /\ op.phase \in {"RunnerDowned", "ReviveChannel"}
                   /\ clock > op.downedAt + ReviveWindow
OperationIsLate == clock > OperationDuration

\* A step that finds a deadline passed, whichever call it is, ends the operation with
\* the timeout that is due, the one of the phase before the one of the operation; and
\* no timeout is early: at the limit itself every call is still in time.
DeadlinesDecide ==
    [][op' # op =>
        /\ op'.terminal = "FailedPingTimeout" <=> PingIsLate
        /\ op'.terminal = "FailedReviveTimeout" <=> ReviveIsLate
        /\ op'.terminal = "FailedOperationTimeout" <=>
              OperationIsLate /\ ~PingIsLate /\ ~ReviveIsLate]_vars

-----------------------------------------------------------------------------
(* The contract this operation implements *)

Contract == INSTANCE RelayContract WITH
    Limit   <- OperationDuration,
    done    <- op.contributions,
    now     <- clock,
    outcome <- IF Running(op) THEN "Running"
               ELSE IF op.terminal = "Succeeded" THEN "Succeeded" ELSE "Failed"

\* Every step of the operation is a step of the contract or a stutter.
ImplementsContract == Contract!Spec
=============================================================================
