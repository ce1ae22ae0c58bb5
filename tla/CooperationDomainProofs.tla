---------------------- MODULE CooperationDomainProofs ----------------------
(***************************************************************************)
(* What the methods of CooperationState do, for all values of the          *)
(* constants.  `StepOf(s, t, e)' lists every way a method called at time e *)
(* can change s into t.  Each method is shown to be such a step, and such  *)
(* steps to keep a consistent state consistent; the modules that hold a    *)
(* state build their own proofs on these two facts.                        *)
(***************************************************************************)
EXTENDS CooperationDomain, TLAPS

Consistent(s) ==
    /\ s \in CooperationStates
    /\ ContributionsAgree(s)
    /\ OutcomeAgrees(s)
    /\ LifeAgrees(s)
    /\ RevivedOnce(s)

\* A change within the deadlines, of an operation that has not ended.
LiveStepOf(s, t, e) ==
    \/ s.phase = "AwaitingAnchor" /\ t = AnchorArrives(s)
    \/ s.phase = "AwaitingPing" /\ \E id \in OperationIds : t = Pings(s, id, e)
    \/ s.phase = "AwaitingRunner" /\ t = RunnerFalls(s, e)
    \/ s.phase = "RunnerDowned" /\ \E id \in OperationIds : t = OpenChannel(s, id, e)
    \/ s.phase = "ReviveChannel" /\ t = CancelRevive(s)
    \/ s.phase = "ReviveChannel" /\ t = FinishRevive(s)
    \/ s.phase = "EncounterActive" /\ t = CommitTerminal(CountWarden(s), "Succeeded")
    \/ s.phase = "EncounterActive" /\ \E role \in Roles :
          t = CommitTerminal(Strike(s, role), "FailedParticipantDefeated")
    \/ t = CommitTerminal(s, "AbandonedDisconnect")

StepOf(s, t, e) ==
    \/ t = s
    \/ Running(s) /\ Expired(s, e) /\ t = CommitTerminal(s, TimeoutAt(s, e))
    \/ Running(s) /\ ~Expired(s, e) /\ LiveStepOf(s, t, e)

-----------------------------------------------------------------------------
(* Each method is a step.                                                      *)

\* arrive_anchor changes the state only in a listed way.
LEMMA ArriveAnchorSteps ==
    ASSUME NEW s, NEW role, NEW target, NEW e
    PROVE  StepOf(s, ArriveAnchor(s, role, target, e).state, e)
  BY DEF ArriveAnchor, Observe, Result, StepOf, LiveStepOf

\* So does ping.
LEMMA PingSteps ==
    ASSUME NEW s, NEW role, NEW target, NEW id \in OperationIds, NEW e
    PROVE  StepOf(s, Ping(s, role, target, id, e).state, e)
  BY DEF Ping, Observe, Result, StepOf, LiveStepOf

\* So does arrive_runner.
LEMMA ArriveRunnerSteps ==
    ASSUME NEW s, NEW role, NEW target, NEW e
    PROVE  StepOf(s, ArriveRunner(s, role, target, e).state, e)
  BY DEF ArriveRunner, Observe, Result, StepOf, LiveStepOf

\* So does start_revive.
LEMMA StartReviveSteps ==
    ASSUME NEW s, NEW role, NEW targetRole, NEW distance,
           NEW id \in OperationIds, NEW e
    PROVE  StepOf(s, StartRevive(s, role, targetRole, distance, id, e).state, e)
  BY DEF StartRevive, Observe, Result, StepOf, LiveStepOf

\* observe_revive leaves the state, cancels the channel or completes the revive.
LEMMA ObserveReviveSteps ==
    ASSUME NEW s \in CooperationStates, NEW role, NEW targetRole, NEW distance \in Int,
           NEW id \in OperationIds, NEW e \in Elapsed
    PROVE  StepOf(s, ObserveRevive(s, role, targetRole, distance, id, e).state, e)
  BY DurationsAssumption
  DEF ObserveRevive, Observe, Result, StepOf, LiveStepOf, CooperationStates,
      OperationRecords, Elapsed

\* Completeness is checked after the last flag is set, and then always holds.
LEMMA CompleteWardenSteps ==
    ASSUME NEW s, Consistent(s), NEW e
    PROVE  StepOf(s, CompleteWarden(s, e).state, e)
  BY DEF CompleteWarden, Observe, Result, StepOf, LiveStepOf, CountWarden, Consistent,
         ContributionsAgree, RecordedIn, Contributions, CooperationStates

\* defeat_participant ends a live operation, or finds it ended or expired.
LEMMA DefeatParticipantSteps ==
    ASSUME NEW s, NEW role \in Roles, NEW e
    PROVE  StepOf(s, DefeatParticipant(s, role, e).state, e)
  BY DEF DefeatParticipant, Observe, Result, StepOf, LiveStepOf

\* So does disconnect.
LEMMA DisconnectSteps ==
    ASSUME NEW s, NEW e
    PROVE  StepOf(s, Disconnect(s, e).state, e)
  BY DEF Disconnect, Observe, Result, StepOf, LiveStepOf

\* observe_deadlines changes nothing but an expired operation.
LEMMA ObserveDeadlinesSteps ==
    ASSUME NEW s, NEW e
    PROVE  StepOf(s, ObserveDeadlines(s, e).state, e)
  BY DEF ObserveDeadlines, Observe, Result, StepOf

-----------------------------------------------------------------------------
(* Steps keep a state consistent.                                              *)

\* commit_terminal keeps the types of a state.
LEMMA CommitTypes ==
    ASSUME NEW s \in CooperationStates, NEW outcome \in Outcomes
    PROVE  CommitTerminal(s, outcome) \in CooperationStates
<1> DEFINE phase == IF outcome = "Succeeded" THEN "Succeeded" ELSE "Failed"
<1>1. phase \in Phases
  BY DEF Phases
<1> HIDE DEF phase
<1>2. [s EXCEPT !.terminal = outcome, !.phase = phase, !.channel = None]
         \in CooperationStates
  BY <1>1 DEF CooperationStates
<1> QED
  BY <1>2 DEF CommitTerminal, phase

\* Ending a running operation without success: contributions, life and the revive
\* are left as they are.
LEMMA FailureConsistent ==
    ASSUME NEW s, Consistent(s), Running(s),
           NEW outcome \in Timeouts \cup {"AbandonedDisconnect"}
    PROVE  Consistent(CommitTerminal(s, outcome))
<1> DEFINE t == CommitTerminal(s, outcome)
<1>1. /\ s \in CooperationStates
      /\ outcome \in Outcomes
      /\ outcome \in Failures
      /\ outcome # "Succeeded"
  BY DEF Consistent, Outcomes, Failures, Timeouts
<1>2. t \in CooperationStates
  BY <1>1, CommitTypes
<1>3. s.phase \notin {"Succeeded", "Failed"}
  BY DEF Consistent, OutcomeAgrees, Running, Failures, Timeouts
<1>4. ContributionsAgree(t)
  BY <1>1, <1>3 DEF Consistent, ContributionsAgree, CommitTerminal, CooperationStates
<1>5. OutcomeAgrees(t)
  BY <1>1 DEF OutcomeAgrees, CommitTerminal, CooperationStates
<1>6. LifeAgrees(t)
  BY <1>1 DEF Consistent, LifeAgrees, CommitTerminal, CooperationStates, Running
<1>7. RevivedOnce(t)
  BY <1>1 DEF Consistent, RevivedOnce, CommitTerminal, CooperationStates
<1> QED
  BY <1>2, <1>4, <1>5, <1>6, <1>7 DEF Consistent

\* Recording the anchor keeps a state consistent.
LEMMA AnchorConsistent ==
    ASSUME NEW s, Consistent(s), Running(s), s.phase = "AwaitingAnchor"
    PROVE  Consistent(AnchorArrives(s))
<1> DEFINE t == AnchorArrives(s)
<1>1. s \in CooperationStates /\ s.contributions = {}
  BY DEF Consistent, ContributionsAgree, RecordedIn
<1>2. t \in CooperationStates
  BY <1>1 DEF AnchorArrives, CooperationStates, Phases, Contributions
<1>3. ContributionsAgree(t)
  BY <1>1 DEF Consistent, ContributionsAgree, AnchorArrives, CooperationStates, RecordedIn
<1>4. OutcomeAgrees(t)
  BY <1>1 DEF Consistent, OutcomeAgrees, AnchorArrives, CooperationStates, Running,
              Failures, Timeouts
<1>5. LifeAgrees(t)
  BY <1>1 DEF Consistent, LifeAgrees, AnchorArrives, CooperationStates, Running
<1>6. RevivedOnce(t)
  BY <1>1 DEF Consistent, RevivedOnce, AnchorArrives, CooperationStates
<1> QED
  BY <1>2, <1>3, <1>4, <1>5, <1>6 DEF Consistent

\* So does the ping.
LEMMA PingConsistent ==
    ASSUME NEW s, Consistent(s), Running(s), s.phase = "AwaitingPing",
           NEW id \in OperationIds, NEW e \in Elapsed
    PROVE  Consistent(Pings(s, id, e))
<1> DEFINE t == Pings(s, id, e)
<1>1. s \in CooperationStates /\ s.contributions = {"anchor_arrived"}
  BY DEF Consistent, ContributionsAgree, RecordedIn
<1>2. t \in CooperationStates
  BY <1>1 DEF Pings, CooperationStates, OperationRecords, Phases, Contributions
<1>3. ContributionsAgree(t)
  BY <1>1, NoneAssumption
  DEF Consistent, ContributionsAgree, Pings, CooperationStates, RecordedIn,
      OperationRecords
<1>4. OutcomeAgrees(t)
  BY <1>1 DEF Consistent, OutcomeAgrees, Pings, CooperationStates, Running,
              Failures, Timeouts
<1>5. LifeAgrees(t)
  BY <1>1 DEF Consistent, LifeAgrees, Pings, CooperationStates, Running
<1>6. RevivedOnce(t)
  BY <1>1 DEF Consistent, RevivedOnce, Pings, CooperationStates
<1> QED
  BY <1>2, <1>3, <1>4, <1>5, <1>6 DEF Consistent

\* So does the fall of the runner, who has no health then.
LEMMA RunnerFallsConsistent ==
    ASSUME NEW s, Consistent(s), Running(s), s.phase = "AwaitingRunner",
           NEW e \in Elapsed
    PROVE  Consistent(RunnerFalls(s, e))
<1> DEFINE t == RunnerFalls(s, e)
<1>1. s \in CooperationStates /\ s.contributions = {"anchor_arrived", "pinged"}
  BY DEF Consistent, ContributionsAgree, RecordedIn
<1>2. t \in CooperationStates
  BY <1>1 DEF RunnerFalls, CooperationStates, Phases, Contributions, LifeStates, Roles
<1>3. ContributionsAgree(t)
  BY <1>1, NoneAssumption
  DEF Consistent, ContributionsAgree, RunnerFalls, CooperationStates, RecordedIn
<1>4. OutcomeAgrees(t)
  BY <1>1 DEF Consistent, OutcomeAgrees, RunnerFalls, CooperationStates, Running,
              Failures, Timeouts
<1>5. LifeAgrees(t)
  <2>1. \A r \in Roles : t.profile[r].max_health \in Nat
    BY <1>2, ProfilesAssumption DEF CooperationStates
  <2> QED
    BY <1>1, <2>1
    DEF Consistent, LifeAgrees, RunnerFalls, CooperationStates, Running, Roles
<1>6. RevivedOnce(t)
  BY <1>1 DEF Consistent, RevivedOnce, RunnerFalls, CooperationStates
<1> QED
  BY <1>2, <1>3, <1>4, <1>5, <1>6 DEF Consistent

\* So does a revive that begins.
LEMMA OpenChannelConsistent ==
    ASSUME NEW s, Consistent(s), Running(s), s.phase = "RunnerDowned",
           NEW id \in OperationIds, NEW e \in Elapsed
    PROVE  Consistent(OpenChannel(s, id, e))
<1> DEFINE t == OpenChannel(s, id, e)
<1>1. s \in CooperationStates /\ [id |-> id, at |-> e] \in OperationRecords
  BY DEF Consistent, OperationRecords
<1>2. t \in CooperationStates
  BY <1>1 DEF OpenChannel, CooperationStates, Phases
<1>3. ContributionsAgree(t)
  <2>1. /\ t.phase = "ReviveChannel" /\ t.contributions = s.contributions
        /\ t.ping = s.ping /\ t.downedAt = s.downedAt
    BY <1>1 DEF OpenChannel, CooperationStates
  <2> QED
    BY <2>1 DEF Consistent, ContributionsAgree, RecordedIn
<1>4. OutcomeAgrees(t)
  BY <1>1, NoneAssumption
  DEF Consistent, OutcomeAgrees, OpenChannel, CooperationStates, Running, Failures, Timeouts
<1>5. LifeAgrees(t)
  BY <1>1 DEF Consistent, LifeAgrees, OpenChannel, CooperationStates, Running
<1>6. RevivedOnce(t)
  BY <1>1 DEF Consistent, RevivedOnce, OpenChannel, CooperationStates
<1> QED
  BY <1>2, <1>3, <1>4, <1>5, <1>6 DEF Consistent

\* So does one that is cancelled.
LEMMA CancelReviveConsistent ==
    ASSUME NEW s, Consistent(s), Running(s), s.phase = "ReviveChannel"
    PROVE  Consistent(CancelRevive(s))
<1> DEFINE t == CancelRevive(s)
<1>1. s \in CooperationStates
  BY DEF Consistent
<1>2. t \in CooperationStates
  BY <1>1 DEF CancelRevive, CooperationStates, Phases
<1>3. ContributionsAgree(t)
  <2>1. /\ t.phase = "RunnerDowned" /\ t.contributions = s.contributions
        /\ t.ping = s.ping /\ t.downedAt = s.downedAt
    BY <1>1 DEF CancelRevive, CooperationStates
  <2> QED
    BY <2>1 DEF Consistent, ContributionsAgree, RecordedIn
<1>4. OutcomeAgrees(t)
  BY <1>1 DEF Consistent, OutcomeAgrees, CancelRevive, CooperationStates, Running,
              Failures, Timeouts
<1>5. LifeAgrees(t)
  BY <1>1 DEF Consistent, LifeAgrees, CancelRevive, CooperationStates, Running
<1>6. RevivedOnce(t)
  BY <1>1 DEF Consistent, RevivedOnce, CancelRevive, CooperationStates
<1> QED
  BY <1>2, <1>3, <1>4, <1>5, <1>6 DEF Consistent

\* A completed revive is counted once, with health within the profile.
LEMMA FinishReviveConsistent ==
    ASSUME NEW s, Consistent(s), Running(s), s.phase = "ReviveChannel"
    PROVE  Consistent(FinishRevive(s))
<1> DEFINE t == FinishRevive(s)
           health == IF ReviveHealth <= s.profile["Runner"].max_health
                     THEN ReviveHealth ELSE s.profile["Runner"].max_health
<1>1. /\ s \in CooperationStates
      /\ s.contributions = {"anchor_arrived", "pinged", "runner_arrived"}
      /\ s.channel # None
      /\ s.channel.id \in OperationIds
      /\ s.reviveCount = 0
  BY DEF Consistent, ContributionsAgree, RecordedIn, OutcomeAgrees, RevivedOnce,
         CooperationStates, OperationRecords
<1>a. s.profile["Runner"] \in Profiles
  BY <1>1 DEF CooperationStates, Roles
<1>b. /\ health \in Nat /\ health > 0
      /\ health <= s.profile["Runner"].max_health
  BY <1>a, ProfilesAssumption, DurationsAssumption
<1>c. t = [s EXCEPT !.health = [s.health EXCEPT !["Runner"] = health],
                    !.life = [s.life EXCEPT !["Runner"] = "Active"],
                    !.reviveCount = s.reviveCount + 1,
                    !.contributions = s.contributions \cup {"revived"},
                    !.completedRevive = s.channel.id, !.channel = None,
                    !.phase = "EncounterActive"]
  BY <1>1 DEF FinishRevive, CooperationStates
<1> HIDE DEF t, health
<1>2. t \in CooperationStates
  <2> DEFINE h == [s.health EXCEPT !["Runner"] = health]
             l == [s.life EXCEPT !["Runner"] = "Active"]
             c == s.contributions \cup {"revived"}
             n == s.reviveCount + 1
             id == s.channel.id
  <2>0. /\ h \in [Roles -> Nat]
        /\ l \in [Roles -> LifeStates]
    BY <1>1, <1>b DEF CooperationStates, LifeStates
  <2>1. /\ h \in [Roles -> Nat] /\ l \in [Roles -> LifeStates]
        /\ n \in Nat /\ c \in SUBSET Contributions
        /\ id \in OperationIds \cup {None} /\ "EncounterActive" \in Phases
    <3> HIDE DEF h, l
    <3> QED
      BY <1>1, <2>0 DEF Phases, Contributions
  <2>2. t = [s EXCEPT !.health = h, !.life = l, !.reviveCount = n, !.contributions = c,
                      !.completedRevive = id, !.channel = None,
                      !.phase = "EncounterActive"]
    BY <1>c
  <2> HIDE DEF h, l, c, n, id
  <2> QED
    BY <1>1, <2>1, <2>2 DEF CooperationStates
<1>3. ContributionsAgree(t)
  BY <1>1, <1>c DEF Consistent, ContributionsAgree, CooperationStates, RecordedIn
<1>4. OutcomeAgrees(t)
  BY <1>1, <1>c DEF Consistent, OutcomeAgrees, CooperationStates, Running,
                    Failures, Timeouts
<1>5. LifeAgrees(t)
  BY <1>1, <1>b, <1>c DEF Consistent, LifeAgrees, CooperationStates, Running, Roles
<1>6. RevivedOnce(t)
  BY <1>1, <1>c, NoneAssumption DEF Consistent, RevivedOnce, CooperationStates
<1> QED
  BY <1>2, <1>3, <1>4, <1>5, <1>6 DEF Consistent, t

\* A success has all five contributions.
LEMMA SuccessConsistent ==
    ASSUME NEW s, Consistent(s), Running(s), s.phase = "EncounterActive"
    PROVE  Consistent(CommitTerminal(CountWarden(s), "Succeeded"))
<1> DEFINE t == CommitTerminal(CountWarden(s), "Succeeded")
<1>1. /\ s \in CooperationStates
      /\ s.contributions \cup {"warden_completed"} = Contributions
      /\ CountWarden(s) \in CooperationStates
  BY DEF Consistent, ContributionsAgree, RecordedIn, Contributions, CooperationStates,
         CountWarden
<1>2. t \in CooperationStates
  BY <1>1, CommitTypes DEF Outcomes
<1>c. t = [s EXCEPT !.contributions = Contributions, !.terminal = "Succeeded",
                    !.phase = "Succeeded", !.channel = None]
  BY <1>1 DEF CommitTerminal, CountWarden, CooperationStates
<1> HIDE DEF t
<1>3. ContributionsAgree(t)
  BY <1>1, <1>c
  DEF Consistent, ContributionsAgree, CooperationStates, RecordedIn, Contributions
<1>4. OutcomeAgrees(t)
  BY <1>1, <1>c DEF OutcomeAgrees, CooperationStates, Failures, Timeouts
<1>5. LifeAgrees(t)
  BY <1>1, <1>c
  DEF Consistent, LifeAgrees, CooperationStates, Running, Roles, ContributionsAgree,
      RecordedIn
<1>6. RevivedOnce(t)
  BY <1>1, <1>c DEF Consistent, RevivedOnce, CooperationStates, Contributions,
                    ContributionsAgree, RecordedIn
<1> QED
  BY <1>2, <1>3, <1>4, <1>5, <1>6 DEF Consistent, t

\* A defeat takes the health of the one it names.
LEMMA DefeatConsistent ==
    ASSUME NEW s, Consistent(s), Running(s), s.phase = "EncounterActive",
           NEW role \in Roles
    PROVE  Consistent(CommitTerminal(Strike(s, role), "FailedParticipantDefeated"))
<1> DEFINE t == CommitTerminal(Strike(s, role), "FailedParticipantDefeated")
<1>1. s \in CooperationStates /\ Strike(s, role) \in CooperationStates
  BY DEF Consistent, Strike, CooperationStates, LifeStates
<1>2. t \in CooperationStates
  BY <1>1, CommitTypes DEF Outcomes, Failures
<1>c. t = [s EXCEPT !.health = [s.health EXCEPT ![role] = 0],
                    !.life = [s.life EXCEPT ![role] = "Defeated"],
                    !.terminal = "FailedParticipantDefeated",
                    !.phase = "Failed", !.channel = None]
  BY <1>1 DEF CommitTerminal, Strike, CooperationStates
<1> HIDE DEF t
<1>3. ContributionsAgree(t)
  BY <1>1, <1>c DEF Consistent, ContributionsAgree, CooperationStates, Phases
<1>4. OutcomeAgrees(t)
  BY <1>1, <1>c DEF OutcomeAgrees, CooperationStates, Failures
<1>5. LifeAgrees(t)
  <2>1. \A r \in Roles : t.profile[r].max_health \in Nat
    BY <1>2, ProfilesAssumption DEF CooperationStates
  <2> QED
    BY <1>1, <1>c, <2>1
    DEF Consistent, LifeAgrees, CooperationStates, Running, Roles, ContributionsAgree,
        RecordedIn
<1>6. RevivedOnce(t)
  BY <1>1, <1>c DEF Consistent, RevivedOnce, CooperationStates
<1> QED
  BY <1>2, <1>3, <1>4, <1>5, <1>6 DEF Consistent, t

\* An admitted start is consistent.
LEMMA StartConsistent ==
    ASSUME NEW id \in OperationIds, NEW profile \in [Roles -> Profiles],
           NEW health \in [Roles -> Nat], CanStart(profile, health)
    PROVE  Consistent(StartWithHealth(id, profile, health))
<1> DEFINE t == StartWithHealth(id, profile, health)
<1>1. t \in CooperationStates
  BY DEF StartWithHealth, CooperationStates, Phases, LifeStates
<1>2. ContributionsAgree(t) /\ RevivedOnce(t)
  BY DEF StartWithHealth, ContributionsAgree, RecordedIn, RevivedOnce
<1>3. OutcomeAgrees(t)
  BY DEF StartWithHealth, OutcomeAgrees, Failures, Timeouts
<1>4. LifeAgrees(t)
  BY DEF StartWithHealth, LifeAgrees, CanStart, Roles
<1> QED
  BY <1>1, <1>2, <1>3, <1>4 DEF Consistent

\* Every method keeps a consistent state consistent.
LEMMA StepConsistent ==
    ASSUME NEW s, NEW t, NEW e \in Elapsed, Consistent(s), StepOf(s, t, e)
    PROVE  Consistent(t)
<1>1. CASE t = s
  BY <1>1
<1>2. CASE Running(s) /\ Expired(s, e) /\ t = CommitTerminal(s, TimeoutAt(s, e))
  BY <1>2, FailureConsistent DEF TimeoutAt, Timeouts
<1>3. CASE Running(s) /\ ~Expired(s, e) /\ LiveStepOf(s, t, e)
  BY <1>3, AnchorConsistent, PingConsistent, RunnerFallsConsistent,
     OpenChannelConsistent, CancelReviveConsistent, FinishReviveConsistent,
     SuccessConsistent, DefeatConsistent, FailureConsistent
  DEF LiveStepOf
<1> QED
  BY <1>1, <1>2, <1>3 DEF StepOf

\* An operation that ended takes no step but the stutter.
LEMMA TerminalStutters ==
    ASSUME NEW s, NEW t, NEW e, StepOf(s, t, e), ~Running(s)
    PROVE  t = s
  BY DEF StepOf

\* Accepted times stay in order as the clock goes on.
LEMMA InTimeLater ==
    ASSUME NEW s \in CooperationStates, NEW e \in Elapsed, NEW f \in Elapsed,
           e <= f, InTime(s, e)
    PROVE  InTime(s, f)
  BY DurationsAssumption
  DEF InTime, CooperationStates, OperationRecords, Elapsed

\* An end of the operation keeps the accepted times, and closes the channel.
LEMMA EndInTime ==
    ASSUME NEW s \in CooperationStates, NEW t, NEW e, InTime(s, e),
           t.ping = s.ping, t.downedAt = s.downedAt, t.channel = None
    PROVE  InTime(t, e)
  BY DEF InTime

\* Every method keeps the accepted times in order and within their limits.
LEMMA StepInTime ==
    ASSUME NEW s, NEW t, NEW e \in Elapsed, Consistent(s), InTime(s, e), StepOf(s, t, e)
    PROVE  InTime(t, e)
<1> USE DurationsAssumption
<1>0. s \in CooperationStates
  BY DEF Consistent
<1>1. CASE t = s
  BY <1>1
<1>2. ASSUME NEW u \in CooperationStates, NEW outcome, t = CommitTerminal(u, outcome),
             u.ping = s.ping, u.downedAt = s.downedAt
      PROVE  InTime(t, e)
  <2>1. t.ping = s.ping /\ t.downedAt = s.downedAt /\ t.channel = None
    BY <1>2 DEF CommitTerminal, CooperationStates
  <2> QED
    BY <1>0, <2>1, EndInTime
<1>3. ASSUME NEW outcome, t = CommitTerminal(s, outcome)
      PROVE  InTime(t, e)
  BY <1>0, <1>2, <1>3
<1>4. CASE Running(s) /\ ~Expired(s, e) /\ LiveStepOf(s, t, e)
  <2>0. e <= OperationDuration
    BY <1>4 DEF Expired, Elapsed
  <2>1. CASE s.phase = "AwaitingAnchor" /\ t = AnchorArrives(s)
    <3>1. t.ping = s.ping /\ t.downedAt = s.downedAt /\ t.channel = s.channel
      BY <1>0, <2>1 DEF AnchorArrives, CooperationStates
    <3> QED
      BY <3>1 DEF InTime
  <2>2. CASE s.phase = "AwaitingPing" /\ \E id \in OperationIds : t = Pings(s, id, e)
    <3>1. PICK id \in OperationIds : t = Pings(s, id, e)
      BY <2>2
    <3>2. /\ t.ping = [id |-> id, at |-> e]
          /\ t.downedAt = s.downedAt /\ t.channel = s.channel
      BY <1>0, <3>1 DEF Pings, CooperationStates
    <3>3. s.downedAt = None /\ s.channel = None
      BY <2>2 DEF Consistent, ContributionsAgree, OutcomeAgrees, RecordedIn
    <3> QED
      BY <2>0, <3>2, <3>3 DEF InTime, Elapsed
  <2>3. CASE s.phase = "AwaitingRunner" /\ t = RunnerFalls(s, e)
    <3>1. t.ping = s.ping /\ t.downedAt = e /\ t.channel = s.channel
      BY <1>0, <2>3 DEF RunnerFalls, CooperationStates
    <3>2. s.ping # None /\ s.channel = None
      BY <2>3 DEF Consistent, ContributionsAgree, OutcomeAgrees, RecordedIn
    <3>3. e <= s.ping.at + PingTTL
      BY <1>0, <1>4, <2>3, <3>2
      DEF Expired, PingExpired, StrictlyAfter, Elapsed, CooperationStates, OperationRecords
    <3> QED
      BY <2>0, <3>1, <3>2, <3>3 DEF InTime, Elapsed
  <2>4. CASE s.phase = "RunnerDowned" /\ \E id \in OperationIds : t = OpenChannel(s, id, e)
    <3>1. PICK id \in OperationIds : t = OpenChannel(s, id, e)
      BY <2>4
    <3>2. /\ t.channel = [id |-> id, at |-> e]
          /\ t.ping = s.ping /\ t.downedAt = s.downedAt
      BY <1>0, <3>1 DEF OpenChannel, CooperationStates
    <3>3. s.downedAt # None /\ s.downedAt \in Elapsed
      BY <1>0, <2>4 DEF Consistent, ContributionsAgree, RecordedIn, CooperationStates
    <3>4. e <= s.downedAt + ReviveWindow
      BY <1>4, <2>4, <3>3 DEF Expired, ReviveExpired, StrictlyAfter, Elapsed
    <3> QED
      BY <2>0, <3>2, <3>3, <3>4 DEF InTime, Elapsed
  <2>5. CASE s.phase = "ReviveChannel" /\ (t = CancelRevive(s) \/ t = FinishRevive(s))
    <3>1. t.ping = s.ping /\ t.downedAt = s.downedAt /\ t.channel = None
      BY <1>0, <2>5 DEF CancelRevive, FinishRevive, CooperationStates
    <3> QED
      BY <1>0, <3>1, EndInTime
  <2>6. CASE t = CommitTerminal(CountWarden(s), "Succeeded")
    BY <1>0, <1>2, <2>6 DEF CountWarden, CooperationStates, Contributions
  <2>7. CASE \E role \in Roles :
               t = CommitTerminal(Strike(s, role), "FailedParticipantDefeated")
    BY <1>0, <1>2, <2>7 DEF Strike, CooperationStates, LifeStates
  <2>8. CASE t = CommitTerminal(s, "AbandonedDisconnect")
    BY <1>3, <2>8
  <2> QED
    BY <1>4, <2>1, <2>2, <2>3, <2>4, <2>5, <2>6, <2>7, <2>8 DEF LiveStepOf
<1> QED
  BY <1>1, <1>3, <1>4 DEF StepOf

-----------------------------------------------------------------------------
(* What the effects leave alone                                                *)

\* commit_terminal sets the outcome and no contribution.
LEMMA CommitTerminalSets ==
    ASSUME NEW s \in CooperationStates, NEW outcome
    PROVE  /\ CommitTerminal(s, outcome).terminal = outcome
           /\ CommitTerminal(s, outcome).contributions = s.contributions
  BY DEF CommitTerminal, CooperationStates

\* A live step that does not end the operation keeps it running.
LEMMA LiveStepEnds ==
    ASSUME NEW s \in CooperationStates, NEW t, NEW e, LiveStepOf(s, t, e)
    PROVE  t.terminal \in {s.terminal, "Succeeded", "FailedParticipantDefeated",
                           "AbandonedDisconnect"}
<1>1. ASSUME s.phase = "AwaitingAnchor", t = AnchorArrives(s)
      PROVE  t.terminal = s.terminal
  BY <1>1 DEF AnchorArrives, CooperationStates
<1>2. ASSUME NEW id, t = Pings(s, id, e)
      PROVE  t.terminal = s.terminal
  BY <1>2 DEF Pings, CooperationStates
<1>3. ASSUME t = RunnerFalls(s, e)
      PROVE  t.terminal = s.terminal
  BY <1>3 DEF RunnerFalls, CooperationStates
<1>4. ASSUME NEW id, t = OpenChannel(s, id, e)
      PROVE  t.terminal = s.terminal
  BY <1>4 DEF OpenChannel, CooperationStates
<1>5. ASSUME t = CancelRevive(s) \/ t = FinishRevive(s)
      PROVE  t.terminal = s.terminal
  BY <1>5 DEF CancelRevive, FinishRevive, CooperationStates
<1>6. ASSUME t = CommitTerminal(CountWarden(s), "Succeeded")
      PROVE  t.terminal = "Succeeded"
  <2>1. CountWarden(s) \in CooperationStates
    BY DEF CountWarden, CooperationStates, Contributions
  <2> QED
    BY <1>6, <2>1, CommitTerminalSets
<1>7. ASSUME NEW role \in Roles,
             t = CommitTerminal(Strike(s, role), "FailedParticipantDefeated")
      PROVE  t.terminal = "FailedParticipantDefeated"
  <2>1. Strike(s, role) \in CooperationStates
    BY DEF Strike, CooperationStates, LifeStates
  <2> QED
    BY <1>7, <2>1, CommitTerminalSets
<1>8. ASSUME t = CommitTerminal(s, "AbandonedDisconnect")
      PROVE  t.terminal = "AbandonedDisconnect"
  BY <1>8, CommitTerminalSets
<1> QED
  BY <1>1, <1>2, <1>3, <1>4, <1>5, <1>6, <1>7, <1>8 DEF LiveStepOf

-----------------------------------------------------------------------------
(* The order of the relay                                                      *)

\* What has been recorded before each contribution.
RecordedBefore ==
    [anchor_arrived   |-> {},
     pinged           |-> {"anchor_arrived"},
     runner_arrived   |-> {"anchor_arrived", "pinged"},
     revived          |-> {"anchor_arrived", "pinged", "runner_arrived"},
     warden_completed |-> {"anchor_arrived", "pinged", "runner_arrived", "revived"}]

\* What a step records: nothing, the next contribution in time, or the end.
LEMMA StepRecords ==
    ASSUME NEW s, NEW t, NEW e, Consistent(s), StepOf(s, t, e)
    PROVE  \/ t.contributions = s.contributions /\ t.terminal = s.terminal
           \/ /\ Running(s) /\ ~Expired(s, e)
              /\ \E c \in {"anchor_arrived", "pinged", "runner_arrived", "revived"} :
                    /\ s.contributions = RecordedBefore[c]
                    /\ t.contributions = s.contributions \cup {c}
              /\ t.terminal = s.terminal
           \/ /\ Running(s) /\ ~Expired(s, e)
              /\ s.contributions = RecordedBefore["warden_completed"]
              /\ t.contributions = s.contributions \cup {"warden_completed"}
              /\ t.terminal = "Succeeded"
           \/ /\ Running(s)
              /\ t.contributions = s.contributions
              /\ t.terminal \in Failures
<1>0. s \in CooperationStates
  BY DEF Consistent
<1>1. CASE t = s
  BY <1>1
<1>2. CASE Running(s) /\ Expired(s, e) /\ t = CommitTerminal(s, TimeoutAt(s, e))
  BY <1>0, <1>2, CommitTerminalSets DEF TimeoutAt, Failures, Timeouts
<1>3. CASE Running(s) /\ ~Expired(s, e) /\ LiveStepOf(s, t, e)
  <2> USE <1>3 DEF RecordedBefore
  <2>1. CASE s.phase = "AwaitingAnchor" /\ t = AnchorArrives(s)
    <3>1. s.contributions = {}
      BY <2>1 DEF Consistent, ContributionsAgree, RecordedIn
    <3>2. /\ t.contributions = s.contributions \cup {"anchor_arrived"}
          /\ t.terminal = s.terminal
      BY <1>0, <2>1 DEF AnchorArrives, CooperationStates
    <3> QED
      BY <3>1, <3>2
  <2>2. CASE s.phase = "AwaitingPing" /\ \E id \in OperationIds : t = Pings(s, id, e)
    <3>1. s.contributions = {"anchor_arrived"}
      BY <2>2 DEF Consistent, ContributionsAgree, RecordedIn
    <3>2. /\ t.contributions = s.contributions \cup {"pinged"}
          /\ t.terminal = s.terminal
      BY <1>0, <2>2 DEF Pings, CooperationStates
    <3> QED
      BY <3>1, <3>2
  <2>3. CASE s.phase = "AwaitingRunner" /\ t = RunnerFalls(s, e)
    <3>1. s.contributions = {"anchor_arrived", "pinged"}
      BY <2>3 DEF Consistent, ContributionsAgree, RecordedIn
    <3>2. /\ t.contributions = s.contributions \cup {"runner_arrived"}
          /\ t.terminal = s.terminal
      BY <1>0, <2>3 DEF RunnerFalls, CooperationStates
    <3> QED
      BY <3>1, <3>2
  <2>4. CASE \/ s.phase = "RunnerDowned" /\ \E id \in OperationIds : t = OpenChannel(s, id, e)
             \/ t = CancelRevive(s)
    BY <1>0, <2>4 DEF OpenChannel, CancelRevive, CooperationStates
  <2>5. CASE s.phase = "ReviveChannel" /\ t = FinishRevive(s)
    <3>1. s.contributions = {"anchor_arrived", "pinged", "runner_arrived"}
      BY <2>5 DEF Consistent, ContributionsAgree, RecordedIn
    <3>2. /\ t.contributions = s.contributions \cup {"revived"}
          /\ t.terminal = s.terminal
      BY <1>0, <2>5 DEF FinishRevive, CooperationStates
    <3> QED
      BY <3>1, <3>2
  <2>6. CASE /\ s.phase = "EncounterActive"
             /\ t = CommitTerminal(CountWarden(s), "Succeeded")
    <3>1. s.contributions = {"anchor_arrived", "pinged", "runner_arrived", "revived"}
      BY <2>6 DEF Consistent, ContributionsAgree, RecordedIn
    <3>2. /\ CountWarden(s) \in CooperationStates
          /\ CountWarden(s).contributions = s.contributions \cup {"warden_completed"}
      BY <1>0 DEF CountWarden, CooperationStates, Contributions
    <3>3. /\ t.contributions = s.contributions \cup {"warden_completed"}
          /\ t.terminal = "Succeeded"
      BY <2>6, <3>2, CommitTerminalSets
    <3> QED
      BY <3>1, <3>3
  <2>7. CASE \E role \in Roles :
               t = CommitTerminal(Strike(s, role), "FailedParticipantDefeated")
    <3>1. PICK role \in Roles :
             t = CommitTerminal(Strike(s, role), "FailedParticipantDefeated")
      BY <2>7
    <3>2. /\ Strike(s, role) \in CooperationStates
          /\ Strike(s, role).contributions = s.contributions
      BY <1>0 DEF Strike, CooperationStates, LifeStates
    <3> QED
      BY <3>1, <3>2, CommitTerminalSets DEF Failures
  <2>8. CASE t = CommitTerminal(s, "AbandonedDisconnect")
    BY <1>0, <2>8, CommitTerminalSets DEF Failures
  <2> QED
    BY <2>1, <2>2, <2>3, <2>4, <2>5, <2>6, <2>7, <2>8 DEF LiveStepOf
<1> QED
  BY <1>1, <1>2, <1>3 DEF StepOf
=============================================================================
