---------------------- MODULE CooperationRuntimeProofs ----------------------
(***************************************************************************)
(* Theorems of `CooperationLedger', for any identifiers, profiles,         *)
(* distances and durations: whatever is called, lost or retried, the       *)
(* operation that is stored is a consistent one and is never taken back.   *)
(* Its lemmas say what each call may leave behind and what its answer      *)
(* tells.  On them rest the theorems of `CooperationRuntime', for any two  *)
(* players, weapons, durations and damages: the memory of the coordinator  *)
(* is what is stored, an end is told once and to both, and a session is    *)
(* only thrown away for the reasons that are listed.                       *)
(***************************************************************************)
EXTENDS CooperationRuntime, CooperationDomainProofs, SequenceTheorems

-----------------------------------------------------------------------------
(* The ledger *)

\* The inductive invariant: the next call relies on the consistency of what is stored,
\* its deadlines on the times.
LedgerInv ==
    /\ clock \in Elapsed
    /\ reply \in Replies
    /\ stored # None => Consistent(stored) /\ InTime(stored, clock)

\* No call but a start makes an operation; each takes at most one step of the domain.
Kept == clock' = clock /\ StepOf(stored, stored', clock) /\ reply' \in Replies

-----------------------------------------------------------------------------
(* Every method answers *)

\* What the common shape of the methods answers, and to which state.
LEMMA ObserveAnswers ==
    ASSUME NEW s, NEW e, NEW replays, NEW applies, NEW done, done.answer \in Answers
    PROVE  Observe(s, e, replays, applies, done).answer \in Answers
  BY DEF Observe, Result, Answers

\* The same for a revive that is observed.
LEMMA ReviveAnswers ==
    ASSUME NEW s, NEW role, NEW target, NEW distance, NEW id, NEW e
    PROVE  /\ StartRevive(s, role, target, distance, id, e).answer \in Answers
           /\ ObserveRevive(s, role, target, distance, id, e).answer \in Answers
<1>1. Result(OpenChannel(s, id, e), "Applied").answer \in Answers
  BY DEF Result, Answers
<1>2. (IF distance > MaxReviveDistance THEN Result(CancelRevive(s), "Cancelled")
       ELSE IF e - s.channel.at < ReviveChannelTime THEN Result(s, "Pending")
       ELSE Result(FinishRevive(s), "Applied")).answer \in Answers
  BY DEF Result, Answers
<1> QED
  BY <1>1, <1>2, ObserveAnswers DEF StartRevive, ObserveRevive

\* The same for the calls of the relay.
LEMMA RelayAnswers ==
    ASSUME NEW s, NEW role, NEW target, NEW id, NEW e
    PROVE  /\ ArriveAnchor(s, role, target, e).answer \in Answers
           /\ Ping(s, role, target, id, e).answer \in Answers
           /\ ArriveRunner(s, role, target, e).answer \in Answers
  BY DEF ArriveAnchor, Ping, ArriveRunner, Observe, Result, Answers

\* The same for the ends.
LEMMA EndAnswers ==
    ASSUME NEW s, NEW role, NEW e
    PROVE  /\ CompleteWarden(s, e).answer \in Answers
           /\ DefeatParticipant(s, role, e).answer \in Answers
           /\ Disconnect(s, e).answer \in Answers
           /\ ObserveDeadlines(s, e).answer \in Answers
  BY DEF CompleteWarden, DefeatParticipant, Disconnect, ObserveDeadlines, Observe, Result,
         Answers

-----------------------------------------------------------------------------
(* What a transaction keeps *)

\* Putting the state of a step is a step, whether it is answered or lost.
LEMMA PutKeeps ==
    ASSUME NEW t, NEW said \in Replies, StepOf(stored, t, clock), Put(t, said)
    PROVE  Kept
  BY DEF Put, Keep, Kept, StepOf, Replies, Answers

\* mutate_cooperation keeps the state of its method or nothing.
LEMMA MutateKeeps ==
    ASSUME NEW result, NEW conflicts, result.answer \in Answers,
           StepOf(stored, result.state, clock), Mutate(result, conflicts)
    PROVE  Kept
<1>1. StepOf(stored, stored, clock)
  BY DEF StepOf
<1>2. ASSUME NEW said \in Replies, Keep(said) PROVE Kept
  BY <1>1, <1>2 DEF Keep, Kept
<1> QED
  BY <1>1, <1>2, PutKeeps DEF Mutate, Answers, Replies

\* finish_cooperation_failure likewise.
LEMMA FinishKeeps ==
    ASSUME NEW matches, NEW role, NEW result, result.answer \in Answers,
           StepOf(stored, result.state, clock), FinishFailure(matches, role, result)
    PROVE  Kept
<1>1. StepOf(stored, stored, clock)
  BY DEF StepOf
<1>2. ASSUME NEW said \in Replies, Keep(said) PROVE Kept
  BY <1>1, <1>2 DEF Keep, Kept
<1> QED
  BY <1>1, <1>2, PutKeeps DEF FinishFailure, Answers, Replies

-----------------------------------------------------------------------------
(* Each call keeps at most a step *)

\* A retried start writes nothing new.
LEMMA RetriedStartKeeps ==
    ASSUME NEW id, NEW profile, NEW vigor, NEW same,
           RetriedStart(id, profile, vigor, same)
    PROVE  Kept /\ stored' = stored
  BY DEF RetriedStart, RetryStart, Result, Put, Keep, Kept, StepOf, Replies, Answers

\* The anchor's arrival, or its retry, keeps the invariant.
LEMMA AnchorArrivalKeeps == AnchorArrival => Kept
  BY MutateKeeps, RelayAnswers, EndAnswers, ArriveAnchorSteps, ObserveDeadlinesSteps
  DEF AnchorArrival

\* So does a ping.
LEMMA PingOfKeeps == ASSUME NEW id \in OperationIds, PingOf(id) PROVE Kept
  BY MutateKeeps, RelayAnswers, PingSteps DEF PingOf

\* So does the runner's fall.
LEMMA RunnerDownKeeps == RunnerDown => Kept
  BY MutateKeeps, RelayAnswers, EndAnswers, ArriveRunnerSteps, ObserveDeadlinesSteps
  DEF RunnerDown

\* So does a revive that begins.
LEMMA ReviveStartKeeps ==
    ASSUME NEW id \in OperationIds, NEW distance, ReviveStart(id, distance)
    PROVE  Kept
  BY MutateKeeps, ReviveAnswers, StartReviveSteps DEF ReviveStart

\* So does one that is observed.
LEMMA ReviveObservedKeeps ==
    ASSUME NEW id \in OperationIds, NEW distance \in Int, clock \in Elapsed,
           stored \in CooperationStates, ReviveObserved(id, distance)
    PROVE  Kept
  BY MutateKeeps, ReviveAnswers, ObserveReviveSteps DEF ReviveObserved

\* So does the completion of the Warden.
LEMMA CompletionKeeps ==
    ASSUME Consistent(stored), Completion
    PROVE  Kept
<1> DEFINE result == CompleteWarden(stored, clock)
<1>1. StepOf(stored, result.state, clock) /\ result.answer \in Answers
  BY CompleteWardenSteps, EndAnswers
<1>2. ASSUME NEW said \in Replies, Keep(said) PROVE Kept
  BY <1>2 DEF Keep, Kept, StepOf
<1>3. CASE ~Running(stored)
  BY <1>2, <1>3, PutKeeps DEF Completion, StepOf, Replies, Answers
<1>4. CASE Running(stored)
  <2>1. (result.answer = "Applied" /\ Put(result.state, "Applied")) \/ Keep(result.answer)
    BY <1>4 DEF Completion
  <2> HIDE DEF result
  <2> QED
    BY <1>1, <1>2, <2>1, PutKeeps DEF Replies, Answers
<1> QED
  BY <1>3, <1>4

\* So does the observation of a deadline.
LEMMA TimedOutKeeps == TimedOut => Kept
  BY FinishKeeps, EndAnswers, ObserveDeadlinesSteps DEF TimedOut

\* So does a defeat.
LEMMA DefeatKeeps == ASSUME NEW role \in Roles, Defeat(role) PROVE Kept
  BY FinishKeeps, EndAnswers, DefeatParticipantSteps DEF Defeat

\* So does a departure.
LEMMA AbandonKeeps == ASSUME NEW role \in Roles, Abandon(role) PROVE Kept
  BY FinishKeeps, EndAnswers, DisconnectSteps DEF Abandon

-----------------------------------------------------------------------------
(* What the answer of a call tells its caller *)

Unsure == reply' = "Lost" /\ Kept

\* The call has found the operation too late, and ended it.
Late ==
    /\ reply' = "Applied" /\ clock' = clock
    /\ Expired(stored, clock)
    /\ stored' = CommitTerminal(stored, TimeoutAt(stored, clock))

InVain(said) == reply' = said /\ stored' = stored /\ clock' = clock

\* The call was in time, and did what it is for.
Done(said, t) ==
    reply' = said /\ stored' = t /\ clock' = clock /\ ~Expired(stored, clock)

\* What the caller of an anchor's arrival hears, and what is stored then.
LEMMA AnchorArrivalTells ==
    ASSUME Consistent(stored), Running(stored), stored.phase = "AwaitingAnchor",
           AnchorArrival
    PROVE  Unsure \/ Late \/ Done("Applied", AnchorArrives(stored))
<1>1. Kept /\ "anchor_arrived" \notin stored.contributions
  BY AnchorArrivalKeeps DEF Consistent, ContributionsAgree, RecordedIn
<1> QED
  BY <1>1 DEF AnchorArrival, ArriveAnchor, Observe, Result, Mutate, Put, Keep, Unsure, Late,
              Done

\* The same for the runner's fall.
LEMMA RunnerDownTells ==
    ASSUME Consistent(stored), Running(stored), stored.phase = "AwaitingRunner",
           RunnerDown
    PROVE  Unsure \/ Late \/ Done("Applied", RunnerFalls(stored, clock))
<1>1. /\ Kept /\ "runner_arrived" \notin stored.contributions
      /\ stored.life["Runner"] = "Active" /\ stored.health["Runner"] > 0
  <2>1. stored.contributions = {"anchor_arrived", "pinged"}
    BY DEF Consistent, ContributionsAgree, RecordedIn
  <2>2. stored.life["Runner"] \in LifeStates
    BY DEF Consistent, CooperationStates, Roles
  <2> QED
    BY <2>1, <2>2, RunnerDownKeeps
    DEF Consistent, LifeAgrees, LifeStates, Roles, Running
<1> QED
  BY <1>1 DEF RunnerDown, ArriveRunner, Observe, Result, Mutate, Put, Keep, Unsure, Late,
              Done

\* The same for a ping.
LEMMA PingOfTells ==
    ASSUME NEW id \in OperationIds, PingOf(id)
    PROVE  \/ Unsure
           \/ ~Running(stored) /\ InVain("Terminal")
           \/ Running(stored) /\ Late
           \/ Running(stored) /\ (InVain("Rejected") \/ InVain("Replayed"))
           \/ /\ Running(stored) /\ stored.phase = "AwaitingPing"
              /\ Done("Applied", Pings(stored, id, clock))
<1>1. Kept
  BY PingOfKeeps
<1> QED
  BY <1>1 DEF PingOf, Ping, Observe, Result, Mutate, Put, Keep, Unsure, Late, InVain, Done

\* The same for a revive that begins.
LEMMA ReviveStartTells ==
    ASSUME NEW id \in OperationIds, NEW distance, ReviveStart(id, distance)
    PROVE  \/ Unsure
           \/ ~Running(stored) /\ InVain("Terminal")
           \/ Running(stored) /\ Late
           \/ Running(stored) /\ (InVain("Rejected") \/ InVain("Replayed"))
           \/ /\ Running(stored) /\ stored.phase = "RunnerDowned"
              /\ Done("Applied", OpenChannel(stored, id, clock))
<1>1. Kept
  BY ReviveStartKeeps
<1> QED
  BY <1>1 DEF ReviveStart, StartRevive, Observe, Result, Mutate, Put, Keep, Unsure, Late,
              InVain, Done

\* An observation of the channel that is open is never refused.
LEMMA ReviveObservedTells ==
    ASSUME NEW id \in OperationIds, NEW distance \in Nat, clock \in Elapsed,
           Consistent(stored), InTime(stored, clock), Running(stored),
           stored.phase = "ReviveChannel", stored.channel.id = id,
           ReviveObserved(id, distance)
    PROVE  \/ Unsure \/ Late
           \/ Done("Cancelled", CancelRevive(stored))
           \/ Done("Pending", stored)
           \/ Done("Applied", FinishRevive(stored))
<1>1. Kept /\ stored \in CooperationStates
  BY ReviveObservedKeeps DEF Consistent
<1>2. stored.channel # None /\ stored.completedRevive = None
  BY DEF Consistent, ContributionsAgree, OutcomeAgrees, RevivedOnce, RecordedIn
<1>3. clock - stored.channel.at >= 0
  BY <1>1, <1>2, DurationsAssumption
  DEF InTime, CooperationStates, OperationRecords, Elapsed
<1>4. None # id
  BY NoneAssumption
<1> QED
  BY <1>1, <1>2, <1>3, <1>4
  DEF ReviveObserved, ObserveRevive, Observe, Result, Mutate, Put, Keep, Unsure, Late, Done

\* The same for a deadline.
LEMMA TimedOutTells ==
    ASSUME Running(stored), Expired(stored, clock), TimedOut
    PROVE  Unsure \/ Late
<1>1. Kept
  BY TimedOutKeeps
<1> QED
  BY <1>1 DEF TimedOut, ObserveDeadlines, FinishFailure, Observe, Result, Put, Keep, Unsure,
              Late

\* A completion that comes too late changes nothing.
LEMMA CompletionTells ==
    ASSUME Consistent(stored), Running(stored), stored.phase = "EncounterActive", Completion
    PROVE  \/ Unsure
           \/ Expired(stored, clock) /\ InVain("Expired")
           \/ Done("Applied", CommitTerminal(CountWarden(stored), "Succeeded"))
<1>1. Kept /\ CountWarden(stored).contributions = Contributions
  BY CompletionKeeps
  DEF Consistent, ContributionsAgree, RecordedIn, CountWarden, Contributions,
      CooperationStates
<1> QED
  BY <1>1 DEF Completion, CompleteWarden, Observe, Result, Put, Keep, Unsure, InVain, Done,
              Running

\* The same for a defeat.
LEMMA DefeatTells ==
    ASSUME NEW role \in Roles, Running(stored), stored.phase = "EncounterActive",
           Defeat(role)
    PROVE  \/ Unsure
           \/ Expired(stored, clock) /\ InVain("EvidenceRefused")
           \/ Done("Applied",
                   CommitTerminal(Strike(stored, role), "FailedParticipantDefeated"))
<1>1. Kept /\ role # None
  BY DefeatKeeps, NoneAssumption
<1> QED
  BY <1>1 DEF Defeat, DefeatParticipant, FinishFailure, Observe, Result, Put, Keep, Unsure,
              InVain, Done

\* The same for a departure.
LEMMA AbandonTells ==
    ASSUME NEW role \in Roles, Running(stored), Abandon(role)
    PROVE  \/ Unsure
           \/ Expired(stored, clock) /\ InVain("EvidenceRefused")
           \/ Done("Applied", CommitTerminal(stored, "AbandonedDisconnect"))
<1>1. Kept /\ role # None
  BY AbandonKeeps, NoneAssumption
<1> QED
  BY <1>1 DEF Abandon, Disconnect, FinishFailure, Observe, Result, Put, Keep, Unsure,
              InVain, Done, Running

-----------------------------------------------------------------------------
(* The specification *)

\* Any call, from any state the ledger can be in.
LEMMA CallsKeep ==
    ASSUME LedgerInv, stored # None, LedgerNext, ~LedgerTick
    PROVE  Kept
<1>0. Consistent(stored) /\ stored \in CooperationStates /\ clock \in Elapsed
  BY DEF LedgerInv, Consistent
<1>1. ASSUME NEW id \in OperationIds, NEW distance \in Distances,
             ReviveObserved(id, distance)
      PROVE  Kept
  BY <1>0, <1>1, ReviveObservedKeeps, DistancesAssumption
<1>2. ASSUME NEW id, NEW profile, NEW vigor, Start(id, profile, vigor)
      PROVE  FALSE
  BY <1>2 DEF Start
<1> QED
  BY <1>0, <1>1, <1>2, AnchorArrivalKeeps, RunnerDownKeeps, CompletionKeeps, TimedOutKeeps,
     PingOfKeeps, ReviveStartKeeps, RetriedStartKeeps, DefeatKeeps, AbandonKeeps
  DEF LedgerNext

\* A start writes a fresh operation or nothing.
LEMMA StartKeeps ==
    ASSUME NEW id \in OperationIds, NEW profile \in [Roles -> Profiles],
           NEW vigor \in [Roles -> Nat], clock \in Elapsed, Start(id, profile, vigor)
    PROVE  /\ clock' = clock /\ reply' \in Replies
           /\ \/ stored' = None
              \/ Consistent(stored') /\ InTime(stored', clock)
<1>1. InTime(StartWithHealth(id, profile, vigor), clock)
  BY DEF InTime, StartWithHealth
<1> QED
  BY <1>1, StartConsistent DEF Start, Put, Keep, Replies, Answers

\* Nothing is stored at first.
LEMMA LedgerInitInv == LedgerInit => LedgerInv
  BY DurationsAssumption DEF LedgerInit, LedgerInv, Elapsed, Replies, Answers

\* Every call and tick of the ledger keeps the invariant.
LEMMA LedgerNextInv ==
    ASSUME LedgerInv, [LedgerNext]_ledger
    PROVE  LedgerInv'
<1>1. CASE LedgerTick
  <2>1. /\ clock' \in Elapsed /\ clock <= clock'
        /\ stored' = stored /\ reply' = reply /\ stored # None
    BY <1>1, DurationsAssumption DEF LedgerTick, LedgerInv, Elapsed
  <2> QED
    BY <2>1, InTimeLater DEF LedgerInv, Consistent
<1>2. CASE LedgerNext /\ ~LedgerTick /\ stored # None
  <2>1. Kept
    BY <1>2, CallsKeep
  <2> QED
    BY <1>2, <2>1, StepConsistent, StepInTime DEF Kept, LedgerInv
<1>3. CASE LedgerNext /\ ~LedgerTick /\ stored = None
  <2>1. \E id \in OperationIds : \E profile \in [Roles -> Profiles] :
           \E vigor \in Healths(profile) : Start(id, profile, vigor)
    BY <1>3
    DEF LedgerNext, AnchorArrival, RunnerDown, Completion, TimedOut, PingOf, ReviveStart,
        ReviveObserved, RetriedStart, Defeat, Abandon
  <2>2. PICK id \in OperationIds, profile \in [Roles -> Profiles] :
           \E vigor \in Healths(profile) : Start(id, profile, vigor)
    BY <2>1
  <2>3. PICK vigor \in Healths(profile) : Start(id, profile, vigor)
    BY <2>2
  <2>4. vigor \in [Roles -> Nat]
    <3>1. \A r \in Roles : profile[r].max_health \in Nat
      BY ProfilesAssumption
    <3>2. \A r \in Roles : 1 .. profile[r].max_health \subseteq Nat
      BY <3>1
    <3>3. UNION {1 .. profile[r].max_health : r \in Roles} \subseteq Nat
      BY <3>2, Zenon
    <3> QED
      BY <2>3, <3>3, ZenonT(20) DEF Healths
  <2> QED
    BY <2>3, <2>4, StartKeeps DEF LedgerInv
<1>4. CASE UNCHANGED ledger
  BY <1>4 DEF LedgerInv, ledger
<1> QED
  BY <1>1, <1>2, <1>3, <1>4

\* What is stored is always a consistent operation with its times in order, whatever was
\* called, repeated or lost (PostgresPersistence, the cooperation operations).
THEOREM StoredIsConsistent == LedgerSpec => []LedgerInv
  BY LedgerInitInv, LedgerNextInv, PTL DEF LedgerSpec

\* Only a start admits.
LEMMA StepsKeepAdmission ==
    ASSUME NEW s \in CooperationStates, NEW t, NEW e, StepOf(s, t, e)
    PROVE  t.start = s.start /\ t.profile = s.profile /\ t.admitted = s.admitted
<1> DEFINE Same(u) == u.start = s.start /\ u.profile = s.profile /\ u.admitted = s.admitted
<1>1. ASSUME NEW u \in CooperationStates, Same(u), NEW outcome
      PROVE  Same(CommitTerminal(u, outcome))
  BY <1>1 DEF CommitTerminal, CooperationStates
<1>2. CountWarden(s) \in CooperationStates /\ Same(CountWarden(s))
  BY DEF CountWarden, CooperationStates, Contributions
<1>3. ASSUME NEW role \in Roles
      PROVE  Strike(s, role) \in CooperationStates /\ Same(Strike(s, role))
  BY <1>3 DEF Strike, CooperationStates, LifeStates
<1>4. /\ Same(AnchorArrives(s)) /\ Same(CancelRevive(s)) /\ Same(FinishRevive(s))
      /\ \A id : Same(Pings(s, id, e)) /\ Same(OpenChannel(s, id, e))
      /\ Same(RunnerFalls(s, e))
  BY DEF CooperationStates, AnchorArrives, Pings, RunnerFalls, OpenChannel, CancelRevive,
         FinishRevive
<1> QED
  BY <1>1, <1>2, <1>3, <1>4 DEF StepOf, LiveStepOf

\* An operation that is stored stays the one that was admitted, and its end is final: no
\* call, and no retry of one, takes either of them back.
THEOREM StoredIsFinal ==
    LedgerSpec =>
        [][stored # None =>
             /\ ~Running(stored) => stored' = stored
             /\ stored'.start = stored.start /\ stored'.profile = stored.profile
             /\ stored'.admitted = stored.admitted]_ledger
<1> DEFINE Final == stored # None =>
                      /\ ~Running(stored) => stored' = stored
                      /\ stored'.start = stored.start /\ stored'.profile = stored.profile
                      /\ stored'.admitted = stored.admitted
<1>1. ASSUME LedgerInv, LedgerNext PROVE Final
  <2>1. CASE LedgerTick
    BY <2>1 DEF LedgerTick
  <2>2. CASE ~LedgerTick /\ stored # None
    <3>1. StepOf(stored, stored', clock) /\ stored \in CooperationStates
      BY <1>1, <2>2, CallsKeep DEF Kept, LedgerInv, Consistent
    <3> QED
      BY <3>1, TerminalStutters, StepsKeepAdmission
  <2> QED
    BY <2>1, <2>2
<1> QED
  BY <1>1, StoredIsConsistent, PTL DEF LedgerSpec
-----------------------------------------------------------------------------
(* The coordinator *)

Types ==
    /\ clock \in Elapsed
    /\ members \in {Seats, <<Seats[1]>>, <<Seats[2]>>, <<>>}
    /\ capable \subseteq Players
    /\ place \in [Players -> Places]
    /\ kit \in [Players -> Profiles]
    /\ \A p \in Players : kit[p] \in Owned[p]
    /\ health \in [Players -> Nat]

\* What the memory of rt knows of the operation s, as MemoryIsStored has it.
CopiesAgree(rt, s) ==
    /\ rt.state = s
    /\ s.ping = (IF rt.ping = None THEN None ELSE [id |-> rt.ping.id, at |-> rt.ping.at])
    /\ s.ping # None => (rt.ping.active <=> s.phase = "AwaitingRunner")
    /\ s.channel # None =>
          /\ rt.revive \in ReviveCopies
          /\ s.channel = [id |-> rt.revive.id, at |-> rt.revive.at]
          /\ rt.revive.status \in {"Started", "Pending"}
    /\ s.completedRevive # None =>
          /\ s.completedRevive = rt.revive.id
          /\ rt.revive.status = "Completed"

MemoryAgrees ==
    runtime # None =>
        /\ runtime \in Memories
        /\ Consistent(stored) /\ InTime(stored, clock)
        /\ CopiesAgree(runtime, stored)

\* While the operation runs, both who started it are there and can be told.
BothPlay ==
    InProgress =>
        /\ members = Seats /\ capable = Players
        /\ stage \in {"Door", "Boss"}
        /\ summaries = <<>>
        /\ \A i \in {1, 2} : health[Seats[i]] > 0 <=> stored.life[RoleAt(i)] = "Active"

StagesAgree ==
    /\ stage = "Boss" => InProgress /\ stored.phase = "EncounterActive"
    /\ stage = "Gone" <=> members = <<>>
    /\ stage = "Gone" => runtime = None
    /\ summaries = <<>> \/ stage \in {"Complete", "Failed", "Gone"}

\* The one who abandoned has gone, and the other is not yet.
EndAgrees ==
    /\ EndsAreTold
    /\ runtime # None /\ stored.terminal = "AbandonedDisconnect" => Len(members) = 1

SessionInv == Types /\ MemoryAgrees /\ BothPlay /\ StagesAgree /\ EndAgrees

Leaving(p) == task # None /\ task.kind = "Leave" /\ task.by = p

\* The command in hand is that of a participant, and whoever departs is on its way out.
TaskInv ==
    /\ task # None =>
        /\ task.by \in Players /\ Seated(task.by)
        /\ task.kind \in {"Start", "Ping", "Revive"} => task.arg \in OperationIds
        /\ task.kind = "Move" => task.arg \in Places
        /\ task.kind = "Leave" /\ InProgress => ~Expired(stored, clock)
    /\ \A p \in Players : Seated(p) => p \in online \/ Leaving(p)

RuntimeInv == SessionInv /\ TaskInv

-----------------------------------------------------------------------------
(* Who is there *)

\* Both players.
LEMMA BothSeated ==
    ASSUME members = Seats
    PROVE  /\ Len(members) = 2
           /\ members[1] = Seats[1] /\ members[2] = Seats[2]
           /\ \A p \in Players : Seated(p)
           /\ Seat(Seats[1]) = 1 /\ Seat(Seats[2]) = 2
           /\ Player("Anchor") = Seats[1] /\ Player("Runner") = Seats[2]
           /\ DOMAIN members = {1, 2}
<1>1. Seats = <<Seats[1], Seats[2]>> /\ Seats[1] # Seats[2]
  BY RuntimeAssumption
<1>2. /\ Len(members) = 2 /\ DOMAIN members = {1, 2}
      /\ members[1] = Seats[1] /\ members[2] = Seats[2]
  BY <1>1
<1> QED
  BY <1>1, <1>2 DEF Seated, Contains, Players, Seat, Player

\* One of them.
LEMMA OneSeated ==
    ASSUME NEW q \in Players, members = <<q>>
    PROVE  /\ Len(members) = 1 /\ members[1] = q
           /\ \A p \in Players : Seated(p) <=> p = q
           /\ Seat(q) = 1
<1>1. Len(members) = 1 /\ DOMAIN members = {1} /\ members[1] = q
  OBVIOUS
<1> QED
  BY <1>1 DEF Seated, Contains, Seat

\* Nobody.
LEMMA NoneSeated ==
    ASSUME members = <<>>
    PROVE  Len(members) = 0 /\ \A p : ~Seated(p)
  BY DEF Seated, Contains

\* The four are told apart.
LEMMA MembersDiffer ==
    /\ Seats # <<>> /\ <<Seats[1]>> # <<>> /\ <<Seats[2]>> # <<>>
    /\ <<Seats[1]>> # <<Seats[2]>>
    /\ \A p : Seats # <<p>> /\ Len(<<p>>) = 1
    /\ Len(<<>>) = 0
<1>1. Len(Seats) = 2 /\ Seats[1] # Seats[2]
  BY RuntimeAssumption
<1>2. <<Seats[1]>>[1] # <<Seats[2]>>[1]
  BY <1>1
<1>3. \A p : Len(<<p>>) = 1
  OBVIOUS
<1>4. Len(<<>>) = 0
  OBVIOUS
<1> QED
  BY <1>1, <1>2, <1>3, <1>4

\* Whoever is there: both, one of them, or nobody.
LEMMA LengthOfMembers ==
    ASSUME Types
    PROVE  /\ Len(members) \in {0, 1, 2}
           /\ Len(members) = 2 <=> members = Seats
           /\ Len(members) = 0 <=> members = <<>>
<1>1. CASE members = Seats
  BY <1>1, BothSeated, MembersDiffer
<1>2. ASSUME NEW q \in Players, members = <<q>>
      PROVE  Len(members) = 1 /\ members # Seats /\ members # <<>>
  BY <1>2, OneSeated, MembersDiffer DEF Players
<1>3. CASE members = <<>>
  BY <1>3, NoneSeated, MembersDiffer
<1>4. Seats[1] \in Players /\ Seats[2] \in Players
  BY DEF Players
<1>5. CASE members = <<Seats[1]>>
  BY <1>2, <1>4, <1>5
<1>6. CASE members = <<Seats[2]>>
  BY <1>2, <1>4, <1>6
<1> QED
  BY <1>1, <1>3, <1>5, <1>6 DEF Types

\* The one who leaves two leaves the other.
LEMMA LeavesOther ==
    ASSUME members = Seats, NEW i \in {1, 2}
    PROVE  RemoveAt(members, Seat(Seats[i])) = <<Seats[3 - i]>>
<1>1. /\ Seat(Seats[1]) = 1 /\ Seat(Seats[2]) = 2
      /\ members = <<Seats[1], Seats[2]>>
  BY BothSeated, RuntimeAssumption
<1>2. /\ members \in Seq(Players) /\ Len(members) = 2
      /\ members[1] = Seats[1] /\ members[2] = Seats[2]
  BY <1>1 DEF Players
<1>3. \A j \in {1, 2} : members[j] = Seats[j] /\ SubSeq(members, j, j) = <<Seats[j]>>
  <2> SUFFICES ASSUME NEW j \in {1, 2} PROVE SubSeq(members, j, j) = <<Seats[j]>>
    BY <1>2
  <2>1. \A k \in j .. j : members[k] \in Players
    BY <1>2 DEF Players
  <2>2. /\ SubSeq(members, j, j) \in Seq(Players) /\ Len(SubSeq(members, j, j)) = 1
        /\ SubSeq(members, j, j)[1] = Seats[j]
    BY <1>2, <2>1, SubSeqProperties
  <2>3. /\ <<Seats[j]>> \in Seq(Players) /\ Len(<<Seats[j]>>) = 1
        /\ <<Seats[j]>>[1] = Seats[j]
    BY DEF Players
  <2>4. \A k \in 1 .. Len(SubSeq(members, j, j)) : SubSeq(members, j, j)[k] = <<Seats[j]>>[k]
    BY <2>2, <2>3
  <2> QED
    BY <2>2, <2>3, <2>4, SeqEqual
<1>4. CASE i = 1
  <2>1. RemoveAt(members, 1) = SubSeq(members, 1, 0) \o SubSeq(members, 2, 2)
    BY <1>2 DEF RemoveAt
  <2>2. SubSeq(members, 1, 0) = <<>>
    BY SubSeqEmpty
  <2> QED
    BY <1>1, <1>3, <1>4, <2>1, <2>2
<1>5. CASE i = 2
  <2>1. RemoveAt(members, 2) = SubSeq(members, 1, 1) \o SubSeq(members, 3, 2)
    BY <1>2 DEF RemoveAt
  <2>2. SubSeq(members, 3, 2) = <<>>
    BY SubSeqEmpty
  <2> QED
    BY <1>1, <1>3, <1>5, <2>1, <2>2
<1> QED
  BY <1>4, <1>5

-----------------------------------------------------------------------------
(* The memory *)

\* What an end leaves as it was.
LEMMA EndingStep ==
    ASSUME NEW s, NEW t, NEW e, Consistent(s), Consistent(t), Running(s), ~Running(t),
           StepOf(s, t, e)
    PROVE  /\ t.ping = s.ping /\ t.channel = None
           /\ t.completedRevive = s.completedRevive
           /\ t.phase \in {"Succeeded", "Failed"}
<1>0. s \in CooperationStates
  BY DEF Consistent
<1>1. ASSUME NEW u \in CooperationStates, NEW outcome, u.ping = s.ping,
             u.completedRevive = s.completedRevive, t = CommitTerminal(u, outcome)
      PROVE  /\ t.ping = s.ping /\ t.channel = None
             /\ t.completedRevive = s.completedRevive
             /\ t.phase \in {"Succeeded", "Failed"}
  BY <1>1 DEF CommitTerminal, CooperationStates
<1>2. /\ CountWarden(s) \in CooperationStates
      /\ CountWarden(s).ping = s.ping
      /\ CountWarden(s).completedRevive = s.completedRevive
  BY <1>0 DEF CountWarden, CooperationStates, Contributions
<1>3. ASSUME NEW role \in Roles
      PROVE  /\ Strike(s, role) \in CooperationStates
             /\ Strike(s, role).ping = s.ping
             /\ Strike(s, role).completedRevive = s.completedRevive
  BY <1>0 DEF Strike, CooperationStates, LifeStates
<1>4. /\ \A id : Running(Pings(s, id, e)) /\ Running(OpenChannel(s, id, e))
      /\ Running(AnchorArrives(s)) /\ Running(RunnerFalls(s, e))
      /\ Running(CancelRevive(s)) /\ Running(FinishRevive(s))
  BY <1>0 DEF Running, CooperationStates, Pings, OpenChannel, AnchorArrives, RunnerFalls,
              CancelRevive, FinishRevive
<1> QED
  BY <1>0, <1>1, <1>2, <1>3, <1>4 DEF StepOf, LiveStepOf

\* A ping that is over is still the ping that was stored.
LEMMA QuietCopies ==
    ASSUME NEW ping \in PingCopies \cup {None}
    PROVE  /\ Quiet(ping) \in PingCopies \cup {None}
           /\ Quiet(ping) = None <=> ping = None
           /\ ping # None => /\ Quiet(ping).id = ping.id /\ Quiet(ping).at = ping.at
                             /\ Quiet(ping).active = FALSE
  BY RecordsAssumption DEF Quiet, PingCopies

\* An end that is shown leaves a memory that agrees with the store.
LEMMA EndedIsMemory ==
    ASSUME runtime \in Memories, clock \in Elapsed, stored' \in CooperationStates,
           NEW subject \in Roles \cup {None}
    PROVE  /\ Ended(subject) \in Memories
           /\ Ended(subject).state = stored' /\ Ended(subject).ping = Quiet(runtime.ping)
           /\ Ended(subject).revive = runtime.revive
           /\ Ended(subject).last = runtime.state.phase
           /\ Ended(subject).endedAt = clock /\ Ended(subject).subject = subject
<1>1. Quiet(runtime.ping) \in PingCopies \cup {None} /\ runtime.state.phase \in Phases
  BY QuietCopies DEF Memories, CooperationStates
<1> QED
  BY <1>1 DEF Ended, Memories

\* So does an update of a running operation.
LEMMA UpdatedIsMemory ==
    ASSUME runtime \in Memories, stored' \in CooperationStates,
           NEW ping \in PingCopies \cup {None}, NEW revive \in ReviveCopies \cup {None}
    PROVE  /\ Updated(ping, revive) \in Memories
           /\ Updated(ping, revive).state = stored'
           /\ Updated(ping, revive).ping = ping /\ Updated(ping, revive).revive = revive
<1>1. stored'.phase \in Phases
  BY DEF CooperationStates
<1> QED
  BY <1>1 DEF Updated, Memories

-----------------------------------------------------------------------------
(* The ways a command leaves the session *)

\* What is known while the operation runs.
LEMMA WhilePlaying ==
    ASSUME SessionInv, InProgress
    PROVE  /\ runtime # None /\ runtime \in Memories /\ runtime.state = stored
           /\ Running(stored) /\ Consistent(stored) /\ stored \in CooperationStates
           /\ InTime(stored, clock) /\ clock \in Elapsed /\ CopiesAgree(runtime, stored)
           /\ members = Seats /\ capable = Players /\ summaries = <<>>
           /\ stage \in {"Door", "Boss"} /\ Len(members) = 2
           /\ Player("Anchor") = Seats[1] /\ Player("Runner") = Seats[2]
  BY BothSeated
  DEF SessionInv, MemoryAgrees, BothPlay, Types, InProgress, CopiesAgree, Consistent

\* Nothing happens.
LEMMA IgnoreKeeps ==
    ASSUME SessionInv, Ignore, UNCHANGED <<stored, clock>>
    PROVE  SessionInv' /\ members' = members /\ (InProgress' <=> InProgress)
  BY DEF SessionInv, Ignore, session, Types, MemoryAgrees, BothPlay, StagesAgree, EndAgrees,
         EndsAreTold, SubjectOf, Seated, InProgress

\* The session is thrown away.
LEMMA ResetKeeps ==
    ASSUME SessionInv, Reset, clock' \in Elapsed
    PROVE  SessionInv' /\ members' = <<>> /\ stage' = "Gone" /\ ~InProgress'
<1>1. Types'
  BY DEF SessionInv, Types, Reset, Places
<1>2. MemoryAgrees' /\ BothPlay' /\ ~InProgress'
  BY DEF MemoryAgrees, BothPlay, InProgress, Reset
<1>3. StagesAgree'
  BY DEF StagesAgree, Reset
<1>4. EndAgrees'
  BY DEF SessionInv, EndAgrees, EndsAreTold, Reset
<1> QED
  BY <1>1, <1>2, <1>3, <1>4 DEF SessionInv, Reset

\* The operation goes on.
LEMMA GoingOnKeeps ==
    ASSUME SessionInv, InProgress, StepOf(stored, stored', clock), clock' = clock,
           Running(stored'), UNCHANGED <<members, capable, summaries>>,
           runtime' \in Memories, CopiesAgree(runtime', stored'),
           place' \in [Players -> Places], kit' = kit, health' \in [Players -> Nat],
           \A i \in {1, 2} : health'[Seats[i]] > 0 <=> stored'.life[RoleAt(i)] = "Active",
           stage' \in {"Door", "Boss"},
           stage' = "Boss" => runtime' # None /\ stored'.phase = "EncounterActive"
    PROVE  SessionInv' /\ members' = members
<1>0. /\ Consistent(stored) /\ InTime(stored, clock) /\ members = Seats
      /\ capable = Players /\ summaries = <<>> /\ clock \in Elapsed /\ Len(members) = 2
  BY WhilePlaying
<1>1. Types'
  BY DEF SessionInv, Types
<1>2. Consistent(stored') /\ InTime(stored', clock)
  BY <1>0, StepConsistent, StepInTime
<1>3. MemoryAgrees'
  BY <1>2 DEF MemoryAgrees
<1>4. runtime'.state = stored'
  BY DEF CopiesAgree
<1>5. BothPlay'
  BY <1>0 DEF BothPlay, InProgress
<1>6. StagesAgree'
  <2>1. members' # <<>> /\ summaries' = <<>> /\ stage' # "Gone"
    BY <1>0, MembersDiffer
  <2> QED
    BY <1>4, <2>1 DEF StagesAgree, InProgress, Running
<1>7. EndAgrees'
  BY <1>0, <1>4 DEF EndAgrees, EndsAreTold, Running
<1> QED
  BY <1>1, <1>3, <1>5, <1>6, <1>7 DEF SessionInv

\* The operation has ended, its end is told, and what is known of it fits the end.
LEMMA EndingKeeps ==
    ASSUME SessionInv, InProgress, StepOf(stored, stored', clock), clock' = clock,
           ~Running(stored'), NEW subject \in Roles \cup {None},
           runtime' = Ended(subject), Tell(Ended(subject)),
           stage' = (IF stored'.terminal = "Succeeded" THEN "Complete" ELSE "Failed"),
           members' \in {Seats, <<Seats[1]>>, <<Seats[2]>>}, capable' \subseteq Players,
           place' \in [Players -> Places], kit' = kit, health' \in [Players -> Nat],
           stored'.terminal = "AbandonedDisconnect" => Len(members') = 1,
           subject = SubjectOf(stored)'
    PROVE  SessionInv' /\ ~InProgress'
<1>0. /\ runtime \in Memories /\ runtime.state = stored /\ runtime # None
      /\ Running(stored) /\ Consistent(stored) /\ stored \in CooperationStates
      /\ InTime(stored, clock) /\ clock \in Elapsed /\ CopiesAgree(runtime, stored)
      /\ members = Seats /\ capable = Players /\ summaries = <<>> /\ Len(members) = 2
  BY WhilePlaying
<1>1. Types'
  BY <1>0 DEF SessionInv, Types
<1>2. Consistent(stored') /\ InTime(stored', clock) /\ stored' \in CooperationStates
  BY <1>0, StepConsistent, StepInTime DEF Consistent
<1>3. /\ stored'.ping = stored.ping /\ stored'.channel = None
      /\ stored'.completedRevive = stored.completedRevive
      /\ stored'.phase \in {"Succeeded", "Failed"}
  BY <1>0, <1>2, EndingStep
<1>4. /\ runtime'.state = stored' /\ runtime'.ping = Quiet(runtime.ping)
      /\ runtime'.revive = runtime.revive /\ runtime'.last = stored.phase
      /\ runtime'.endedAt = clock /\ runtime'.subject = subject
      /\ runtime' \in Memories
  BY <1>0, <1>2, EndedIsMemory
<1>5. CopiesAgree(runtime', stored')
  <2>1. runtime.ping \in PingCopies \cup {None}
    BY <1>0 DEF Memories
  <2>2. /\ runtime'.ping = None <=> runtime.ping = None
        /\ runtime.ping # None => /\ runtime'.ping.id = runtime.ping.id
                                 /\ runtime'.ping.at = runtime.ping.at
                                 /\ runtime'.ping.active = FALSE
    BY <1>4, <2>1, QuietCopies
  <2>3. stored'.ping # None => runtime.ping # None /\ stored'.phase # "AwaitingRunner"
    BY <1>0, <1>3 DEF CopiesAgree
  <2> QED
    BY <1>0, <1>3, <1>4, <2>2, <2>3 DEF CopiesAgree
<1>6. MemoryAgrees'
  BY <1>2, <1>4, <1>5 DEF MemoryAgrees
<1>7. BothPlay' /\ ~InProgress'
  BY <1>4 DEF BothPlay, InProgress, Running
<1>8. StagesAgree'
  <2>1. members' # <<>> /\ stage' \in {"Complete", "Failed"}
    BY MembersDiffer
  <2> QED
    BY <2>1 DEF StagesAgree
<1>9. EndAgrees'
  <2>1. /\ summaries' = <<Summary(Ended(subject))>>
        /\ Summary(Ended(subject)) = [outcome |-> stored'.terminal, last |-> stored.phase,
                                      subject |-> subject, at |-> clock, to |-> Players]
    BY <1>0, <1>4 DEF Tell, Summary
  <2>2. stored.phase \notin {"Succeeded", "Failed"}
    BY <1>0 DEF Consistent, OutcomeAgrees, Running, Failures, Timeouts
  <2>3. SubjectOf(runtime.state)' = subject
    BY <1>4 DEF SubjectOf, Seated
  <2>4. EndsAreTold'
    BY <1>4, <2>1, <2>2, <2>3 DEF EndsAreTold
  <2> QED
    BY <2>4 DEF EndAgrees
<1> QED
  BY <1>1, <1>6, <1>7, <1>8, <1>9 DEF SessionInv

-----------------------------------------------------------------------------
(* Observing the clock *)

\* The places are a few steps apart.
LEMMA DistanceIsNatural ==
    ASSUME NEW spot \in Places, SessionInv, InProgress
    PROVE  DistanceFrom(spot) \in Nat /\ Distance \in Nat
<1>1. /\ place[Player("Runner")] \in Places /\ place[Player("Anchor")] \in Places
  BY WhilePlaying DEF SessionInv, Types, Players
<1>2. ASSUME NEW a \in Places, NEW b \in Places
      PROVE  Square(Spot[a][1] - Spot[b][1]) + Square(Spot[a][2] - Spot[b][2]) \in Nat
  BY DEF Places, Spot, Square
<1> QED
  BY <1>1, <1>2 DEF DistanceFrom, Distance

\* A deadline that has passed has no subject.
LEMMA TimeoutEnds ==
    ASSUME Consistent(stored), Running(stored), Late
    PROVE  /\ StepOf(stored, stored', clock) /\ ~Running(stored')
           /\ stored'.terminal \in Timeouts /\ SubjectOf(stored)' = None
<1>1. stored \in CooperationStates
  BY DEF Consistent
<1>2. stored'.terminal \in Timeouts
  BY <1>1, CommitTerminalSets DEF Late, TimeoutAt, Timeouts
<1> QED
  BY <1>2 DEF Late, StepOf, Running, Timeouts, SubjectOf

\* A deadline found before a command ends the operation for everyone.
LEMMA LateKeeps ==
    ASSUME SessionInv, InProgress, Late, Finish(None), UNCHANGED world
    PROVE  SessionInv' /\ members' = members /\ ~InProgress'
<1>1. /\ Running(stored) /\ Consistent(stored) /\ members = Seats /\ capable = Players
      /\ clock' = clock
  BY WhilePlaying DEF Late
<1>2. /\ StepOf(stored, stored', clock) /\ ~Running(stored')
      /\ stored'.terminal \in Timeouts /\ SubjectOf(stored)' = None
  BY <1>1, TimeoutEnds
<1>3. /\ runtime' = Ended(None) /\ Tell(Ended(None)) /\ stage' = "Failed"
      /\ members' = members /\ capable' = capable
      /\ place' = place /\ kit' = kit /\ health' = health
  BY <1>2 DEF Finish, FinishRuntime, world, Timeouts
<1>4. /\ stage' = (IF stored'.terminal = "Succeeded" THEN "Complete" ELSE "Failed")
      /\ stored'.terminal # "AbandonedDisconnect"
  BY <1>2, <1>3 DEF Timeouts
<1>5. place' \in [Players -> Places] /\ health' \in [Players -> Nat]
  BY <1>3 DEF SessionInv, Types
<1> QED
  BY <1>1, <1>2, <1>3, <1>4, <1>5, EndingKeeps

\* The channel, when it is open, is the one in memory.
LEMMA OpenChannelIsKnown ==
    ASSUME SessionInv, InProgress, stored.phase = "ReviveChannel"
    PROVE  /\ runtime.revive \in ReviveCopies /\ runtime.revive.id \in OperationIds
           /\ stored.channel.id = runtime.revive.id /\ stored.channel # None
           /\ stored.completedRevive = None
           /\ stored.ping # None /\ runtime.ping \in PingCopies \cup {None}
<1>1. Consistent(stored) /\ CopiesAgree(runtime, stored) /\ runtime \in Memories
  BY WhilePlaying
<1>2. stored.channel # None /\ stored.completedRevive = None /\ stored.ping # None
  BY <1>1 DEF Consistent, ContributionsAgree, OutcomeAgrees, RevivedOnce, RecordedIn
<1> QED
  BY <1>1, <1>2 DEF CopiesAgree, ReviveCopies, Memories

\* What an observation of the channel does to the operation.
LEMMA ObservedStates ==
    ASSUME NEW s \in CooperationStates, NEW e
    PROVE  /\ CancelRevive(s).ping = s.ping /\ CancelRevive(s).channel = None
           /\ CancelRevive(s).completedRevive = s.completedRevive
           /\ CancelRevive(s).phase = "RunnerDowned" /\ CancelRevive(s).life = s.life
           /\ CancelRevive(s).terminal = s.terminal
           /\ CancelRevive(s).downedAt = s.downedAt
           /\ FinishRevive(s).ping = s.ping /\ FinishRevive(s).channel = None
           /\ FinishRevive(s).completedRevive = s.channel.id
           /\ FinishRevive(s).phase = "EncounterActive"
           /\ FinishRevive(s).life["Runner"] = "Active"
           /\ FinishRevive(s).life["Anchor"] = s.life["Anchor"]
           /\ FinishRevive(s).terminal = s.terminal
  BY DEF CancelRevive, FinishRevive, CooperationStates, Roles

\* A call that was lost takes the session along.
LEMMA UnsureKeeps ==
    ASSUME SessionInv, clock' = clock, Abort
    PROVE  SessionInv' /\ members' = <<>> /\ stage' = "Gone" /\ ~InProgress'
  BY ResetKeeps DEF Abort, SessionInv, Types

\* The observation of the clock before a command keeps the invariant.
LEMMA ObservationKeeps ==
    ASSUME SessionInv, InProgress, stored.phase = "ReviveChannel", NEW distance \in Nat,
           ReviveObserved(runtime.revive.id, distance),
           Settle(ReviveApplied /\ place' \in [Players -> Places] /\ kit' = kit)
    PROVE  /\ SessionInv'
           /\ \/ reply' = "Lost" /\ members' = <<>>
              \/ /\ Answered /\ members' = members
                 /\ InProgress' => ~Expired(stored', clock')
<1> DEFINE id == runtime.revive.id
<1>0. /\ runtime \in Memories /\ runtime.state = stored /\ CopiesAgree(runtime, stored)
      /\ Running(stored) /\ Consistent(stored) /\ stored \in CooperationStates
      /\ InTime(stored, clock) /\ clock \in Elapsed
      /\ members = Seats /\ summaries = <<>> /\ stage \in {"Door", "Boss"}
      /\ Player("Runner") = Seats[2] /\ runtime # None
  BY WhilePlaying
<1>1. /\ runtime.revive \in ReviveCopies /\ id \in OperationIds
      /\ stored.channel.id = id /\ stored.completedRevive = None /\ stored.ping # None
      /\ runtime.ping \in PingCopies \cup {None}
  BY OpenChannelIsKnown
<1>2. \/ Unsure \/ Late
      \/ Done("Cancelled", CancelRevive(stored))
      \/ Done("Pending", stored)
      \/ Done("Applied", FinishRevive(stored))
  BY <1>0, <1>1, ReviveObservedTells
<1>3. CASE Unsure
  <2>1. reply' = "Lost" /\ clock' = clock /\ Abort
    BY <1>3 DEF Unsure, Kept, Settle, Failed, Refused, Answered
  <2> QED
    BY <2>1, UnsureKeeps
<1>4. CASE Late
  <2>1. ~Running(stored') /\ Answered
    BY <1>0, <1>4, TimeoutEnds DEF Late, Answered, Failed, Refused
  <2>2. Finish(None) /\ UNCHANGED world
    BY <2>1 DEF Settle, Answered
  <2> QED
    BY <1>4, <2>1, <2>2, LateKeeps
<1>5. ASSUME Done("Cancelled", CancelRevive(stored)) \/ Done("Pending", stored)
             \/ Done("Applied", FinishRevive(stored))
      PROVE  SessionInv' /\ Answered /\ members' = members
             /\ (InProgress' => ~Expired(stored', clock'))
  <2>1. /\ Answered /\ clock' = clock /\ ~Expired(stored, clock)
        /\ reply' \in {"Cancelled", "Pending", "Applied"}
    BY <1>5 DEF Done, Answered, Failed, Refused
  <2>2. Running(stored') /\ StepOf(stored, stored', clock)
    BY <1>0, <1>5, ObservedStates DEF Done, Running, StepOf, LiveStepOf
  <2>3. ReviveApplied /\ place' \in [Players -> Places] /\ kit' = kit
    BY <2>1, <2>2 DEF Settle, Answered
  <2> DEFINE ping   == Quiet(runtime.ping)
             revive == [runtime.revive EXCEPT !.status = ReviveStatus[reply']]
  <2>4. /\ runtime' = Updated(ping, revive)
        /\ UNCHANGED <<members, capable, stage, summaries>>
    BY <2>3 DEF ReviveApplied, Remember
  <2>5. stored' \in CooperationStates
    BY <1>0, <2>2, StepConsistent DEF Consistent
  <2>6. /\ revive \in ReviveCopies /\ revive.id = id /\ revive.at = runtime.revive.at
        /\ revive.status = ReviveStatus[reply']
    BY <1>1, <2>1 DEF ReviveCopies, ReviveStatus
  <2>7. ping \in PingCopies \cup {None}
    BY <1>1, QuietCopies
  <2>8. /\ runtime' \in Memories /\ runtime'.state = stored'
        /\ runtime'.ping = ping /\ runtime'.revive = revive
    BY <1>0, <2>4, <2>5, <2>6, <2>7, UpdatedIsMemory
  <2>9. CopiesAgree(runtime', stored')
    <3>1. stored'.ping = stored.ping /\ stored'.phase # "AwaitingRunner"
      BY <1>0, <1>5, ObservedStates DEF Done
    <3>2. /\ ping = None <=> runtime.ping = None
          /\ runtime.ping # None => /\ ping.id = runtime.ping.id /\ ping.at = runtime.ping.at
                                   /\ ping.active = FALSE
      BY <1>1, QuietCopies
    <3>3. \/ stored'.channel = None /\ stored'.completedRevive = None
          \/ /\ stored'.channel = stored.channel /\ stored'.completedRevive = None
             /\ reply' = "Pending"
          \/ /\ stored'.channel = None /\ stored'.completedRevive = id
             /\ reply' = "Applied"
      BY <1>0, <1>1, <1>5, ObservedStates DEF Done
    <3>4. /\ stored'.channel # None =>
                /\ stored'.channel = [id |-> revive.id, at |-> revive.at]
                /\ revive.status = "Pending"
          /\ stored'.completedRevive # None =>
                /\ stored'.completedRevive = revive.id
                /\ revive.status = "Completed"
      BY <1>0, <1>1, <2>6, <3>3 DEF CopiesAgree, ReviveStatus
    <3>5. /\ stored'.ping = (IF ping = None THEN None ELSE [id |-> ping.id, at |-> ping.at])
          /\ stored'.ping # None => ping.active = FALSE
      BY <1>0, <3>1, <3>2 DEF CopiesAgree
    <3> HIDE DEF ping, revive
    <3> QED
      BY <2>6, <2>8, <3>1, <3>4, <3>5 DEF CopiesAgree
  <2>10. /\ health' \in [Players -> Nat]
         /\ \A i \in {1, 2} :
               health'[Seats[i]] > 0 <=> stored'.life[RoleAt(i)] = "Active"
    <3>1. /\ health \in [Players -> Nat] /\ kit[Seats[2]] \in Profiles
          /\ Seats[1] # Seats[2] /\ Players = {Seats[1], Seats[2]}
      BY RuntimeAssumption DEF SessionInv, Types, Players
    <3>2. \A i \in {1, 2} : health[Seats[i]] > 0 <=> stored.life[RoleAt(i)] = "Active"
      BY DEF SessionInv, BothPlay
    <3>3. CASE reply' = "Applied"
      <4>1. /\ stored'.life["Runner"] = "Active"
            /\ stored'.life["Anchor"] = stored.life["Anchor"]
        BY <1>0, <1>5, <3>3, ObservedStates DEF Done
      <4> DEFINE h == Least(ReviveHealth, kit[Seats[2]].max_health)
      <4>2. h \in Nat /\ h > 0
        BY <3>1, ProfilesAssumption, DurationsAssumption DEF Least
      <4>3. health' = [health EXCEPT ![Seats[2]] = h]
        BY <1>0, <2>3, <3>3 DEF ReviveApplied
      <4> HIDE DEF h
      <4> QED
        BY <3>1, <3>2, <4>1, <4>2, <4>3 DEF RoleAt
    <3>4. CASE reply' # "Applied"
      <4>1. stored'.life = stored.life /\ health' = health
        BY <1>0, <1>5, <2>3, <3>4, ObservedStates DEF Done, ReviveApplied
      <4> QED
        BY <3>1, <3>2, <4>1
    <3> QED
      BY <3>3, <3>4
  <2>11. ~Expired(stored', clock')
    BY <1>0, <1>5, <2>1, ObservedStates DEF Done, Expired, PingExpired, ReviveExpired
  <2>12. stage' = "Door"
    BY <1>0, <2>4 DEF SessionInv, StagesAgree
  <2> HIDE DEF ping, revive
  <2> QED
    BY <1>0, <2>1, <2>2, <2>3, <2>4, <2>8, <2>9, <2>10, <2>11, <2>12, GoingOnKeeps
<1> QED
  BY <1>2, <1>3, <1>4, <1>5

\* Whatever the clock shows, the command that observed it goes on in a session that agrees
\* with what is stored, or the database has failed.
LEMMA ObserveClockKeeps ==
    ASSUME SessionInv, NEW next, NEW finished, ObserveClock(next, finished)
    PROVE  /\ SessionInv'
           /\ \/ reply' = "Lost" /\ members' = <<>> /\ task' = None
              \/ /\ members' = members /\ task' \in {next, finished}
                 /\ InProgress' => ~Expired(stored', clock')
<1>1. CASE ~InProgress /\ task' = next /\ Ignore /\ NoCall
  <2>1. UNCHANGED <<stored, clock>>
    BY <1>1 DEF NoCall
  <2> QED
    BY <1>1, <2>1, IgnoreKeeps
<1>2. CASE /\ InProgress /\ runtime.state.phase = "ReviveChannel"
           /\ ObserveChannel(Distance)
           /\ task' = After(next, finished)
  <2>1. /\ stored.phase = "ReviveChannel" /\ Distance \in Nat
        /\ Len(members) = 2
    BY <1>2, WhilePlaying, DistanceIsNatural DEF SessionInv, Types, Places
  <2>2. Settle(ReviveApplied /\ place' \in [Players -> Places] /\ kit' = kit)
    <3>1. place \in [Players -> Places]
      BY DEF SessionInv, Types
    <3> QED
      BY <1>2, <3>1 DEF ObserveChannel, Settle
  <2>3. /\ SessionInv'
        /\ \/ reply' = "Lost" /\ members' = <<>>
           \/ /\ Answered /\ members' = members
              /\ InProgress' => ~Expired(stored', clock')
    BY <1>2, <2>1, <2>2, ObservationKeeps DEF ObserveChannel
  <2>4. /\ reply' = "Lost" => task' = None
        /\ Answered => task' \in {next, finished}
    BY <1>2, <2>1 DEF After, Answered, Failed
  <2> QED
    BY <2>3, <2>4
<1>3. CASE /\ InProgress /\ runtime.state.phase # "ReviveChannel"
           /\ Expired(runtime.state, clock)
           /\ TimedOut /\ Settle(Ignore)
           /\ task' = After(next, finished)
  <2>0. /\ runtime.state = stored /\ Running(stored) /\ Consistent(stored)
        /\ Len(members) = 2
    BY <1>3, WhilePlaying
  <2>1. Unsure \/ Late
    BY <1>3, <2>0, TimedOutTells
  <2>2. CASE Unsure
    <3>1. reply' = "Lost" /\ clock' = clock /\ Abort /\ task' = None
      BY <1>3, <2>2 DEF Unsure, Kept, Settle, Failed, Refused, Answered, After
    <3> QED
      BY <3>1, UnsureKeeps
  <2>3. CASE Late
    <3>1. ~Running(stored') /\ Answered
      BY <2>0, <2>3, TimeoutEnds DEF Late, Answered, Failed, Refused
    <3>2. Finish(None) /\ UNCHANGED world /\ task' \in {next, finished}
      BY <1>3, <2>0, <3>1 DEF Settle, Answered, After
    <3> QED
      BY <1>3, <2>3, <3>1, <3>2, LateKeeps
  <2> QED
    BY <2>1, <2>2, <2>3
<1>4. CASE /\ InProgress /\ runtime.state.phase # "ReviveChannel"
           /\ ~Expired(runtime.state, clock)
           /\ task' = next /\ Ignore /\ NoCall
  <2>1. UNCHANGED <<stored, clock>> /\ runtime.state = stored
    BY <1>4, WhilePlaying DEF NoCall
  <2> QED
    BY <1>4, <2>1, IgnoreKeeps
<1> QED
  BY <1>1, <1>2, <1>3, <1>4 DEF ObserveClock

-----------------------------------------------------------------------------
(* The commands *)

\* A call that is lost, too late or in vain, whatever the handler would have done after it.
LEMMA SettledEarly ==
    ASSUME SessionInv, runtime # None, Settle(TRUE),
           \/ Unsure
           \/ InProgress /\ Late
           \/ InVain("Terminal") \/ InVain("Rejected")
    PROVE  SessionInv' /\ (members' = members \/ (reply' = "Lost" /\ members' = <<>>))
<1>1. CASE Unsure
  <2>1. reply' = "Lost" /\ clock' = clock /\ Abort
    BY <1>1 DEF Unsure, Kept, Settle, Failed, Refused, Answered
  <2> QED
    BY <2>1, UnsureKeeps
<1>2. CASE InProgress /\ Late
  <2>1. ~Running(stored') /\ Answered
    BY <1>2, WhilePlaying, TimeoutEnds DEF Late, Answered, Failed, Refused
  <2>2. Finish(None) /\ UNCHANGED world
    BY <2>1 DEF Settle, Answered
  <2> QED
    BY <1>2, <2>1, <2>2, LateKeeps
<1>3. CASE InVain("Terminal") \/ InVain("Rejected")
  <2>1. Ignore /\ UNCHANGED <<stored, clock>>
    BY <1>3 DEF InVain, Settle, Failed, Refused, Answered
  <2> QED
    BY <2>1, IgnoreKeeps
<1> QED
  BY <1>1, <1>2, <1>3

\* The actors move, change or are hurt; nobody falls or rises of it.
LEMMA WorldKeeps ==
    ASSUME SessionInv,
           UNCHANGED <<stored, clock, members, capable, stage, runtime, summaries>>,
           place' \in [Players -> Places], kit' \in [Players -> Profiles],
           \A p \in Players : kit'[p] \in Owned[p],
           health' \in [Players -> Nat],
           InProgress => \A p \in Players : health'[p] > 0 <=> health[p] > 0
    PROVE  SessionInv' /\ members' = members
<1>1. Types'
  BY DEF SessionInv, Types
<1>2. BothPlay'
  BY DEF SessionInv, BothPlay, InProgress, Players
<1>3. MemoryAgrees' /\ StagesAgree'
  BY DEF SessionInv, MemoryAgrees, StagesAgree, InProgress
<1>4. EndAgrees'
  BY DEF SessionInv, EndAgrees, EndsAreTold, SubjectOf, Seated
<1> QED
  BY <1>1, <1>2, <1>3, <1>4 DEF SessionInv

\* A repeated call changes nothing that the memory holds.
LEMMA RepeatKeeps ==
    ASSUME SessionInv, InProgress, stored' = stored, clock' = clock,
           Remember(Updated(runtime.ping, runtime.revive)), UNCHANGED world
    PROVE  SessionInv' /\ members' = members
<1>0. /\ runtime # None /\ runtime \in Memories /\ CopiesAgree(runtime, stored)
      /\ Running(stored) /\ stored \in CooperationStates /\ stage \in {"Door", "Boss"}
      /\ members = Seats
  BY WhilePlaying
<1>1. runtime.ping \in PingCopies \cup {None} /\ runtime.revive \in ReviveCopies \cup {None}
  BY <1>0 DEF Memories
<1>2. /\ runtime' \in Memories /\ runtime'.state = stored'
      /\ runtime'.ping = runtime.ping /\ runtime'.revive = runtime.revive
      /\ UNCHANGED <<members, capable, stage, summaries, place, kit, health>>
  BY <1>0, <1>1, UpdatedIsMemory DEF Remember, world
<1>3. CopiesAgree(runtime', stored')
  BY <1>0, <1>2 DEF CopiesAgree
<1>4. place \in [Players -> Places] /\ health \in [Players -> Nat]
  BY DEF SessionInv, Types
<1>5. \A i \in {1, 2} : health[Seats[i]] > 0 <=> stored.life[RoleAt(i)] = "Active"
  BY DEF SessionInv, BothPlay
<1>6. stage = "Boss" => runtime' # None /\ stored.phase = "EncounterActive"
  BY <1>0, <1>2, RecordsAssumption DEF SessionInv, StagesAgree
<1>7. StepOf(stored, stored', clock) /\ Running(stored')
  BY <1>0 DEF StepOf
<1> QED
  BY <1>0, <1>2, <1>3, <1>4, <1>5, <1>6, <1>7, GoingOnKeeps

\* A state request answers from memory.
LEMMA StateRequestKeeps ==
    ASSUME SessionInv, NEW p \in Players, StateRequest(p)
    PROVE  SessionInv' /\ members' = members
<1>1. /\ UNCHANGED <<stored, clock, members, place, kit, health, stage, runtime, summaries>>
      /\ capable' \in {capable, capable \cup {p}}
  BY DEF StateRequest, NoCall, world
<1>2. Types'
  BY <1>1 DEF SessionInv, Types
<1>3. InProgress => capable' = capable
  BY <1>1 DEF SessionInv, BothPlay
<1> QED
  BY <1>1, <1>2, <1>3
  DEF SessionInv, MemoryAgrees, BothPlay, StagesAgree, EndAgrees, EndsAreTold, SubjectOf,
      Seated, InProgress

\* A first start that was written is in memory as it is stored.
LEMMA FreshKeeps ==
    ASSUME SessionInv, NEW id \in OperationIds, Eligible, clock' = clock,
           LET H == [r \in Roles |-> health[Player(r)]]
           IN  CanStart(Kits, H) /\ stored' = StartWithHealth(id, Kits, H),
           Remember(Fresh(id)), UNCHANGED world
    PROVE  SessionInv' /\ members' = members
<1> DEFINE H == [r \in Roles |-> health[Player(r)]]
<1>1. members = Seats /\ capable = Players /\ stage = "Door" /\ Len(members) = 2
  <2>1. members = Seats
    BY LengthOfMembers DEF SessionInv, Eligible
  <2> QED
    BY <2>1, BothSeated DEF Eligible, Players
<1>2. Player("Anchor") = Seats[1] /\ Player("Runner") = Seats[2]
  BY <1>1, BothSeated
<1>3. Kits \in [Roles -> Profiles] /\ H \in [Roles -> Nat]
  BY <1>2 DEF SessionInv, Types, Kits, Players, Roles
<1>4. /\ Consistent(stored') /\ stored' \in CooperationStates /\ InTime(stored', clock)
      /\ stored' = StartWithHealth(id, Kits, H) /\ CanStart(Kits, H)
  BY <1>3, StartConsistent DEF Consistent, StartWithHealth, InTime
<1>5. runtime' = Fresh(id) /\ UNCHANGED <<members, capable, stage, summaries, place, kit, health>>
  BY DEF Remember, world
<1>6. runtime' \in Memories
  BY <1>4, <1>5 DEF Fresh, Memories, Phases
<1>7. CopiesAgree(runtime', stored')
  BY <1>4, <1>5 DEF Fresh, CopiesAgree, StartWithHealth
<1>8. runtime'.state = stored' /\ Running(stored')
  BY <1>4, <1>5 DEF Fresh, StartWithHealth, Running
<1>9. Types'
  BY <1>5 DEF SessionInv, Types
<1>10. MemoryAgrees'
  BY <1>4, <1>6, <1>7 DEF MemoryAgrees
<1>11. BothPlay'
  <2>1. summaries = <<>>
    BY <1>1 DEF SessionInv, StagesAgree
  <2>2. \A i \in {1, 2} : /\ health[Seats[i]] > 0
                          /\ stored'.life[RoleAt(i)] = "Active"
    BY <1>2, <1>4 DEF StartWithHealth, CanStart, RoleAt, Roles
  <2> QED
    BY <1>1, <1>5, <2>1, <2>2 DEF BothPlay
<1>12. StagesAgree'
  BY <1>1, <1>5, MembersDiffer DEF SessionInv, StagesAgree
<1>13. EndAgrees'
  BY <1>4, <1>5, <1>8 DEF SessionInv, EndAgrees, EndsAreTold, Running, StartWithHealth
<1> QED
  BY <1>5, <1>9, <1>10, <1>11, <1>12, <1>13 DEF SessionInv

\* A start keeps the invariant, also when its answer is lost.
LEMMA StartCommandKeeps ==
    ASSUME SessionInv, members # <<>>, NEW p, NEW id \in OperationIds, StartCommand(p, id)
    PROVE  /\ SessionInv'
           /\ \/ members' = members
              \/ members' = <<>> /\ reply' = "Lost"
              \/ members' = <<>> /\ reply' = "Conflict" /\ (changed \/ Len(members) = 1)
<1> DEFINE H == [r \in Roles |-> health[Player(r)]]
<1>0. Len(members) \in {1, 2}
  BY LengthOfMembers DEF SessionInv
<1>1. CASE /\ runtime = None /\ Seat(p) = 1 /\ Eligible
           /\ FirstStart(id)
           /\ \/ Failed /\ Abort
              \/ Refused /\ Ignore
              \/ Answered /\ Remember(Fresh(id)) /\ UNCHANGED world
  <2>1. \/ /\ clock' = clock /\ reply' = "Applied" /\ CanStart(Kits, H)
           /\ stored' = StartWithHealth(id, Kits, H)
        \/ clock' = clock /\ reply' = "Lost"
        \/ InVain("Rejected")
        \/ InVain("Conflict") /\ ~Admissible
    BY <1>1 DEF FirstStart, Start, Put, Keep, InVain
  <2>2. CASE /\ clock' = clock /\ reply' = "Applied" /\ CanStart(Kits, H)
             /\ stored' = StartWithHealth(id, Kits, H)
    <3>1. Remember(Fresh(id)) /\ UNCHANGED world
      BY <1>1, <2>2 DEF Failed, Refused
    <3> QED
      BY <1>1, <2>2, <3>1, FreshKeeps
  <2>3. CASE clock' = clock /\ (reply' = "Lost" \/ (reply' = "Conflict" /\ ~Admissible))
    <3>1. Abort
      BY <1>1, <2>3 DEF Failed, Refused, Answered
    <3>2. SessionInv' /\ members' = <<>>
      BY <2>3, <3>1, UnsureKeeps
    <3>3. ~Admissible => changed \/ Len(members) = 1
      BY <1>0 DEF Admissible
    <3> QED
      BY <2>3, <3>2, <3>3
  <2>4. CASE InVain("Rejected")
    <3>1. Ignore /\ UNCHANGED <<stored, clock>>
      BY <1>1, <2>4 DEF Failed, Refused, Answered, InVain
    <3> QED
      BY <3>1, IgnoreKeeps
  <2> HIDE DEF H
  <2> QED
    BY <2>1, <2>2, <2>3, <2>4 DEF InVain
<1>2. CASE /\ runtime # None /\ Seat(p) = 1 /\ runtime.start = id
           /\ StartAgain(id)
           /\ \/ Failed /\ Abort
              \/ ~Failed /\ Ignore
  <2>1. /\ stored' = stored /\ clock' = clock
        /\ \/ reply' \in {"Rejected", "Replayed", "Lost"}
           \/ reply' = "Conflict" /\ ~Admissible
    BY <1>2 DEF StartAgain, RetriedStart, Put, Keep
  <2>2. CASE Failed /\ Abort
    BY <1>0, <2>1, <2>2, UnsureKeeps DEF Admissible, Failed
  <2>3. CASE Ignore
    BY <2>1, <2>3, IgnoreKeeps
  <2> QED
    BY <1>2, <2>2, <2>3
<1>3. CASE Ignore /\ NoCall
  BY <1>3, IgnoreKeeps DEF NoCall
<1> QED
  BY <1>1, <1>2, <1>3 DEF StartCommand

\* So does a ping.
LEMMA PingCommandKeeps ==
    ASSUME SessionInv, NEW p, NEW id \in OperationIds, PingCommand(p, id)
    PROVE  SessionInv' /\ (members' = members \/ (reply' = "Lost" /\ members' = <<>>))
<1>1. CASE ~(Seat(p) = 1 /\ runtime # None)
  BY <1>1, IgnoreKeeps DEF PingCommand, NoCall
<1>2. CASE Seat(p) = 1 /\ runtime # None
  <2> DEFINE ping == IF reply' = "Replayed" THEN runtime.ping
                     ELSE [id |-> id, at |-> clock, active |-> TRUE]
  <2>0. /\ PingOf(id)
        /\ Settle(Remember(Updated(ping, runtime.revive)) /\ UNCHANGED world)
        /\ Settle(TRUE)
        /\ runtime # None /\ runtime.state = stored /\ runtime \in Memories
    BY <1>2 DEF PingCommand, Settle, SessionInv, MemoryAgrees, CopiesAgree
  <2>1. \/ Unsure
        \/ InVain("Terminal") \/ InVain("Rejected")
        \/ InProgress /\ Late
        \/ InProgress /\ InVain("Replayed")
        \/ /\ InProgress /\ stored.phase = "AwaitingPing"
           /\ Done("Applied", Pings(stored, id, clock))
    BY <2>0, PingOfTells DEF InProgress
  <2>2. CASE Unsure \/ (InProgress /\ Late) \/ InVain("Terminal") \/ InVain("Rejected")
    BY <2>0, <2>2, SettledEarly
  <2>3. CASE InProgress /\ InVain("Replayed")
    <3>1. Running(stored') /\ Answered
      BY <2>3, WhilePlaying DEF InVain, Running, Answered, Failed, Refused
    <3>2. /\ Remember(Updated(runtime.ping, runtime.revive)) /\ UNCHANGED world
          /\ stored' = stored /\ clock' = clock
      BY <2>0, <2>3, <3>1 DEF Settle, Answered, InVain
    <3> QED
      BY <2>3, <3>1, <3>2, RepeatKeeps
  <2>4. CASE /\ InProgress /\ stored.phase = "AwaitingPing"
             /\ Done("Applied", Pings(stored, id, clock))
    <3>1. /\ Running(stored) /\ Consistent(stored) /\ stored \in CooperationStates
          /\ CopiesAgree(runtime, stored) /\ clock \in Elapsed
          /\ stage \in {"Door", "Boss"} /\ members = Seats
      BY <2>4, WhilePlaying
    <3>2. stored.channel = None /\ stored.completedRevive = None /\ stage = "Door"
      BY <2>4, <3>1
      DEF Consistent, ContributionsAgree, OutcomeAgrees, RevivedOnce, RecordedIn,
          SessionInv, StagesAgree
    <3>3. /\ stored'.ping = [id |-> id, at |-> clock] /\ stored'.channel = None
          /\ stored'.completedRevive = None /\ stored'.phase = "AwaitingRunner"
          /\ stored'.life = stored.life /\ Running(stored') /\ clock' = clock
          /\ reply' = "Applied" /\ StepOf(stored, stored', clock)
      BY <2>4, <3>1, <3>2 DEF Done, Pings, CooperationStates, Running, StepOf, LiveStepOf
    <3>4. Answered /\ reply' # "Replayed"
      BY <3>3 DEF Answered, Failed, Refused
    <3>5. ping = [id |-> id, at |-> clock, active |-> TRUE] /\ ping \in PingCopies
      BY <3>1, <3>4 DEF PingCopies
    <3>6. /\ runtime' = Updated(ping, runtime.revive)
          /\ UNCHANGED <<members, capable, stage, summaries, place, kit, health>>
      BY <2>0, <3>3, <3>4 DEF Settle, Answered, Remember, world
    <3>7. stored' \in CooperationStates /\ runtime.revive \in ReviveCopies \cup {None}
      BY <2>0, <3>1, <3>3, StepConsistent DEF Consistent, Memories
    <3> HIDE DEF ping
    <3>8. /\ runtime' \in Memories /\ runtime'.state = stored' /\ runtime'.ping = ping
      BY <2>0, <3>5, <3>6, <3>7, UpdatedIsMemory
    <3>9. CopiesAgree(runtime', stored')
      <4>1. ping # None /\ ping.id = id /\ ping.at = clock /\ ping.active = TRUE
        BY <3>5, RecordsAssumption
      <4>2. stored'.ping = (IF ping = None THEN None ELSE [id |-> ping.id, at |-> ping.at])
        BY <3>3, <4>1
      <4>3. runtime'.ping.active <=> stored'.phase = "AwaitingRunner"
        BY <3>3, <3>8, <4>1
      <4> QED
        BY <3>3, <3>8, <4>2, <4>3 DEF CopiesAgree
    <3>10. /\ place \in [Players -> Places] /\ health \in [Players -> Nat]
           /\ \A i \in {1, 2} : health[Seats[i]] > 0 <=> stored.life[RoleAt(i)] = "Active"
      BY <2>4 DEF SessionInv, Types, BothPlay
    <3> QED
      BY <2>4, <3>2, <3>3, <3>6, <3>8, <3>9, <3>10, GoingOnKeeps
  <2> HIDE DEF ping
  <2> QED
    BY <2>1, <2>2, <2>3, <2>4
<1> QED
  BY <1>1, <1>2

\* So does a revive.
LEMMA ReviveCommandKeeps ==
    ASSUME SessionInv, NEW p, NEW id \in OperationIds, ReviveCommand(p, id)
    PROVE  SessionInv' /\ (members' = members \/ (reply' = "Lost" /\ members' = <<>>))
<1>1. CASE ~(Seat(p) = 1 /\ runtime # None /\ Len(members) = 2)
  BY <1>1, IgnoreKeeps DEF ReviveCommand, NoCall
<1>2. CASE Seat(p) = 1 /\ runtime # None /\ Len(members) = 2
  <2> DEFINE revive == IF reply' = "Replayed" THEN runtime.revive
                       ELSE [id |-> id, at |-> clock, status |-> "Started"]
  <2>0. /\ ReviveStart(id, Distance)
        /\ Settle(Remember(Updated(runtime.ping, revive)) /\ UNCHANGED world)
        /\ Settle(TRUE)
        /\ runtime # None /\ runtime.state = stored /\ runtime \in Memories
    BY <1>2 DEF ReviveCommand, Settle, SessionInv, MemoryAgrees, CopiesAgree
  <2>1. \/ Unsure
        \/ InVain("Terminal") \/ InVain("Rejected")
        \/ InProgress /\ Late
        \/ InProgress /\ InVain("Replayed")
        \/ /\ InProgress /\ stored.phase = "RunnerDowned"
           /\ Done("Applied", OpenChannel(stored, id, clock))
    BY <2>0, ReviveStartTells DEF InProgress
  <2>2. CASE Unsure \/ (InProgress /\ Late) \/ InVain("Terminal") \/ InVain("Rejected")
    BY <2>0, <2>2, SettledEarly
  <2>3. CASE InProgress /\ InVain("Replayed")
    <3>1. Running(stored') /\ Answered
      BY <2>3, WhilePlaying DEF InVain, Running, Answered, Failed, Refused
    <3>2. /\ Remember(Updated(runtime.ping, runtime.revive)) /\ UNCHANGED world
          /\ stored' = stored /\ clock' = clock
      BY <2>0, <2>3, <3>1 DEF Settle, Answered, InVain
    <3> QED
      BY <2>3, <3>1, <3>2, RepeatKeeps
  <2>4. CASE /\ InProgress /\ stored.phase = "RunnerDowned"
             /\ Done("Applied", OpenChannel(stored, id, clock))
    <3>1. /\ Running(stored) /\ Consistent(stored) /\ stored \in CooperationStates
          /\ CopiesAgree(runtime, stored) /\ clock \in Elapsed
          /\ stage \in {"Door", "Boss"} /\ members = Seats
      BY <2>4, WhilePlaying
    <3>2. stored.completedRevive = None /\ stage = "Door"
      BY <2>4, <3>1
      DEF Consistent, ContributionsAgree, RevivedOnce, RecordedIn, SessionInv, StagesAgree
    <3>3. /\ stored'.channel = [id |-> id, at |-> clock] /\ stored'.ping = stored.ping
          /\ stored'.completedRevive = None /\ stored'.phase = "ReviveChannel"
          /\ stored'.life = stored.life /\ Running(stored') /\ clock' = clock
          /\ reply' = "Applied" /\ StepOf(stored, stored', clock)
      BY <2>4, <3>1, <3>2 DEF Done, OpenChannel, CooperationStates, Running, StepOf, LiveStepOf
    <3>4. Answered /\ reply' # "Replayed"
      BY <3>3 DEF Answered, Failed, Refused
    <3>5. /\ revive = [id |-> id, at |-> clock, status |-> "Started"]
          /\ revive \in ReviveCopies
      BY <3>1, <3>4 DEF ReviveCopies
    <3>6. /\ runtime' = Updated(runtime.ping, revive)
          /\ UNCHANGED <<members, capable, stage, summaries, place, kit, health>>
      BY <2>0, <3>3, <3>4 DEF Settle, Answered, Remember, world
    <3>7. stored' \in CooperationStates /\ runtime.ping \in PingCopies \cup {None}
      BY <2>0, <3>1, <3>3, StepConsistent DEF Consistent, Memories
    <3> HIDE DEF revive
    <3>8. /\ runtime' \in Memories /\ runtime'.state = stored'
          /\ runtime'.ping = runtime.ping /\ runtime'.revive = revive
      BY <2>0, <3>5, <3>6, <3>7, UpdatedIsMemory
    <3>9. CopiesAgree(runtime', stored')
      BY <2>4, <3>1, <3>3, <3>5, <3>8 DEF CopiesAgree
    <3>10. /\ place \in [Players -> Places] /\ health \in [Players -> Nat]
           /\ \A i \in {1, 2} : health[Seats[i]] > 0 <=> stored.life[RoleAt(i)] = "Active"
      BY <2>4 DEF SessionInv, Types, BothPlay
    <3> QED
      BY <2>4, <3>2, <3>3, <3>6, <3>8, <3>9, <3>10, GoingOnKeeps
  <2> HIDE DEF revive
  <2> QED
    BY <2>1, <2>2, <2>3, <2>4
<1> QED
  BY <1>1, <1>2

\* A call for another table that failed.
LEMMA OtherFailureKeeps ==
    ASSUME SessionInv, OtherCallFails, Abort
    PROVE  SessionInv' /\ reply' = "Lost" /\ members' = <<>>
  BY UnsureKeeps DEF OtherCallFails, Keep

\* So does a player who turns to the route.
LEMMA LeaveForRouteKeeps ==
    ASSUME SessionInv, runtime = None, stage = "Door", LeaveForRoute
    PROVE  SessionInv' /\ (members' = members \/ (reply' = "Lost" /\ members' = <<>>))
<1>1. CASE OtherCallFails /\ Abort
  BY <1>1, OtherFailureKeeps
<1>2. CASE /\ stage' = "Routed" /\ NoCall
           /\ UNCHANGED <<members, capable, world, runtime, summaries>>
  <2>1. /\ UNCHANGED <<stored, clock, members, capable, place, kit, health, runtime, summaries>>
        /\ runtime = None /\ summaries = <<>> /\ members # <<>>
    BY <1>2 DEF NoCall, world, SessionInv, StagesAgree
  <2>2. Types' /\ MemoryAgrees' /\ BothPlay'
    BY <2>1 DEF SessionInv, Types, MemoryAgrees, BothPlay, InProgress
  <2>3. StagesAgree'
    BY <1>2, <2>1 DEF StagesAgree
  <2>4. EndAgrees'
    BY <2>1 DEF SessionInv, EndAgrees, EndsAreTold
  <2> QED
    BY <2>1, <2>2, <2>3, <2>4 DEF SessionInv
<1> QED
  BY <1>1, <1>2 DEF LeaveForRoute

\* So does a walk.
LEMMA WalkKeeps ==
    ASSUME SessionInv, NEW p \in Players, NEW spot \in Places, Walk(p, spot), NoCall,
           UNCHANGED <<members, capable, health, stage, runtime, summaries>>
    PROVE  SessionInv' /\ members' = members
<1>1. /\ place' \in [Players -> Places] /\ kit' = kit /\ kit \in [Players -> Profiles]
      /\ \A q \in Players : kit[q] \in Owned[q]
      /\ health \in [Players -> Nat]
      /\ UNCHANGED <<stored, clock>>
  BY DEF Walk, NoCall, SessionInv, Types
<1> QED
  BY <1>1, WorldKeeps

\* So does the door.
LEMMA OpenDoorKeeps ==
    ASSUME SessionInv, InProgress, stored.phase = "EncounterActive", NEW p \in Players,
           OpenDoor(p)
    PROVE  SessionInv' /\ (members' = members \/ (reply' = "Lost" /\ members' = <<>>))
<1>1. CASE OtherCallFails /\ Abort
  BY <1>1, OtherFailureKeeps
<1>2. CASE /\ Walk(p, "door") /\ stage' = "Boss" /\ NoCall /\ UNCHANGED health
           /\ UNCHANGED <<members, capable, runtime, summaries>>
  <2>1. /\ runtime # None /\ runtime \in Memories /\ CopiesAgree(runtime, stored)
        /\ Running(stored) /\ members = Seats
    BY WhilePlaying
  <2>2. /\ stored' = stored /\ clock' = clock /\ place' \in [Players -> Places]
        /\ kit' = kit /\ health' \in [Players -> Nat]
    BY <1>2 DEF Walk, NoCall, SessionInv, Types, Places
  <2>3. \A i \in {1, 2} : health'[Seats[i]] > 0 <=> stored.life[RoleAt(i)] = "Active"
    BY <1>2 DEF SessionInv, BothPlay
  <2>4. StepOf(stored, stored', clock)
    BY <2>2 DEF StepOf
  <2> QED
    BY <1>2, <2>1, <2>2, <2>3, <2>4, GoingOnKeeps
<1> QED
  BY <1>1, <1>2 DEF OpenDoor

\* So does a move while a revive runs, which may cancel it.
LEMMA MoveInChannelKeeps ==
    ASSUME SessionInv, InProgress, stored.phase = "ReviveChannel", NEW p \in Players,
           NEW spot \in Places, MoveInChannel(p, spot)
    PROVE  SessionInv' /\ (members' = members \/ (reply' = "Lost" /\ members' = <<>>))
<1>1. DistanceFrom(spot) \in Nat
  BY DistanceIsNatural
<1>2. Settle(ReviveApplied /\ place' \in [Players -> Places] /\ kit' = kit)
  <2>1. Walk(p, spot) => place' \in [Players -> Places] /\ kit' = kit
    BY DEF Walk, SessionInv, Types
  <2> QED
    BY <2>1 DEF MoveInChannel, Settle
<1> QED
  BY <1>1, <1>2, ObservationKeeps DEF MoveInChannel

\* So does the anchor's arrival.
LEMMA ArriveAtAnchorKeeps ==
    ASSUME SessionInv, InProgress, stored.phase = "AwaitingAnchor", NEW p \in Players,
           ArriveAtAnchor(p)
    PROVE  SessionInv' /\ (members' = members \/ (reply' = "Lost" /\ members' = <<>>))
<1>0. /\ runtime # None /\ runtime.state = stored /\ runtime \in Memories
      /\ Running(stored) /\ Consistent(stored) /\ stored \in CooperationStates
      /\ CopiesAgree(runtime, stored) /\ stage \in {"Door", "Boss"} /\ members = Seats
  BY WhilePlaying
<1>1. AnchorArrival /\ Settle(TRUE)
  BY DEF ArriveAtAnchor, Settle
<1>2. Unsure \/ Late \/ Done("Applied", AnchorArrives(stored))
  BY <1>0, <1>1, AnchorArrivalTells
<1>3. CASE Unsure \/ Late
  BY <1>0, <1>1, <1>3, SettledEarly
<1>4. CASE Done("Applied", AnchorArrives(stored))
  <2>1. /\ stored.ping = None /\ stored.channel = None /\ stored.completedRevive = None
        /\ stage = "Door"
    BY <1>0
    DEF Consistent, ContributionsAgree, OutcomeAgrees, RevivedOnce, RecordedIn,
        SessionInv, StagesAgree
  <2>2. /\ stored'.ping = None /\ stored'.channel = None /\ stored'.completedRevive = None
        /\ stored'.life = stored.life /\ Running(stored') /\ clock' = clock
        /\ reply' = "Applied" /\ StepOf(stored, stored', clock)
    BY <1>0, <1>4, <2>1
    DEF Done, AnchorArrives, CooperationStates, Running, StepOf, LiveStepOf
  <2>3. Answered
    BY <2>2 DEF Answered, Failed, Refused
  <2>4. /\ runtime' = Updated(runtime.ping, runtime.revive)
        /\ UNCHANGED <<members, capable, stage, summaries, kit, health>>
        /\ place' = [place EXCEPT ![p] = "anchor"]
    BY <2>2, <2>3 DEF ArriveAtAnchor, Settle, Answered, Remember, Walk
  <2>5. /\ stored' \in CooperationStates
        /\ runtime.ping \in PingCopies \cup {None}
        /\ runtime.revive \in ReviveCopies \cup {None}
    BY <1>0, <2>2, StepConsistent, WhilePlaying DEF Consistent, Memories
  <2>6. /\ runtime' \in Memories /\ runtime'.state = stored'
        /\ runtime'.ping = runtime.ping /\ runtime'.revive = runtime.revive
    BY <1>0, <2>4, <2>5, UpdatedIsMemory
  <2>7. CopiesAgree(runtime', stored')
    BY <1>0, <2>1, <2>2, <2>6 DEF CopiesAgree
  <2>8. /\ place' \in [Players -> Places] /\ health' \in [Players -> Nat]
        /\ \A i \in {1, 2} : health'[Seats[i]] > 0 <=> stored'.life[RoleAt(i)] = "Active"
    BY <2>2, <2>4 DEF SessionInv, Types, BothPlay, Places
  <2> QED
    BY <2>1, <2>2, <2>4, <2>6, <2>7, <2>8, GoingOnKeeps
<1> QED
  BY <1>2, <1>3, <1>4

\* The runner falls, in the memory and on its feet.
LEMMA FallAtConsoleKeeps ==
    ASSUME SessionInv, InProgress, stored.phase = "AwaitingRunner", FallAtConsole(Seats[2])
    PROVE  SessionInv' /\ (members' = members \/ (reply' = "Lost" /\ members' = <<>>))
<1>0. /\ runtime # None /\ runtime.state = stored /\ runtime \in Memories
      /\ Running(stored) /\ Consistent(stored) /\ stored \in CooperationStates
      /\ CopiesAgree(runtime, stored) /\ stage \in {"Door", "Boss"} /\ members = Seats
  BY WhilePlaying
<1>1. RunnerDown /\ Settle(TRUE)
  BY DEF FallAtConsole, Settle
<1>2. Unsure \/ Late \/ Done("Applied", RunnerFalls(stored, clock))
  BY <1>0, <1>1, RunnerDownTells
<1>3. CASE Unsure \/ Late
  BY <1>0, <1>1, <1>3, SettledEarly
<1>4. CASE Done("Applied", RunnerFalls(stored, clock))
  <2>1. /\ stored.channel = None /\ stored.completedRevive = None /\ stage = "Door"
    BY <1>0
    DEF Consistent, ContributionsAgree, OutcomeAgrees, RevivedOnce, RecordedIn,
        SessionInv, StagesAgree
  <2>2. /\ stored'.ping = stored.ping /\ stored'.channel = None
        /\ stored'.completedRevive = None /\ stored'.phase = "RunnerDowned"
        /\ stored'.life["Anchor"] = stored.life["Anchor"]
        /\ stored'.life["Runner"] = "Downed" /\ Running(stored') /\ clock' = clock
        /\ reply' = "Applied" /\ StepOf(stored, stored', clock)
    BY <1>0, <1>4, <2>1
    DEF Done, RunnerFalls, CooperationStates, Running, StepOf, LiveStepOf, Roles
  <2>3. Answered
    BY <2>2 DEF Answered, Failed, Refused
  <2>4. /\ runtime' = Updated(Quiet(runtime.ping), runtime.revive)
        /\ UNCHANGED <<members, capable, stage, summaries, kit>>
        /\ place' = [place EXCEPT ![Seats[2]] = "console"]
        /\ health' = [health EXCEPT ![Seats[2]] = 0]
    BY <2>2, <2>3 DEF FallAtConsole, Settle, Answered, Remember, Walk
  <2>5. /\ stored' \in CooperationStates
        /\ runtime.ping \in PingCopies \cup {None}
        /\ runtime.revive \in ReviveCopies \cup {None}
    BY <1>0, <2>2, StepConsistent, WhilePlaying DEF Consistent, Memories
  <2> DEFINE ping == Quiet(runtime.ping)
  <2>6. /\ ping \in PingCopies \cup {None} /\ (ping = None <=> runtime.ping = None)
        /\ runtime.ping # None => /\ ping.id = runtime.ping.id /\ ping.at = runtime.ping.at
                                  /\ ping.active = FALSE
    BY <2>5, QuietCopies
  <2>7. /\ runtime' \in Memories /\ runtime'.state = stored'
        /\ runtime'.ping = ping /\ runtime'.revive = runtime.revive
    BY <1>0, <2>4, <2>5, <2>6, UpdatedIsMemory
  <2> HIDE DEF ping
  <2>8. CopiesAgree(runtime', stored')
    <3>1. /\ stored'.ping = (IF ping = None THEN None
                             ELSE [id |-> ping.id, at |-> ping.at])
          /\ stored'.ping # None => ping.active = FALSE
      BY <1>0, <2>2, <2>6 DEF CopiesAgree
    <3> QED
      BY <2>2, <2>7, <3>1 DEF CopiesAgree
  <2>9. /\ place' \in [Players -> Places] /\ health' \in [Players -> Nat]
        /\ \A i \in {1, 2} : health'[Seats[i]] > 0 <=> stored'.life[RoleAt(i)] = "Active"
    <3>1. /\ place \in [Players -> Places] /\ health \in [Players -> Nat]
          /\ Seats[1] # Seats[2] /\ Players = {Seats[1], Seats[2]}
          /\ \A i \in {1, 2} : health[Seats[i]] > 0 <=> stored.life[RoleAt(i)] = "Active"
      BY RuntimeAssumption DEF SessionInv, Types, BothPlay, Players
    <3>2. /\ health'[Seats[1]] > 0 <=> stored'.life["Anchor"] = "Active"
          /\ health'[Seats[2]] > 0 <=> stored'.life["Runner"] = "Active"
      BY <2>2, <2>4, <3>1 DEF RoleAt
    <3> QED
      BY <2>4, <3>1, <3>2 DEF RoleAt, Places
  <2> QED
    BY <2>1, <2>2, <2>4, <2>7, <2>8, <2>9, GoingOnKeeps
<1> QED
  BY <1>2, <1>3, <1>4

\* A participant is at one of the two seats.
LEMMA SeatOfMember ==
    ASSUME members = Seats, NEW p \in Players
    PROVE  Seat(p) \in {1, 2} /\ p = Seats[Seat(p)] /\ RoleOf(p) = RoleAt(Seat(p))
  BY BothSeated DEF Players, RoleOf

\* So does every move.
LEMMA MoveCommandKeeps ==
    ASSUME SessionInv, NEW p \in Players, NEW spot \in Places, MoveCommand(p, spot)
    PROVE  SessionInv' /\ (members' = members \/ (reply' = "Lost" /\ members' = <<>>))
<1> DEFINE phase == IF InProgress THEN runtime.state.phase ELSE "None"
           anchor == Seat(p) = 1
<1>1. CASE Ignore /\ NoCall
  BY <1>1, IgnoreKeeps DEF NoCall
<1>2. CASE runtime = None /\ stage = "Door" /\ LeaveForRoute
  BY <1>2, LeaveForRouteKeeps
<1>3. CASE /\ Walk(p, spot)
           /\ NoCall /\ UNCHANGED <<members, capable, health, stage, runtime, summaries>>
  BY <1>3, WalkKeeps
<1>4. CASE /\ \/ phase = "ReviveChannel" /\ anchor
              \/ phase = "AwaitingAnchor" /\ anchor /\ spot = "anchor"
              \/ phase = "AwaitingRunner" /\ ~anchor /\ spot = "console"
              \/ phase = "EncounterActive" /\ stage = "Door" /\ spot = "door"
           /\ \/ phase = "ReviveChannel"   /\ MoveInChannel(p, spot)
              \/ phase = "AwaitingAnchor"  /\ ArriveAtAnchor(p)
              \/ phase = "AwaitingRunner"  /\ FallAtConsole(p)
              \/ phase = "EncounterActive" /\ OpenDoor(p)
  <2>1. InProgress /\ stored.phase = phase /\ members = Seats
    BY <1>4, WhilePlaying
  <2>2. CASE phase = "ReviveChannel" /\ MoveInChannel(p, spot)
    BY <2>1, <2>2, MoveInChannelKeeps
  <2>3. CASE phase = "AwaitingAnchor" /\ ArriveAtAnchor(p)
    BY <2>1, <2>3, ArriveAtAnchorKeeps
  <2>4. CASE phase = "AwaitingRunner" /\ FallAtConsole(p)
    <3>1. Seat(p) # 1
      BY <1>4, <2>4
    <3>2. p = Seats[2]
      BY <2>1, <3>1, SeatOfMember
    <3> QED
      BY <2>1, <2>4, <3>2, FallAtConsoleKeeps
  <2>5. CASE phase = "EncounterActive" /\ OpenDoor(p)
    BY <2>1, <2>5, OpenDoorKeeps
  <2> HIDE DEF phase, anchor
  <2> QED
    BY <1>4, <2>2, <2>3, <2>4, <2>5
<1> QED
  BY <1>1, <1>2, <1>3, <1>4 DEF MoveCommand

\* The fight with the Warden is that of an operation that runs.
LEMMA BossIsFought ==
    ASSUME SessionInv, stage = "Boss"
    PROVE  InProgress /\ stored.phase = "EncounterActive"
  BY DEF SessionInv, StagesAgree

\* So does the blow that kills the Warden, at a clock read again.
LEMMA KillingBlowKeeps ==
    ASSUME SessionInv, stage = "Boss", KillingBlow
    PROVE  SessionInv' /\ (members' = members \/ (reply' = "Lost" /\ members' = <<>>))
<1>0. /\ InProgress /\ runtime.state = stored /\ Running(stored) /\ Consistent(stored)
      /\ stored \in CooperationStates /\ stored.phase = "EncounterActive"
      /\ members = Seats /\ capable = Players /\ clock \in Elapsed
  BY BossIsFought, WhilePlaying
<1>1. CASE OtherCallFails /\ Abort
  BY <1>1, OtherFailureKeeps
<1>2. CASE /\ Completion
           /\ \/ Failed /\ Abort
              \/ /\ Refused
                 /\ blows' = None
                 /\ UNCHANGED <<members, capable, place, kit, health, stage, runtime,
                                summaries, changed>>
              \/ /\ Answered
                 /\ blows' = None /\ stage' = "Complete"
                 /\ runtime' = Ended(None) /\ Tell(Ended(None))
                 /\ UNCHANGED <<members, capable, place, kit, health, changed>>
  <2>1. \/ Unsure
        \/ Expired(stored, clock) /\ InVain("Expired")
        \/ Done("Applied", CommitTerminal(CountWarden(stored), "Succeeded"))
    BY <1>0, <1>2, CompletionTells
  <2>2. CASE Unsure
    <3>1. reply' = "Lost" /\ clock' = clock /\ Abort
      BY <1>2, <2>2 DEF Unsure, Kept, Failed, Refused, Answered
    <3> QED
      BY <3>1, UnsureKeeps
  <2>3. CASE InVain("Expired")
    <3>1. UNCHANGED <<stored, clock, members, capable, place, kit, health, stage, runtime,
                      summaries>>
      BY <1>2, <2>3 DEF InVain, Failed, Refused, Answered
    <3> QED
      BY <3>1, WorldKeeps DEF SessionInv, Types
  <2>4. CASE Done("Applied", CommitTerminal(CountWarden(stored), "Succeeded"))
    <3>1. /\ stage' = "Complete" /\ runtime' = Ended(None) /\ Tell(Ended(None))
          /\ UNCHANGED <<members, capable, place, kit, health>>
      BY <1>2, <2>4 DEF Done, Failed, Refused, Answered
    <3>2. CountWarden(stored) \in CooperationStates
      BY <1>0 DEF CountWarden, CooperationStates, Contributions
    <3>3. stored'.terminal = "Succeeded" /\ clock' = clock
      BY <2>4, <3>2, CommitTerminalSets DEF Done
    <3>4. ~Running(stored') /\ StepOf(stored, stored', clock) /\ SubjectOf(stored)' = None
      BY <1>0, <2>4, <3>3 DEF Done, Running, StepOf, LiveStepOf, SubjectOf
    <3>5. /\ place' \in [Players -> Places] /\ health' \in [Players -> Nat]
          /\ members' = members /\ kit' = kit
      BY <3>1 DEF SessionInv, Types
    <3> QED
      BY <1>0, <3>1, <3>3, <3>4, <3>5, EndingKeeps
  <2> QED
    BY <2>1, <2>2, <2>3, <2>4
<1> QED
  BY <1>1, <1>2 DEF KillingBlow

\* Nobody else was struck before.
LEMMA StrickenIsSubject ==
    ASSUME Consistent(stored), Running(stored), NEW role \in Roles,
           stored' = CommitTerminal(Strike(stored, role), "FailedParticipantDefeated")
    PROVE  /\ stored'.terminal = "FailedParticipantDefeated"
           /\ SubjectOf(stored)' = role
<1>1. stored \in CooperationStates /\ Strike(stored, role) \in CooperationStates
  BY DEF Consistent, Strike, CooperationStates, LifeStates
<1>2. /\ stored'.terminal = "FailedParticipantDefeated"
      /\ stored'.life = [stored.life EXCEPT ![role] = "Defeated"]
  BY <1>1, CommitTerminalSets DEF CommitTerminal, Strike, CooperationStates
<1>3. \A r \in Roles : stored'.life[r] = "Defeated" <=> r = role
  BY <1>1, <1>2 DEF Consistent, LifeAgrees, Running, CooperationStates
<1>4. (CHOOSE r \in Roles : stored'.life[r] = "Defeated") = role
  BY <1>3
<1> QED
  BY <1>2, <1>4 DEF SubjectOf

\* So does a blow that the Warden survives, and may strike back at.
LEMMA SurvivedBlowKeeps ==
    ASSUME SessionInv, stage = "Boss", NEW p \in Players, health[p] > 0, SurvivedBlow(p)
    PROVE  SessionInv' /\ members' = members
<1> DEFINE left == IF StrikesBack(CountedHits)
                   THEN IF health[p] > WardenDamage THEN health[p] - WardenDamage ELSE 0
                   ELSE health[p]
<1>0. /\ InProgress /\ Running(stored) /\ Consistent(stored)
      /\ stored \in CooperationStates /\ stored.phase = "EncounterActive"
      /\ members = Seats /\ capable = Players /\ clock \in Elapsed
  BY BossIsFought, WhilePlaying
<1>1. /\ place' = place /\ kit' = kit /\ health' = [health EXCEPT ![p] = left]
  BY DEF SurvivedBlow
<1>2. left \in Nat /\ health \in [Players -> Nat]
  BY RuntimeAssumption DEF SessionInv, Types
<1>3. \/ /\ left > 0
         /\ NoCall /\ UNCHANGED <<members, capable, stage, runtime, summaries>>
      \/ left = 0 /\ Defeat(RoleOf(p)) /\ Answered /\ Finish(RoleOf(p))
  BY DEF SurvivedBlow
<1> HIDE DEF left
<1>4. CASE /\ left > 0
           /\ NoCall /\ UNCHANGED <<members, capable, stage, runtime, summaries>>
  <2>1. /\ UNCHANGED <<stored, clock>> /\ health' \in [Players -> Nat]
        /\ \A q \in Players : health'[q] > 0 <=> health[q] > 0
    BY <1>1, <1>2, <1>4 DEF NoCall
  <2> QED
    BY <1>1, <1>4, <2>1, WorldKeeps DEF SessionInv, Types
<1>5. CASE left = 0 /\ Defeat(RoleOf(p)) /\ Answered /\ Finish(RoleOf(p))
  <2>1. RoleOf(p) \in Roles
    BY <1>0, SeatOfMember DEF RoleAt, Roles
  <2>2. \/ Unsure
        \/ Expired(stored, clock) /\ InVain("EvidenceRefused")
        \/ Done("Applied",
                CommitTerminal(Strike(stored, RoleOf(p)), "FailedParticipantDefeated"))
    BY <1>0, <1>5, <2>1, DefeatTells
  <2>3. Done("Applied",
             CommitTerminal(Strike(stored, RoleOf(p)), "FailedParticipantDefeated"))
    BY <1>5, <2>2 DEF Unsure, InVain, Answered, Failed
  <2>4. /\ stored'.terminal = "FailedParticipantDefeated"
        /\ SubjectOf(stored)' = RoleOf(p)
    BY <1>0, <2>1, <2>3, StrickenIsSubject DEF Done
  <2>5. ~Running(stored') /\ StepOf(stored, stored', clock) /\ clock' = clock
    BY <1>0, <2>1, <2>3, <2>4 DEF Done, Running, StepOf, LiveStepOf
  <2>6. /\ runtime' = Ended(RoleOf(p)) /\ Tell(Ended(RoleOf(p)))
        /\ stage' = "Failed" /\ members' = members /\ capable' = capable
    BY <1>5, <2>4 DEF Finish, FinishRuntime
  <2>7. /\ place' \in [Players -> Places] /\ health' \in [Players -> Nat] /\ kit' = kit
    BY <1>1, <1>2 DEF SessionInv, Types
  <2> QED
    BY <1>0, <2>1, <2>4, <2>5, <2>6, <2>7, EndingKeeps
<1> QED
  BY <1>3, <1>4, <1>5

\* So does a defeat that is lost, or comes too late.
LEMMA LethalBlowLostKeeps ==
    ASSUME SessionInv, stage = "Boss", NEW p \in Players, LethalBlowLost(p)
    PROVE  /\ SessionInv'
           /\ \/ members' = members
              \/ members' = <<>> /\ reply' = "Lost"
              \/ /\ members' = <<>> /\ reply' = "EvidenceRefused"
                 /\ Expired(stored, clock)
<1>0. /\ InProgress /\ Running(stored) /\ stored.phase = "EncounterActive"
      /\ members = Seats
  BY BossIsFought, WhilePlaying
<1>1. RoleOf(p) \in Roles
  BY <1>0, SeatOfMember DEF RoleAt, Roles
<1>2. \/ Unsure
      \/ Expired(stored, clock) /\ InVain("EvidenceRefused")
      \/ Done("Applied",
              CommitTerminal(Strike(stored, RoleOf(p)), "FailedParticipantDefeated"))
  BY <1>0, <1>1, DefeatTells DEF LethalBlowLost
<1>3. \/ reply' = "Lost" /\ clock' = clock /\ Abort
      \/ reply' = "EvidenceRefused" /\ clock' = clock /\ Expired(stored, clock) /\ Abort
  BY <1>2 DEF LethalBlowLost, Unsure, Kept, InVain, Done, Failed, Refused
<1> QED
  BY <1>3, UnsureKeeps

\* So does every attack.
LEMMA AttackCommandKeeps ==
    ASSUME SessionInv, NEW p \in Players, AttackCommand(p)
    PROVE  /\ SessionInv'
           /\ \/ members' = members
              \/ members' = <<>> /\ reply' = "Lost"
              \/ /\ members' = <<>> /\ reply' = "EvidenceRefused"
                 /\ Expired(stored, clock)
<1>1. CASE Ignore /\ NoCall
  BY <1>1, IgnoreKeeps DEF NoCall
<1>2. CASE /\ stage = "Boss" /\ health[p] > 0
           /\ KillingBlow \/ SurvivedBlow(p) \/ LethalBlowLost(p)
  BY <1>2, KillingBlowKeeps, SurvivedBlowKeeps, LethalBlowLostKeeps
<1> QED
  BY <1>1, <1>2 DEF AttackCommand

\* So does a change of weapon.
LEMMA EquipCommandKeeps ==
    ASSUME SessionInv, NEW p \in Players, EquipCommand(p)
    PROVE  SessionInv' /\ (members' = members \/ (reply' = "Lost" /\ members' = <<>>))
<1>1. CASE Ignore /\ NoCall
  BY <1>1, IgnoreKeeps DEF NoCall
<1>2. CASE OtherCallFails /\ Abort
  BY <1>2, OtherFailureKeeps
<1>3. ASSUME NEW profile \in Owned[p], kit' = [kit EXCEPT ![p] = profile], NoCall,
             UNCHANGED <<members, capable, place, health, blows, stage, runtime, summaries,
                         changed>>
      PROVE  SessionInv' /\ members' = members
  <2>1. profile \in Profiles
    BY RuntimeAssumption
  <2>2. kit' \in [Players -> Profiles] /\ \A q \in Players : kit'[q] \in Owned[q]
    BY <1>3, <2>1 DEF SessionInv, Types
  <2>3. UNCHANGED <<stored, clock, members, capable, stage, runtime, summaries>>
    BY <1>3 DEF NoCall
  <2> QED
    BY <1>3, <2>2, <2>3, WorldKeeps DEF SessionInv, Types
<1> QED
  BY <1>1, <1>2, <1>3 DEF EquipCommand

\* So does a claim.
LEMMA AcquisitionCommandKeeps ==
    ASSUME SessionInv, AcquisitionCommand
    PROVE  SessionInv' /\ (members' = members \/ (reply' = "Lost" /\ members' = <<>>))
<1>1. CASE OtherCallFails /\ Abort
  BY <1>1, OtherFailureKeeps
<1>2. CASE NoCall /\ UNCHANGED <<members, capable, place, kit, health, blows, stage,
                                 runtime, summaries>>
  <2>1. UNCHANGED <<stored, clock, members, capable, stage, runtime, summaries>>
    BY <1>2 DEF NoCall
  <2> QED
    BY <1>2, <2>1, WorldKeeps DEF SessionInv, Types
<1> QED
  BY <1>1, <1>2 DEF AcquisitionCommand

\* So does a change of loadout.
LEMMA LoadoutCommandKeeps ==
    ASSUME SessionInv, LoadoutCommand
    PROVE  SessionInv' /\ (members' = members \/ (reply' = "Lost" /\ members' = <<>>))
  BY AcquisitionCommandKeeps, IgnoreKeeps DEF LoadoutCommand, NoCall

\* So does a command of the route.
LEMMA RouteCommandKeeps ==
    ASSUME SessionInv, RouteCommand
    PROVE  SessionInv' /\ (members' = members \/ (reply' = "Lost" /\ members' = <<>>))
  BY LeaveForRouteKeeps, IgnoreKeeps DEF RouteCommand, NoCall

-----------------------------------------------------------------------------
(* The loop of the coordinator *)

\* Why a session may be thrown away, as AbortsAreExplained has it.
Explained ==
    stage # "Gone" /\ stage' = "Gone" =>
        \/ reply' = "Lost"
        \/ /\ task # None
           /\ \/ task.kind = "Leave" /\ Len(members) = 1
              \/ /\ task.kind = "Attack" /\ reply' = "EvidenceRefused"
                 /\ Expired(stored, clock)
              \/ /\ task.kind = "Start" /\ reply' = "Conflict"
                 /\ changed \/ Len(members) = 1

\* A session that keeps its members is not thrown away.
LEMMA GoneMeansNobody ==
    ASSUME SessionInv, SessionInv'
    PROVE  members' = members => Explained
  BY DEF SessionInv, StagesAgree, Explained

\* With nothing in hand, those who are there are online.
LEMMA IdleTask ==
    ASSUME task' = None, members' \in {members, <<>>},
           \A p \in Players : Seated(p) => p \in online'
    PROVE  TaskInv'
<1>1. \A p \in Players : Seated(p)' => Seated(p)
  <2>1. CASE members' = members
    BY <2>1 DEF Seated
  <2>2. CASE members' = <<>>
    BY <2>2 DEF Seated, Contains
  <2> QED
    BY <2>1, <2>2
<1> QED
  BY <1>1 DEF TaskInv

\* What Take accepts.
LEMMA CommandTypes ==
    ASSUME NEW p, NEW c \in CommandsOf(p)
    PROVE  /\ c.by = p /\ c.kind # "Leave"
           /\ c.kind \in {"Start", "Ping", "Revive"} => c.arg \in OperationIds
           /\ c.kind = "Move" => c.arg \in Places
<1>1. CASE c \in {Command(kind, p, None) :
                     kind \in {"State", "Attack", "Equip", "Acquisition", "Loadout", "Route"}}
  BY <1>1 DEF Command
<1>2. CASE c \in UNION {{Command(kind, p, id) : id \in IdsOf[kind]} : kind \in DOMAIN IdsOf}
  <2>1. PICK kind \in DOMAIN IdsOf : c \in {Command(kind, p, id) : id \in IdsOf[kind]}
    BY <1>2
  <2>2. PICK id \in IdsOf[kind] : c = Command(kind, p, id)
    BY <2>1
  <2>3. kind \in {"Start", "Ping", "Revive"} /\ id \in OperationIds
    BY RuntimeAssumption
  <2> QED
    BY <2>2, <2>3 DEF Command
<1>3. CASE c \in {Command("Move", p, spot) : spot \in Steps}
  BY <1>3, StepsAssumption DEF Command
<1> QED
  BY <1>1, <1>2, <1>3, Zenon DEF CommandsOf

\* Nobody else is there.
LEMMA MembersArePlayers ==
    ASSUME Types, NEW p, Seated(p)
    PROVE  p \in Players
<1>1. PICK i \in DOMAIN members : members[i] = p
  BY DEF Seated, Contains
<1>2. CASE members = Seats
  BY <1>1, <1>2, BothSeated DEF Players
<1>3. ASSUME NEW q \in Players, members = <<q>> PROVE p \in Players
  <2>1. DOMAIN members = {1} /\ members[1] = q
    BY <1>3
  <2> QED
    BY <1>1, <2>1
<1>4. members # <<>>
  BY NoneSeated
<1> QED
  BY <1>2, <1>3, <1>4 DEF Types, Players

\* A command that is taken from the queue keeps the invariant.
LEMMA TakeKeeps ==
    ASSUME RuntimeInv, Take
    PROVE  RuntimeInv' /\ Explained
<1>1. task = None /\ online' = online
  BY DEF Take
<1>2. PICK p \in online : Seated(p) /\ \E c \in CommandsOf(p) : ObserveClock(c, None)
  BY DEF Take
<1>3. PICK c \in CommandsOf(p) : ObserveClock(c, None)
  BY <1>2
<1>4. /\ SessionInv'
      /\ \/ reply' = "Lost" /\ members' = <<>> /\ task' = None
         \/ /\ members' = members /\ task' \in {c, None}
            /\ InProgress' => ~Expired(stored', clock')
  BY <1>3, ObserveClockKeeps DEF RuntimeInv
<1>5. \A q \in Players : Seated(q) => q \in online'
  BY <1>1 DEF RuntimeInv, TaskInv, Leaving
<1>6. p \in Players
  BY <1>2, MembersArePlayers DEF RuntimeInv, SessionInv
<1>7. TaskInv'
  <2>1. CASE task' = None
    BY <1>4, <1>5, <2>1, IdleTask
  <2>2. CASE task' # None
    <3>1. task' = c /\ members' = members
      BY <1>4, <2>2
    <3>2. \A q \in Players : Seated(q)' <=> Seated(q)
      BY <3>1 DEF Seated
    <3>3. /\ c.by = p /\ c.kind # "Leave"
          /\ c.kind \in {"Start", "Ping", "Revive"} => c.arg \in OperationIds
          /\ c.kind = "Move" => c.arg \in Places
      BY CommandTypes
    <3> QED
      BY <1>2, <1>5, <1>6, <3>1, <3>2, <3>3 DEF TaskInv
  <2> QED
    BY <2>1, <2>2
<1>8. Explained
  BY <1>4, GoneMeansNobody DEF RuntimeInv, Explained
<1> QED
  BY <1>4, <1>7, <1>8 DEF RuntimeInv

\* So does a departure.
LEMMA DepartKeeps ==
    ASSUME RuntimeInv, NEW p \in Players, Depart(p)
    PROVE  RuntimeInv' /\ Explained
<1> DEFINE leave == Command("Leave", p, None)
<1>1. /\ task = None /\ p \in online /\ Seated(p) /\ online' = online \ {p}
      /\ ObserveClock(leave, leave)
  BY DEF Depart
<1>2. /\ SessionInv'
      /\ \/ reply' = "Lost" /\ members' = <<>> /\ task' = None
         \/ /\ members' = members /\ task' = leave
            /\ InProgress' => ~Expired(stored', clock')
  BY <1>1, ObserveClockKeeps DEF RuntimeInv
<1>3. \A q \in Players : Seated(q) => q \in online
  BY <1>1 DEF RuntimeInv, TaskInv, Leaving
<1>4. leave.kind = "Leave" /\ leave.by = p /\ leave # None
  BY RecordsAssumption DEF Command
<1> HIDE DEF leave
<1>5. TaskInv'
  <2>1. CASE members' = <<>> /\ task' = None
    BY <2>1, NoneSeated DEF TaskInv, Seated, Contains
  <2>2. CASE members' = members /\ task' = leave /\ (InProgress' => ~Expired(stored', clock'))
    <3>1. \A q \in Players : Seated(q)' <=> Seated(q)
      BY <2>2 DEF Seated
    <3> QED
      BY <1>1, <1>3, <1>4, <2>2, <3>1 DEF TaskInv, Leaving
  <2> QED
    BY <1>2, <2>1, <2>2
<1>6. Explained
  BY <1>2, GoneMeansNobody DEF RuntimeInv, Explained
<1> QED
  BY <1>2, <1>5, <1>6 DEF RuntimeInv

\* So does the handler of the command in hand.
LEMMA HandleKeeps ==
    ASSUME RuntimeInv, Handle
    PROVE  RuntimeInv' /\ Explained
<1> DEFINE p == task.by
<1>1. /\ task # None /\ task' = None /\ online' = online
      /\ p \in Players /\ Seated(p)
      /\ task.kind \in {"Start", "Ping", "Revive"} => task.arg \in OperationIds
      /\ task.kind = "Move" => task.arg \in Places
  BY DEF Handle, RuntimeInv, TaskInv
<1>2. SessionInv /\ members # <<>>
  BY <1>1, NoneSeated DEF RuntimeInv
<1>3. /\ SessionInv' /\ task.kind # "Leave"
      /\ \/ members' = members
         \/ members' = <<>> /\ reply' = "Lost"
         \/ /\ task.kind = "Attack" /\ members' = <<>> /\ reply' = "EvidenceRefused"
            /\ Expired(stored, clock)
         \/ /\ task.kind = "Start" /\ members' = <<>> /\ reply' = "Conflict"
            /\ changed \/ Len(members) = 1
  <2>1. CASE task.kind = "State" /\ StateRequest(p)
    BY <1>1, <1>2, <2>1, StateRequestKeeps
  <2>2. CASE task.kind = "Start" /\ StartCommand(p, task.arg)
    BY <1>1, <1>2, <2>2, StartCommandKeeps
  <2>3. CASE task.kind = "Ping" /\ PingCommand(p, task.arg)
    BY <1>1, <1>2, <2>3, PingCommandKeeps
  <2>4. CASE task.kind = "Revive" /\ ReviveCommand(p, task.arg)
    BY <1>1, <1>2, <2>4, ReviveCommandKeeps
  <2>5. CASE task.kind = "Move" /\ MoveCommand(p, task.arg)
    BY <1>1, <1>2, <2>5, MoveCommandKeeps
  <2>6. CASE task.kind = "Attack" /\ AttackCommand(p)
    BY <1>1, <1>2, <2>6, AttackCommandKeeps
  <2>7. CASE task.kind = "Equip" /\ EquipCommand(p)
    BY <1>1, <1>2, <2>7, EquipCommandKeeps
  <2>8. CASE task.kind = "Acquisition" /\ AcquisitionCommand
    BY <1>2, <2>8, AcquisitionCommandKeeps
  <2>9. CASE task.kind = "Loadout" /\ LoadoutCommand
    BY <1>2, <2>9, LoadoutCommandKeeps
  <2>10. CASE task.kind = "Route" /\ RouteCommand
    BY <1>2, <2>10, RouteCommandKeeps
  <2> QED
    BY <2>1, <2>2, <2>3, <2>4, <2>5, <2>6, <2>7, <2>8, <2>9, <2>10 DEF Handle
<1>4. \A q \in Players : Seated(q) => q \in online'
  BY <1>1, <1>3 DEF RuntimeInv, TaskInv, Leaving
<1>5. TaskInv'
  BY <1>1, <1>3, <1>4, IdleTask
<1>6. Explained
  BY <1>1, <1>2, <1>3, GoneMeansNobody DEF Explained
<1> QED
  BY <1>3, <1>5, <1>6 DEF RuntimeInv

\* So does time.
LEMMA TickKeeps ==
    ASSUME RuntimeInv, Tick
    PROVE  RuntimeInv' /\ Explained
<1>1. /\ InProgress /\ clock' = clock + 1 /\ clock' \in Elapsed /\ clock <= clock'
      /\ UNCHANGED <<stored, members, capable, place, kit, health, stage, runtime, summaries,
                     task, online>>
      /\ task # None => task.kind # "Leave"
  BY DurationsAssumption DEF Tick, Ignore, session, RuntimeInv, SessionInv, Types, Elapsed
<1>2. /\ runtime # None /\ runtime.state = stored /\ Running(stored) /\ Consistent(stored)
      /\ stored \in CooperationStates /\ InTime(stored, clock) /\ clock \in Elapsed
  BY <1>1, WhilePlaying DEF RuntimeInv
<1>3. InTime(stored', clock')
  BY <1>1, <1>2, InTimeLater
<1>4. Types' /\ MemoryAgrees' /\ BothPlay' /\ StagesAgree'
  BY <1>1, <1>2, <1>3
  DEF RuntimeInv, SessionInv, Types, MemoryAgrees, BothPlay, StagesAgree, InProgress
<1>5. EndAgrees'
  BY <1>1, <1>2 DEF RuntimeInv, SessionInv, EndAgrees, EndsAreTold, Running
<1>6. TaskInv'
  BY <1>1 DEF RuntimeInv, TaskInv, Seated, Leaving
<1>7. Explained
  BY <1>1 DEF Explained
<1> QED
  BY <1>4, <1>5, <1>6, <1>7 DEF RuntimeInv, SessionInv

\* The abandoned operation is about the one who is no longer there.
LEMMA AbandonerIsSubject ==
    ASSUME NEW i \in {1, 2}, members' = <<Seats[3 - i]>>,
           stored'.terminal = "AbandonedDisconnect"
    PROVE  SubjectOf(stored)' = RoleAt(i) /\ Len(members') = 1
<1>1. Seats[1] # Seats[2]
  BY RuntimeAssumption
<1>2. DOMAIN members' = {1} /\ members'[1] = Seats[3 - i] /\ Len(members') = 1
  OBVIOUS
<1>3. \A j \in {1, 2} : ~Seated(Seats[j])' <=> j = i
  BY <1>1, <1>2 DEF Seated, Contains
<1>4. (CHOOSE j \in {1, 2} : ~Seated(Seats[j])') = i
  BY <1>3
<1> QED
  BY <1>2, <1>4 DEF SubjectOf

\* The one who leaves while the operation runs ends it, in its own name.
LEMMA AbandonKeepsSession ==
    ASSUME RuntimeInv, InProgress, task # None, task.kind = "Leave",
           Abandon(RoleOf(task.by)),
           \/ Failed /\ Abort
           \/ Refused /\ Ignore
           \/ /\ Answered /\ FinishRuntime(RoleOf(task.by)) /\ UNCHANGED world
              /\ IF Len(members) = 2 THEN Without(task.by)
                 ELSE UNCHANGED <<members, capable>>
    PROVE  /\ SessionInv'
           /\ \/ reply' = "Lost" /\ members' = <<>>
              \/ /\ members = Seats
                 /\ \E i \in {1, 2} : task.by = Seats[i] /\ members' = <<Seats[3 - i]>>
<1> DEFINE p == task.by
<1>0. /\ Running(stored) /\ Consistent(stored) /\ stored \in CooperationStates
      /\ members = Seats /\ capable = Players /\ clock \in Elapsed /\ Len(members) = 2
      /\ SessionInv /\ p \in Players /\ ~Expired(stored, clock)
  BY WhilePlaying DEF RuntimeInv, TaskInv
<1>1. PICK i \in {1, 2} : Seat(p) = i /\ p = Seats[i] /\ RoleOf(p) = RoleAt(i)
  BY <1>0, SeatOfMember
<1>2. RoleAt(i) \in Roles
  BY DEF RoleAt, Roles
<1>3. Unsure \/ Done("Applied", CommitTerminal(stored, "AbandonedDisconnect"))
  BY <1>0, <1>1, <1>2, AbandonTells
<1>4. CASE Unsure
  <2>1. reply' = "Lost" /\ clock' = clock /\ Abort
    BY <1>4 DEF Unsure, Kept, Failed, Refused, Answered
  <2> QED
    BY <1>0, <2>1, UnsureKeeps
<1>5. CASE Done("Applied", CommitTerminal(stored, "AbandonedDisconnect"))
  <2>1. /\ FinishRuntime(RoleAt(i)) /\ UNCHANGED world /\ Without(p) /\ clock' = clock
    BY <1>0, <1>1, <1>5 DEF Done, Failed, Refused, Answered
  <2>2. stored'.terminal = "AbandonedDisconnect"
    BY <1>0, <1>5, CommitTerminalSets DEF Done
  <2>3. ~Running(stored') /\ StepOf(stored, stored', clock)
    BY <1>0, <1>5, <2>2 DEF Done, Running, StepOf, LiveStepOf
  <2>4. members' = <<Seats[3 - i]>> /\ capable' \subseteq Players
    <3>1. members' = RemoveAt(members, Seat(Seats[i])) /\ capable' = capable \ {p}
      BY <1>1, <2>1 DEF Without
    <3> QED
      BY <1>0, <3>1, LeavesOther
  <2>5. SubjectOf(stored)' = RoleAt(i) /\ Len(members') = 1
    BY <2>2, <2>4, AbandonerIsSubject
  <2>6. /\ runtime' = Ended(RoleAt(i)) /\ Tell(Ended(RoleAt(i))) /\ stage' = "Failed"
    BY <2>1, <2>2 DEF FinishRuntime
  <2>7. place' \in [Players -> Places] /\ kit' = kit /\ health' \in [Players -> Nat]
    BY <2>1 DEF world, RuntimeInv, SessionInv, Types
  <2>8. members' \in {Seats, <<Seats[1]>>, <<Seats[2]>>}
    <3>1. 3 - i \in {1, 2}
      OBVIOUS
    <3> QED
      BY <2>4, <3>1
  <2>9. SessionInv'
    BY <1>0, <1>2, <2>1, <2>2, <2>3, <2>4, <2>5, <2>6, <2>7, <2>8, EndingKeeps
  <2> QED
    BY <1>0, <1>1, <2>4, <2>9
<1> QED
  BY <1>3, <1>4, <1>5

\* The one who leaves when nothing runs leaves the other.
LEMMA WithoutKeeps ==
    ASSUME SessionInv, ~InProgress, NEW p \in Players, Seated(p), Len(members) > 1,
           Without(p), NoCall, UNCHANGED <<world, stage, runtime, summaries>>
    PROVE  /\ SessionInv' /\ members = Seats
           /\ \E i \in {1, 2} : p = Seats[i] /\ members' = <<Seats[3 - i]>>
<1>1. members = Seats /\ Len(members) = 2
  <2>1. Types
    BY DEF SessionInv
  <2>2. Len(members) \in {0, 1, 2} /\ (Len(members) = 2 <=> members = Seats)
    BY <2>1, LengthOfMembers
  <2>3. CASE members = <<>>
    <3>1. Len(members) = 0
      BY <2>3, NoneSeated
    <3> QED
      BY <3>1
  <2>4. ASSUME NEW q \in Players, members = <<q>> PROVE FALSE
    <3>1. Len(members) = 1
      BY <2>4, OneSeated
    <3> QED
      BY <3>1
  <2> QED
    BY <2>1, <2>2, <2>3, <2>4 DEF Types, Players
<1>2. PICK i \in {1, 2} : p = Seats[i]
  BY DEF Players
<1>3. members' = <<Seats[3 - i]>> /\ capable' = capable \ {p}
  <2>1. members' = RemoveAt(members, Seat(Seats[i])) /\ capable' = capable \ {p}
    BY <1>2 DEF Without
  <2> QED
    BY <1>1, <2>1, LeavesOther
<1>4. UNCHANGED <<stored, clock, place, kit, health, stage, runtime, summaries>>
  BY DEF NoCall, world
<1>5. Types'
  BY <1>3, <1>4 DEF SessionInv, Types
<1>6. MemoryAgrees' /\ BothPlay'
  BY <1>4 DEF SessionInv, MemoryAgrees, BothPlay, InProgress
<1>7. StagesAgree'
  <2>1. members' # <<>> /\ members # <<>>
    BY <1>1, <1>3, MembersDiffer
  <2> QED
    BY <1>4, <2>1 DEF SessionInv, StagesAgree, InProgress
<1>8. EndAgrees'
  <2>1. ~(runtime # None /\ stored.terminal = "AbandonedDisconnect")
    BY <1>1 DEF SessionInv, EndAgrees
  <2>2. runtime # None => runtime.state = stored
    BY DEF SessionInv, MemoryAgrees, CopiesAgree
  <2>3. runtime # None => SubjectOf(runtime.state)' = SubjectOf(runtime.state)
    BY <1>4, <2>1, <2>2 DEF SubjectOf
  <2> QED
    BY <1>4, <2>1, <2>3 DEF SessionInv, EndAgrees, EndsAreTold
<1> QED
  BY <1>1, <1>2, <1>3, <1>5, <1>6, <1>7, <1>8 DEF SessionInv

\* So does a connection that ends.
LEMMA LeaveKeeps ==
    ASSUME RuntimeInv, Leave
    PROVE  RuntimeInv' /\ Explained
<1> DEFINE p == task.by
<1>1. /\ task # None /\ task.kind = "Leave" /\ task' = None /\ online' = online
      /\ p \in Players /\ Seated(p) /\ SessionInv
      /\ \A q \in Players : Seated(q) => q \in online \/ q = p
  BY DEF Leave, RuntimeInv, TaskInv, Leaving
<1>2. /\ SessionInv'
      /\ \/ reply' = "Lost" /\ members' = <<>>
         \/ /\ members = Seats
            /\ \E i \in {1, 2} : p = Seats[i] /\ members' = <<Seats[3 - i]>>
         \/ Len(members) = 1 /\ members' = <<>>
  <2>1. CASE /\ InProgress
             /\ Abandon(RoleOf(p))
             /\ \/ Failed /\ Abort
                \/ Refused /\ Ignore
                \/ /\ Answered /\ FinishRuntime(RoleOf(p)) /\ UNCHANGED world
                   /\ IF Len(members) = 2 THEN Without(p)
                      ELSE UNCHANGED <<members, capable>>
    BY <1>1, <2>1, AbandonKeepsSession
  <2>2. CASE /\ ~InProgress /\ Len(members) > 1
             /\ Without(p)
             /\ NoCall /\ UNCHANGED <<world, stage, runtime, summaries>>
    BY <1>1, <2>2, WithoutKeeps
  <2>3. CASE ~InProgress /\ Len(members) = 1 /\ Reset /\ NoCall
    BY <1>1, <2>3, ResetKeeps DEF NoCall, SessionInv, Types
  <2> QED
    BY <2>1, <2>2, <2>3 DEF Leave
<1>3. TaskInv'
  <2>1. CASE members' = <<>>
    BY <1>1, <2>1, NoneSeated DEF TaskInv, Seated, Contains
  <2>2. ASSUME NEW i \in {1, 2}, members = Seats, p = Seats[i],
               members' = <<Seats[3 - i]>>
        PROVE  TaskInv'
    <3>1. /\ Len(members') = 1 /\ members'[1] = Seats[3 - i]
          /\ Seats[3 - i] # p /\ Seats[3 - i] \in Players
      BY <2>2, RuntimeAssumption DEF Players
    <3>2. \A q \in Players : Seated(q)' => q = Seats[3 - i]
      BY <3>1 DEF Seated, Contains
    <3>3. Seats[3 - i] \in online'
      BY <1>1, <2>2, <3>1, BothSeated
    <3> QED
      BY <1>1, <3>2, <3>3 DEF TaskInv
  <2> QED
    BY <1>2, <2>1, <2>2
<1>4. Explained
  <2>1. stage' = "Gone" => members' = <<>>
    BY <1>2 DEF SessionInv, StagesAgree
  <2>2. (\E i \in {1, 2} : members' = <<Seats[3 - i]>>) => members' # <<>>
    BY MembersDiffer
  <2> QED
    BY <1>1, <1>2, <2>1, <2>2 DEF Explained
<1> QED
  BY <1>2, <1>3, <1>4 DEF RuntimeInv

-----------------------------------------------------------------------------
(* The specification *)

\* A new session satisfies the invariant.
LEMMA InitRuntime == Init => RuntimeInv
<1> SUFFICES ASSUME Init PROVE RuntimeInv
  OBVIOUS
<1>1. /\ stored = None /\ clock = 0 /\ members = Seats /\ capable = {} /\ stage = "Door"
      /\ runtime = None /\ summaries = <<>> /\ task = None /\ online = Players
  BY DEF Init, LedgerInit
<1>2. Types
  <2>1. ASSUME NEW p \in Players
        PROVE  kit[p] \in Owned[p] /\ kit[p] \in Profiles /\ health[p] \in Nat
    <3>1. kit[p] \in Owned[p] /\ kit[p] \in Profiles
      BY DEF Init
    <3>2. kit[p].max_health \in Nat /\ DroneDamage \in Nat /\ DroneDamage < kit[p].max_health
      BY <3>1, ProfilesAssumption, RuntimeAssumption
    <3>3. health[p] \in {kit[p].max_health - DroneDamage, kit[p].max_health}
      BY DEF Init
    <3> QED
      BY <3>1, <3>2, <3>3
  <2>2. /\ place \in [Players -> Places] /\ kit \in [Players -> Profiles]
        /\ health \in [Players -> Nat]
    BY <2>1 DEF Init, Places
  <2>3. clock \in Elapsed
    BY <1>1, DurationsAssumption DEF Elapsed
  <2> QED
    BY <1>1, <2>1, <2>2, <2>3 DEF Types
<1>3. MemoryAgrees /\ BothPlay
  BY <1>1 DEF MemoryAgrees, BothPlay, InProgress
<1>4. StagesAgree
  BY <1>1, MembersDiffer DEF StagesAgree
<1>5. EndAgrees
  BY <1>1 DEF EndAgrees, EndsAreTold
<1>6. TaskInv
  BY <1>1 DEF TaskInv
<1> QED
  BY <1>2, <1>3, <1>4, <1>5, <1>6 DEF RuntimeInv, SessionInv

\* Every action keeps it.
LEMMA NextRuntime ==
    ASSUME RuntimeInv, Next
    PROVE  RuntimeInv' /\ Explained
  BY TakeKeeps, HandleKeeps, DepartKeeps, LeaveKeeps, TickKeeps DEF Next, Departure

\* So does a stuttering step.
LEMMA StutterRuntime ==
    ASSUME RuntimeInv, UNCHANGED vars
    PROVE  RuntimeInv'
<1>1. UNCHANGED <<stored, clock, task, online, members>> /\ Ignore
  BY DEF vars, Ignore, session
<1>2. SessionInv' /\ (InProgress' <=> InProgress)
  BY <1>1, IgnoreKeeps DEF RuntimeInv
<1> QED
  BY <1>1, <1>2 DEF RuntimeInv, TaskInv, Seated, Leaving

\* The session agrees with what is stored, and with who is there, in every state that the
\* coordinator reaches (SharedSession).
THEOREM SessionIsConsistent == Spec => []RuntimeInv
  BY InitRuntime, NextRuntime, StutterRuntime, PTL DEF Spec

\* What the memory of the coordinator holds is what is stored, whatever was retried,
\* cancelled or answered late in between (CooperationRuntime, participants, actors).
THEOREM MemoryIsAlwaysStored == Spec => []MemoryIsStored
<1>1. ASSUME RuntimeInv PROVE MemoryIsStored
  <2>1. InProgress => /\ Len(members) = 2
                      /\ \A role \in Roles :
                            health[Player(role)] > 0 <=> stored.life[role] = "Active"
    <3> SUFFICES ASSUME InProgress
                 PROVE  /\ Len(members) = 2
                        /\ \A role \in Roles :
                              health[Player(role)] > 0 <=> stored.life[role] = "Active"
      OBVIOUS
    <3>1. /\ Len(members) = 2
          /\ Player("Anchor") = Seats[1] /\ Player("Runner") = Seats[2]
      BY <1>1, WhilePlaying DEF RuntimeInv
    <3>2. \A i \in {1, 2} : health[Seats[i]] > 0 <=> stored.life[RoleAt(i)] = "Active"
      BY <1>1 DEF RuntimeInv, SessionInv, BothPlay
    <3> QED
      BY <3>1, <3>2 DEF Roles, RoleAt
  <2> QED
    BY <1>1, <2>1
    DEF RuntimeInv, SessionInv, MemoryAgrees, CopiesAgree, StagesAgree, TaskInv, Leaving,
        MemoryIsStored
<1> QED
  BY <1>1, SessionIsConsistent, PTL

\* An end is told once, to both who played, with its outcome, subject and time, and the
\* activity ends with it (finish_cooperation_terminal, broadcast_cooperation_summary).
THEOREM EndsAreAlwaysTold == Spec => []EndsAreTold
<1>1. RuntimeInv => EndsAreTold
  BY DEF RuntimeInv, SessionInv, EndAgrees
<1> QED
  BY <1>1, SessionIsConsistent, PTL

\* A session is thrown away for the reasons that are listed and for no other
\* (abort_after_command_failure, reset).
THEOREM AbortsAreAlwaysExplained == Spec => AbortsAreExplained
<1>1. ASSUME RuntimeInv, Next PROVE Explained
  BY <1>1, NextRuntime
<1> QED
  BY <1>1, SessionIsConsistent, PTL DEF Spec, AbortsAreExplained, Explained
=============================================================================
