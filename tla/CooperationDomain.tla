------------------------- MODULE CooperationDomain -------------------------
(***************************************************************************)
(* The pure two-player cooperation operation of the Revenant server        *)
(* (runtime/cooperation): the state an operation keeps, and what every     *)
(* method of CooperationState answers and leaves behind, as operators.     *)
(* The module has no variables.  `Cooperation` runs the methods against a  *)
(* clock, and `CooperationStore` runs them inside database transactions.   *)
(*                                                                         *)
(* A method never reads a clock: it is given the authoritative elapsed     *)
(* time `e' of the operation.  It returns a Result, the next state and an  *)
(* answer.  The many error values of the code that leave the state alone   *)
(* are the one answer "Rejected"; the two errors a caller tells apart keep *)
(* an answer of their own: "Terminal", and "Expired", which has committed  *)
(* a timeout into the state.                                               *)
(*                                                                         *)
(* A definition whose name ends in an underscore is a faulty variant of the *)
(* one that follows it.  No specification uses it: it is put in the place  *)
(* of the real one to show which property notices the fault.               *)
(***************************************************************************)
EXTENDS Integers

CONSTANTS
    OperationIds,       \* well-formed operation identifiers
    Profiles,           \* admitted combat profiles, records with max_health
    None,               \* the absent value of an Option
    OperationDuration,  \* OPERATION_DURATION_MS
    PingTTL,            \* PING_TTL_MS
    ReviveWindow,       \* REVIVE_WINDOW_MS
    ReviveChannelTime,  \* REVIVE_CHANNEL_MS
    ReviveHealth,       \* REVIVE_HEALTH
    MaxReviveDistance,  \* MAX_REVIVE_DISTANCE_SQUARED
    MaxElapsed          \* u64::MAX, where elapsed time saturates

Elapsed == 0 .. MaxElapsed

ASSUME DurationsAssumption ==
    /\ {OperationDuration, PingTTL, ReviveWindow, ReviveChannelTime,
        MaxReviveDistance, MaxElapsed} \subseteq Nat
    /\ ReviveHealth \in Nat \ {0}
    /\ OperationDuration + PingTTL <= MaxElapsed
    /\ OperationDuration + ReviveWindow <= MaxElapsed

\* CombatProfile::is_valid: only the health bound matters to an operation.
ASSUME ProfilesAssumption ==
    \A p \in Profiles : p.max_health \in Nat /\ p.max_health >= ReviveHealth

Roles         == {"Anchor", "Runner"}
Targets       == {"RelayAnchor", "RelayConsole"}
Phases        == {"AwaitingAnchor", "AwaitingPing", "AwaitingRunner", "RunnerDowned",
                  "ReviveChannel", "EncounterActive", "Succeeded", "Failed"}
LifeStates    == {"Active", "Downed", "Defeated"}
Timeouts      == {"FailedPingTimeout", "FailedReviveTimeout", "FailedOperationTimeout"}
Failures      == Timeouts \cup {"FailedParticipantDefeated", "AbandonedDisconnect"}
Outcomes      == Failures \cup {"Succeeded"}
Contributions == {"anchor_arrived", "pinged", "runner_arrived", "revived",
                  "warden_completed"}
Answers       == {"Applied", "Replayed", "Pending", "Cancelled",
                  "Rejected", "Terminal", "Expired"}

OperationRecords == [id : OperationIds, at : Elapsed]

ASSUME NoneAssumption ==
    /\ None \notin Roles
    /\ None \notin OperationIds
    /\ None \notin Elapsed
    /\ None \notin OperationRecords

\* `terminal' is "None" while the operation runs.
CooperationStates ==
    [start           : OperationIds,
     phase           : Phases,
     profile         : [Roles -> Profiles],
     admitted        : [Roles -> Nat],
     health          : [Roles -> Nat],
     life            : [Roles -> LifeStates],
     contributions   : SUBSET Contributions,
     ping            : OperationRecords \cup {None},
     downedAt        : Elapsed \cup {None},
     channel         : OperationRecords \cup {None},
     completedRevive : OperationIds \cup {None},
     reviveCount     : Nat,
     terminal        : Outcomes \cup {"None"}]

Result(s, answer) == [state |-> s, answer |-> answer]

-----------------------------------------------------------------------------
(* Deadlines and terminal outcomes *)

StrictlyAfterTheNext_(e, start, duration) == e > start + duration + 1

\* Strictly after start + duration; a sum beyond u64 counts as expired.
StrictlyAfter(e, start, duration) ==
    start + duration > MaxElapsed \/ e > start + duration

PingExpired(s, e) ==
    s.phase = "AwaitingRunner" /\ StrictlyAfter(e, s.ping.at, PingTTL)

ReviveExpired(s, e) ==
    /\ s.phase \in {"RunnerDowned", "ReviveChannel"}
    /\ StrictlyAfter(e, s.downedAt, ReviveWindow)

TimeoutOfOperationFirst_(s, e) ==
    IF e > OperationDuration THEN "FailedOperationTimeout"
    ELSE IF PingExpired(s, e) THEN "FailedPingTimeout" ELSE "FailedReviveTimeout"

\* The deadline of the phase comes before the one of the whole operation.
TimeoutAt(s, e) ==
    IF PingExpired(s, e) THEN "FailedPingTimeout"
    ELSE IF ReviveExpired(s, e) THEN "FailedReviveTimeout"
    ELSE "FailedOperationTimeout"

Running(s)    == s.terminal = "None"
Expired(s, e) == PingExpired(s, e) \/ ReviveExpired(s, e) \/ e > OperationDuration

CommitTerminal(s, outcome) ==
    [s EXCEPT !.terminal = outcome,
              !.phase    = IF outcome = "Succeeded" THEN "Succeeded" ELSE "Failed",
              !.channel  = None]

\* The common shape of every method: terminal and expired operations first, then
\* the retry of what was already done, then the transition, else a rejection.
Observe(s, e, replays, applies, done) ==
    IF ~Running(s) THEN Result(s, "Terminal")
    ELSE IF Expired(s, e) THEN Result(CommitTerminal(s, TimeoutAt(s, e)), "Expired")
    ELSE IF replays THEN Result(s, "Replayed")
    ELSE IF applies THEN done
    ELSE Result(s, "Rejected")

ObserveDeadlines(s, e) ==
    Observe(s, e, FALSE, TRUE, Result(s, "Pending"))

-----------------------------------------------------------------------------
(* Admission *)

CanStart(profile, health) ==
    \A r \in Roles : health[r] > 0 /\ health[r] <= profile[r].max_health

StartWithHealth(id, profile, health) ==
    [start           |-> id,
     phase           |-> "AwaitingAnchor",
     profile         |-> profile,
     admitted        |-> health,
     health          |-> health,
     life            |-> [r \in Roles |-> "Active"],
     contributions   |-> {},
     ping            |-> None,
     downedAt        |-> None,
     channel         |-> None,
     completedRevive |-> None,
     reviveCount     |-> 0,
     terminal        |-> "None"]

\* A retried start compares the immutable admission, not the present health.
RetryStart(s, id, profile, health) ==
    Result(s, IF s.start = id /\ s.profile = profile /\ s.admitted = health
              THEN "Replayed" ELSE "Rejected")

-----------------------------------------------------------------------------
(* The relay: anchor, ping, runner *)

AnchorArrives(s) ==
    [s EXCEPT !.contributions = @ \cup {"anchor_arrived"}, !.phase = "AwaitingPing"]

ArriveAnchor(s, role, target, e) ==
    Observe(s, e, FALSE,
            /\ role = "Anchor" /\ target = "RelayAnchor"
            /\ s.phase = "AwaitingAnchor",
            Result(AnchorArrives(s), "Applied"))

Pings(s, id, e) ==
    [s EXCEPT !.ping = [id |-> id, at |-> e],
              !.contributions = @ \cup {"pinged"},
              !.phase = "AwaitingRunner"]

Ping(s, role, target, id, e) ==
    LET authorised == role = "Anchor" /\ target = "RelayConsole"
    IN  Observe(s, e,
                authorised /\ s.ping # None /\ s.ping.id = id,
                authorised /\ s.ping = None /\ s.phase = "AwaitingPing",
                Result(Pings(s, id, e), "Applied"))

RunnerFallsUnhurt_(s, e) ==
    [s EXCEPT !.life["Runner"] = "Downed",
              !.contributions = @ \cup {"runner_arrived"},
              !.downedAt = e,
              !.phase = "RunnerDowned"]

RunnerFalls(s, e) ==
    [s EXCEPT !.health["Runner"] = 0,
              !.life["Runner"] = "Downed",
              !.contributions = @ \cup {"runner_arrived"},
              !.downedAt = e,
              !.phase = "RunnerDowned"]

ArriveRunner(s, role, target, e) ==
    Observe(s, e, FALSE,
            /\ role = "Runner" /\ target = "RelayConsole"
            /\ s.phase = "AwaitingRunner"
            /\ s.life["Runner"] = "Active" /\ s.health["Runner"] > 0,
            Result(RunnerFalls(s, e), "Applied"))

-----------------------------------------------------------------------------
(* The revive *)

InReach(distance) == 0 <= distance /\ distance <= MaxReviveDistance

OpenChannel(s, id, e) ==
    [s EXCEPT !.channel = [id |-> id, at |-> e], !.phase = "ReviveChannel"]

StartRevive(s, role, targetRole, distance, id, e) ==
    LET authorised == role = "Anchor" /\ targetRole = "Runner" /\ InReach(distance)
    IN  Observe(s, e,
            /\ authorised
            /\ \/ s.completedRevive = id
               \/ s.reviveCount = 0 /\ s.channel # None /\ s.channel.id = id,
            /\ authorised
            /\ s.reviveCount = 0 /\ s.channel = None /\ s.phase = "RunnerDowned"
            /\ s.life["Anchor"] = "Active" /\ s.life["Runner"] = "Downed",
            Result(OpenChannel(s, id, e), "Applied"))

CancelRevive(s) == [s EXCEPT !.channel = None, !.phase = "RunnerDowned"]

FinishRevive(s) ==
    LET max == s.profile["Runner"].max_health
    IN  [s EXCEPT !.health["Runner"] = IF ReviveHealth <= max THEN ReviveHealth ELSE max,
                  !.life["Runner"] = "Active",
                  !.reviveCount = @ + 1,
                  !.contributions = @ \cup {"revived"},
                  !.completedRevive = s.channel.id,
                  !.channel = None,
                  !.phase = "EncounterActive"]

\* Too far away cancels the channel; a negative distance or a time before the
\* channel began is an error; otherwise the channel is pending or complete.
ObserveRevive(s, role, targetRole, distance, id, e) ==
    LET authorised == role = "Anchor" /\ targetRole = "Runner"
        held == e - s.channel.at
    IN  Observe(s, e,
            authorised /\ s.completedRevive = id,
            /\ authorised
            /\ s.phase = "ReviveChannel" /\ s.channel # None /\ s.channel.id = id
            /\ distance >= 0
            /\ distance > MaxReviveDistance \/ held >= 0,
            IF distance > MaxReviveDistance THEN Result(CancelRevive(s), "Cancelled")
            ELSE IF held < ReviveChannelTime THEN Result(s, "Pending")
            ELSE Result(FinishRevive(s), "Applied"))

-----------------------------------------------------------------------------
(* The end of the operation *)

CountWarden(s) == [s EXCEPT !.contributions = @ \cup {"warden_completed"}]

CompleteWardenLate_(s, e) ==
    IF s.terminal = "Succeeded" THEN Result(s, "Replayed")
    ELSE IF Running(s) /\ s.phase = "EncounterActive"
    THEN Result(CommitTerminal(CountWarden(s), "Succeeded"), "Applied")
    ELSE Result(s, "Rejected")

\* A success is replayed whatever the time; the last contribution is recorded
\* before completeness is checked, so that the check sees all five.
CompleteWarden(s, e) ==
    LET counted == CountWarden(s)
    IN  IF s.terminal = "Succeeded"
        THEN Result(s, "Replayed")
        ELSE Observe(s, e, FALSE, s.phase = "EncounterActive",
                     IF counted.contributions = Contributions
                     THEN Result(CommitTerminal(counted, "Succeeded"), "Applied")
                     ELSE Result(counted, "Rejected"))

Strike(s, role) == [s EXCEPT !.health[role] = 0, !.life[role] = "Defeated"]

DefeatParticipant(s, role, e) ==
    Observe(s, e, FALSE, s.phase = "EncounterActive",
            Result(CommitTerminal(Strike(s, role), "FailedParticipantDefeated"),
                   "Applied"))

DisconnectAnyway_(s, e) ==
    IF s.terminal = "AbandonedDisconnect" THEN Result(s, "Replayed")
    ELSE Result(CommitTerminal(s, "AbandonedDisconnect"), "Applied")

Disconnect(s, e) ==
    IF s.terminal = "AbandonedDisconnect"
    THEN Result(s, "Replayed")
    ELSE Observe(s, e, FALSE, TRUE,
                 Result(CommitTerminal(s, "AbandonedDisconnect"), "Applied"))

\* CooperationState::reward: both participants or neither.
Rewarded(s) == s.terminal = "Succeeded"

-----------------------------------------------------------------------------
(* What makes a state consistent: the facts about one state that every method  *)
(* keeps, stated once for all the modules that hold such a state.              *)

\* The contributions each phase of an unfailed operation stands for.
RecordedIn == [AwaitingAnchor  |-> {},
               AwaitingPing    |-> {"anchor_arrived"},
               AwaitingRunner  |-> {"anchor_arrived", "pinged"},
               RunnerDowned    |-> {"anchor_arrived", "pinged", "runner_arrived"},
               ReviveChannel   |-> {"anchor_arrived", "pinged", "runner_arrived"},
               EncounterActive |-> {"anchor_arrived", "pinged", "runner_arrived",
                                    "revived"},
               Succeeded       |-> Contributions]

ContributionsAgree(s) ==
    /\ s.phase # "Failed" => s.contributions = RecordedIn[s.phase]
    /\ s.phase = "Failed" =>
          \E phase \in Phases \ {"Succeeded", "Failed"} :
              s.contributions = RecordedIn[phase]
    /\ s.ping # None <=> "pinged" \in s.contributions
    /\ s.downedAt # None <=> "runner_arrived" \in s.contributions

OutcomeAgrees(s) ==
    /\ s.phase = "Succeeded" <=> s.terminal = "Succeeded"
    /\ s.phase = "Failed" <=> s.terminal \in Failures
    /\ s.channel # None <=> s.phase = "ReviveChannel"

LifeAgrees(s) ==
    /\ \A r \in Roles :
          /\ s.life[r] = "Active" <=> s.health[r] > 0
          /\ s.health[r] <= s.profile[r].max_health
          /\ s.life[r] = "Defeated" => s.terminal = "FailedParticipantDefeated"
    /\ s.life["Anchor"] # "Downed"
    /\ s.life["Runner"] = "Downed" =>
          "runner_arrived" \in s.contributions /\ "revived" \notin s.contributions
    /\ s.phase \in {"RunnerDowned", "ReviveChannel"} => s.life["Runner"] = "Downed"

RevivedOnce(s) ==
    /\ s.reviveCount = (IF "revived" \in s.contributions THEN 1 ELSE 0)
    /\ s.reviveCount = 1 <=> s.completedRevive # None

\* The accepted times are ordered, within the limits that follow them, and not
\* later than e.
InTime(s, e) ==
    /\ s.ping # None => s.ping.at <= e /\ s.ping.at <= OperationDuration
    /\ s.downedAt # None =>
          /\ s.ping # None /\ s.ping.at <= s.downedAt
          /\ s.downedAt <= e /\ s.downedAt <= OperationDuration
          /\ s.downedAt <= s.ping.at + PingTTL
    /\ s.channel # None =>
          /\ s.downedAt # None /\ s.downedAt <= s.channel.at
          /\ s.channel.at <= e /\ s.channel.at <= OperationDuration
          /\ s.channel.at <= s.downedAt + ReviveWindow
=============================================================================
