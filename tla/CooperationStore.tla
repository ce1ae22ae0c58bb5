-------------------------- MODULE CooperationStore --------------------------
(***************************************************************************)
(* The durable side of a cooperation (runtime/persistence/cooperation.rs   *)
(* and its migration): one parent row with its two participant rows, the   *)
(* replay events and the reward grants of one session.  Every operation is *)
(* one transaction under the session's advisory lock: it rebuilds the pure *)
(* state from the row by running the domain's methods again, checks the    *)
(* replay stream against the row, applies one method, writes the columns,  *)
(* the events and the grants, and commits.                                 *)
(*                                                                         *)
(* A commit can be acknowledged, lose its acknowledgement, or not happen:  *)
(* the caller of the last two sees the same database error and may call    *)
(* again, at the same elapsed time or later.  Only the replay mode is      *)
(* modelled, the only one the gateway uses.                                *)
(* A name that ends in an underscore is a faulty variant of a definition.  *)
(***************************************************************************)
EXTENDS CooperationEvidence

CONSTANT Distances      \* squared distances the gateway may measure

VARIABLES
    row,        \* the rows of cooperation_operations and its participants, or None
    events,     \* the session's cooperation and reward replay events, in order
    grants,     \* how often each role has been granted its reward
    clock,      \* elapsed time, as the gateway reads it for each call
    reply       \* what the last caller was told

vars == <<row, events, grants, clock, reply>>

\* A call is told the domain's answer, or that it conflicts with what is stored, or
\* one of the failures that abort the session: stored state that does not load, a
\* row that a CHECK refuses, evidence the replay encoder refuses, a lost answer.
Replies == Answers \cup {"Conflict", "Corrupt", "CheckViolation", "EvidenceRefused", "Lost"}

-----------------------------------------------------------------------------
(* The row *)

StartRow(id, profile, health) ==
    [start |-> id, profile |-> profile, admitted |-> health,
     health |-> health, life |-> [r \in Roles |-> "Active"],
     phase |-> "AwaitingAnchor",
     flags |-> {},
     anchorAt |-> None, ping |-> None, runnerAt |-> None, downedAt |-> None,
     revive |-> None, revivedAt |-> None, reviveCount |-> 0,
     wardenAt |-> None, outcome |-> "None", terminalAt |-> None]

\* The participant a row says was defeated.
Fallen(r) ==
    IF r.outcome # "FailedParticipantDefeated" THEN None
    ELSE CHOOSE role \in Roles : r.life[role] = "Defeated"

\* The pure state a row stands for.
Loaded(r) ==
    LET s == Rebuilt(r).state
    IN  IF r.outcome = "None" THEN s ELSE Ending(r.outcome, Fallen(r), s, r.terminalAt).state

\* validate_state_parity: columns the rebuilt state does not come from agree with it.
Parity(r, s) ==
    /\ s.contributions = r.flags
    /\ s.reviveCount = r.reviveCount
    /\ s.health = r.health /\ s.life = r.life
    /\ r.runnerAt = r.downedAt
    /\ (r.wardenAt # None) <=> "warden_completed" \in r.flags

\* reconstruct_state succeeds.
Loads(r) ==
    /\ Taken(Rebuilt(r))
    /\ Rebuilt(r).state.phase = r.phase
    /\ r.outcome = "FailedParticipantDefeated" =>
          \E role \in Roles : {x \in Roles : r.life[x] = "Defeated"} = {role}
    /\ r.outcome # "None" => Loaded(r).terminal = r.outcome
    /\ Parity(r, Loaded(r))

AcceptedTimes(r) ==
    {r.anchorAt, r.runnerAt, r.revivedAt, r.wardenAt,
     IF r.ping = None THEN None ELSE r.ping.at,
     IF r.revive = None THEN None ELSE r.revive.at} \ {None}

\* The CHECK constraints of migration 0008 that relate columns to each other.
RowChecks(r) ==
    /\ "anchor_arrived" \in r.flags <=> r.anchorAt # None
    /\ "pinged" \in r.flags <=> r.ping # None
    /\ "runner_arrived" \in r.flags <=> r.runnerAt # None
    /\ r.runnerAt = r.downedAt
    /\ "revived" \in r.flags <=> r.revivedAt # None
    /\ "revived" \in r.flags <=> r.reviveCount = 1
    /\ "warden_completed" \in r.flags <=> r.wardenAt # None
    /\ "warden_completed" \in r.flags <=> r.outcome = "Succeeded"
    /\ r.outcome = "None" <=> r.terminalAt = None
    /\ r.flags \ {"warden_completed"} = RecordedIn[r.phase]
    /\ r.revive # None <=> r.phase \in {"ReviveChannel", "EncounterActive"}
    /\ \A x \in Roles : (r.life[x] = "Active") <=> r.health[x] > 0
    /\ r.ping # None => r.anchorAt <= r.ping.at
    /\ r.runnerAt # None => r.ping.at <= r.runnerAt /\ r.runnerAt <= r.ping.at + PingTTL
    /\ r.revive # None => /\ r.downedAt <= r.revive.at
                          /\ r.revive.at <= r.downedAt + ReviveWindow
    /\ r.revivedAt # None => /\ r.revive.at + ReviveChannelTime <= r.revivedAt
                             /\ r.revivedAt <= r.downedAt + ReviveWindow
    /\ r.wardenAt # None => r.revivedAt <= r.wardenAt
    /\ \A at \in AcceptedTimes(r) : at <= OperationDuration
    /\ r.terminalAt # None =>
          /\ \A at \in AcceptedTimes(r) : at <= r.terminalAt
          /\ r.outcome = "Succeeded" =>
                r.phase = "EncounterActive" /\ r.terminalAt = r.wardenAt
          /\ r.outcome = "FailedPingTimeout" =>
                r.phase = "AwaitingRunner" /\ r.terminalAt > r.ping.at + PingTTL
          /\ r.outcome = "FailedReviveTimeout" =>
                /\ r.phase \in {"RunnerDowned", "ReviveChannel"}
                /\ r.terminalAt > r.downedAt + ReviveWindow
          /\ r.outcome = "FailedOperationTimeout" => r.terminalAt > OperationDuration
          /\ r.outcome = "FailedParticipantDefeated" =>
                r.phase = "EncounterActive" /\ r.terminalAt <= OperationDuration
          /\ r.outcome = "AbandonedDisconnect" => r.terminalAt <= OperationDuration
          /\ r.outcome \in {"FailedOperationTimeout", "AbandonedDisconnect"} =>
                /\ r.phase = "AwaitingRunner" => r.terminalAt <= r.ping.at + PingTTL
                /\ r.phase \in {"RunnerDowned", "ReviveChannel"} =>
                      r.terminalAt <= r.downedAt + ReviveWindow

-----------------------------------------------------------------------------
(* The replay evidence *)

\* The session before its cooperation: both are admitted and the Drone falls.
Admission ==
    <<Event("module_state_snapshot", "Anchor", None),
      Event("module_state_snapshot", "Runner", None),
      Event("activity_started", "Anchor", None),
      Event("enemy_died", "Anchor", None)>>

\* The payloads that stand for a row.
StartedPayload(r) == [start |-> r.start, profile |-> r.profile, admitted |-> r.admitted]

PingPayload(r) ==
    [start |-> r.start, anchorAt |-> r.anchorAt, ping |-> r.ping,
     expires |-> r.ping.at + PingTTL]

DownPayload(r) ==
    [start |-> r.start, at |-> r.runnerAt,
     before |-> r.admitted["Runner"], damage |-> r.admitted["Runner"]]

RevivePayload(r) == [start |-> r.start, revive |-> r.revive, at |-> r.revivedAt]

\* The end of the pure state s and the columns of its row: a success grants both, and
\* the row does not store who left.
TerminalPayload(r, s, subject) ==
    [start |-> r.start, phase |-> r.phase, health |-> s.health, life |-> s.life,
     contributions |->
        [flags |-> s.contributions, anchorAt |-> r.anchorAt, ping |-> r.ping,
         runnerAt |-> r.runnerAt, downedAt |-> r.downedAt, revive |-> r.revive,
         revivedAt |-> r.revivedAt, reviveCount |-> s.reviveCount,
         wardenAt |-> r.wardenAt],
     outcome |-> r.outcome, subject |-> subject, at |-> r.terminalAt,
     grants |-> IF r.outcome = "Succeeded" THEN Roles ELSE {}]

TerminalEvent(r, s, subject) ==
    Event(IF r.outcome = "Succeeded" THEN "cooperation_succeeded" ELSE "cooperation_failed",
          "Anchor", TerminalPayload(r, s, subject))

RewardEventsOfOne_ ==
    <<Event("activity_completed", "Anchor", None),
      Event("loot_granted", "Anchor", None), Event("progression_granted", "Anchor", None)>>

RewardEvents ==
    <<Event("activity_completed", "Anchor", None),
      Event("loot_granted", "Anchor", None), Event("progression_granted", "Anchor", None),
      Event("loot_granted", "Runner", None), Event("progression_granted", "Runner", None)>>

\* The only payload of a kind, when the row has come to it.
Tells(stream, kind, present, payload) ==
    Said(stream, Len(stream), kind) = IF present THEN {payload} ELSE {}

\* The end that is stored, which may name either role for a departure.
TellsEnd(r, stream, subjects) ==
    LET ends == {stream[j] : j \in OfKinds(stream, Len(stream), Ends)}
    IN  IF r.outcome = "None" THEN ends = {}
        ELSE \E subject \in subjects : ends = {TerminalEvent(r, Loaded(r), subject)}

\* The stream is read without an error, and says what the row says.
StreamMatches(r, stream) ==
    /\ Accepted(stream)
    /\ Tells(stream, "cooperation_started", TRUE, StartedPayload(r))
    /\ Tells(stream, "cooperation_pinged", "pinged" \in r.flags, PingPayload(r))
    /\ Tells(stream, "player_downed", "runner_arrived" \in r.flags, DownPayload(r))
    /\ Tells(stream, "player_revived", "revived" \in r.flags, RevivePayload(r))
    /\ TellsEnd(r, stream,
                IF r.outcome = "AbandonedDisconnect" THEN Roles ELSE {Fallen(r)})

-----------------------------------------------------------------------------
(* Transactions *)

Init ==
    /\ row = None /\ events = Admission
    /\ grants = [r \in Roles |-> 0]
    /\ clock = 0
    /\ reply = "Applied"

\* What a call would leave if it commits, and what its caller is told.
Transaction(r, stream, granted, said) ==
    [row |-> r, events |-> stream, grants |-> granted, said |-> said]

Writes(r, stream, said) == Transaction(r, stream, grants, said)

\* Nothing to write: a replay, or an error.
Stays(said) == Writes(row, events, said)

\* `?' on an error: the transaction is dropped and nothing is written.
Abort(said) ==
    /\ reply' = said
    /\ UNCHANGED <<row, events, grants, clock>>

\* Before it is committed, what was written is checked and the whole stream read again.
\* The answer of a commit can be lost, and so can the commit.
Settle(t) ==
    IF t.said \notin {"Applied", "Replayed", "Pending", "Cancelled"}
    THEN Abort(t.said)
    ELSE IF ~RowChecks(t.row)
    THEN Abort("CheckViolation")
    ELSE IF ~Accepted(t.events)
    THEN Abort("EvidenceRefused")
    ELSE \/ /\ row' = t.row /\ events' = t.events /\ grants' = t.grants
            /\ reply' \in {t.said, "Lost"}
            /\ UNCHANGED clock
         \/ Abort("Lost")

EndAlwaysPays_(r, s, subject) ==
    LET ended == [r EXCEPT !.outcome = s.terminal, !.terminalAt = clock]
    IN  Transaction(ended,
                    events \o (IF s.terminal = "Succeeded" THEN RewardEvents ELSE <<>>)
                           \o <<TerminalEvent(ended, s, subject)>>,
                    [x \in Roles |-> grants[x] + 1],
                    "Applied")

\* The end of the pure state s: the terminal tuple and its event; success also grants
\* both participants.
End(r, s, subject) ==
    LET ended == [r EXCEPT !.outcome = s.terminal, !.terminalAt = clock]
        won   == s.terminal = "Succeeded"
    IN  Transaction(ended,
                    events \o (IF won THEN RewardEvents ELSE <<>>)
                           \o <<TerminalEvent(ended, s, subject)>>,
                    [x \in Roles |-> grants[x] + IF won THEN 1 ELSE 0],
                    "Applied")

\* mutate_cooperation: an expired operation is ended by the call that finds it so.
Mutate(result, conflicts, r, stream) ==
    CASE result.answer = "Expired"                   -> End(row, result.state, None)
      [] result.answer \in {"Applied", "Cancelled"}  -> Writes(r, stream, result.answer)
      [] result.answer \in {"Terminal", "Rejected"}  -> Stays(result.answer)
      [] result.answer \in {"Replayed", "Pending"}   ->
            Stays(IF conflicts THEN "Conflict" ELSE result.answer)

FinishFailureUnstruck_(s, matches, role, result) ==
    IF ~Running(s) THEN Stays("Conflict")
    ELSE IF result.answer \in {"Applied", "Expired"}
    THEN End(row, result.state, role)
    ELSE Stays(result.answer)

FinishFailureRestamps_(s, matches, role, result) ==
    IF ~Running(s) /\ s.terminal \in matches
    THEN Writes([row EXCEPT !.terminalAt = clock], events, "Replayed")
    ELSE Stays("Conflict")

\* finish_cooperation_failure: the retry of the same end, or the failure `result'; a
\* deadline that has passed meanwhile is accepted as the failure.
FinishFailure(s, matches, role, result) ==
    IF ~Running(s)
    THEN Stays(IF /\ s.terminal \in matches /\ row.terminalAt = clock
                  /\ TellsEnd(row, events, {role})
               THEN "Replayed" ELSE "Conflict")
    ELSE IF result.answer \in {"Applied", "Expired"}
         THEN End([row EXCEPT !.health = result.state.health, !.life = result.state.life],
                  result.state, role)
         ELSE Stays(IF result.answer = "Pending" THEN "Conflict" ELSE result.answer)

-----------------------------------------------------------------------------
(* The calls: the transactions each may come to, over what its caller passes. *)

\* What the participants have left of their health when the operation starts.
Healths(profile) == [Roles -> UNION {1 .. profile[r].max_health : r \in Roles}]

\* The operation's clock starts with the commit of its start.
StartCall(id, profile, health) ==
    LET started == StartRow(id, profile, health)
    IN  IF CanStart(profile, health)
        THEN Writes(started,
                    Append(events, Event("cooperation_started", "Anchor", StartedPayload(started))),
                    "Applied")
        ELSE Stays("Rejected")

\* Every other call is given the pure state s that was loaded from the row.

RetryStartCall(s) ==
    UNION {{Stays(RetryStart(s, id, profile, health).answer) : health \in Healths(profile)} :
               id \in OperationIds, profile \in [Roles -> Profiles]}

ArriveAnchorCall(s) ==
    LET again == row.anchorAt # None
    IN  {Mutate(IF again THEN ObserveDeadlines(s, clock)
                ELSE ArriveAnchor(s, "Anchor", "RelayAnchor", clock),
                again /\ row.anchorAt # clock,
                [row EXCEPT !.phase = "AwaitingPing", !.anchorAt = clock,
                            !.flags = @ \cup {"anchor_arrived"}],
                events)}

Pinged(id) ==
    [row EXCEPT !.phase = "AwaitingRunner", !.ping = [id |-> id, at |-> clock],
                !.flags = @ \cup {"pinged"}]

PingCall(s) ==
    {Mutate(Ping(s, "Anchor", "RelayConsole", id, clock), FALSE, Pinged(id),
            Append(events, Event("cooperation_pinged", "Anchor", PingPayload(Pinged(id))))) :
        id \in OperationIds}

DownRunnerCall(s) ==
    LET again == row.runnerAt # None
        r     == [row EXCEPT !.phase = "RunnerDowned",
                             !.runnerAt = clock, !.downedAt = clock,
                             !.flags = @ \cup {"runner_arrived"},
                             !.health["Runner"] = 0, !.life["Runner"] = "Downed"]
    IN  {Mutate(IF again THEN ObserveDeadlines(s, clock)
                ELSE ArriveRunner(s, "Runner", "RelayConsole", clock),
                again /\ row.runnerAt # clock,
                r,
                Append(events, Event("player_downed", "Runner", DownPayload(r))))}

OpenRevive(s, id, distance) ==
    Mutate(StartRevive(s, "Anchor", "Runner", distance, id, clock), FALSE,
           [row EXCEPT !.phase = "ReviveChannel", !.revive = [id |-> id, at |-> clock]],
           events)

StartReviveCall(s) ==
    {OpenRevive(s, id, distance) : id \in OperationIds, distance \in Distances}

ReviveSendsBack_(result) ==
    IF result.answer = "Cancelled"
    THEN Writes([row EXCEPT !.phase = "AwaitingRunner", !.revive = None,
                            !.runnerAt = None, !.downedAt = None,
                            !.flags = @ \ {"runner_arrived"},
                            !.health["Runner"] = row.admitted["Runner"],
                            !.life["Runner"] = "Active"],
                events, "Cancelled")
    ELSE Stays("Rejected")

\* A completed revive replays only against the exact event of its completion.
Revive(result) ==
    LET cancelled == result.answer = "Cancelled"
        revived   == [row EXCEPT !.phase = "EncounterActive",
                                 !.revivedAt = clock, !.reviveCount = 1,
                                 !.flags = @ \cup {"revived"},
                                 !.health["Runner"] = ReviveHealth,
                                 !.life["Runner"] = "Active"]
    IN  Mutate(result,
               result.answer = "Replayed" /\ row.revivedAt # clock,
               IF cancelled THEN [row EXCEPT !.phase = "RunnerDowned", !.revive = None]
               ELSE revived,
               IF cancelled THEN events
               ELSE Append(events, Event("player_revived", "Runner", RevivePayload(revived))))

ObserveReviveCall(s) ==
    {Revive(ObserveRevive(s, "Anchor", "Runner", distance, id, clock)) :
        id \in OperationIds, distance \in Distances}

\* A completion that comes too late is an error like any other: nothing is written.
Complete(s, result) ==
    IF ~Running(s)
    THEN Stays(IF s.terminal = "Succeeded" /\ row.terminalAt = clock
               THEN "Replayed" ELSE "Conflict")
    ELSE IF result.answer = "Applied"
    THEN End([row EXCEPT !.wardenAt = clock, !.flags = @ \cup {"warden_completed"}],
             result.state, None)
    ELSE Stays(result.answer)

CompleteCall(s) == {Complete(s, CompleteWarden(s, clock))}

TimeoutCall(s) == {FinishFailure(s, Timeouts, None, ObserveDeadlines(s, clock))}

DefeatCall(s) ==
    {FinishFailure(s, {"FailedParticipantDefeated"}, role,
                   DefeatParticipant(s, role, clock)) : role \in Roles}

\* The gateway observes the deadlines at the same elapsed time before it abandons, so
\* an abandonment never finds a deadline that has passed.
AbandonCall(s) ==
    {FinishFailure(s, {"AbandonedDisconnect"}, role, Disconnect(s, clock)) :
        role \in {x \in Roles : ~(Running(s) /\ Expired(s, clock))}}

Calls(s) ==
    UNION {RetryStartCall(s), ArriveAnchorCall(s), PingCall(s), DownRunnerCall(s),
           StartReviveCall(s), ObserveReviveCall(s), CompleteCall(s), TimeoutCall(s),
           DefeatCall(s), AbandonCall(s)}

\* Under the session's advisory lock a start finds no operation; every other call loads
\* the stored one and compares it with its replay stream first.
StartOperation ==
    /\ row = None
    /\ \E id \in OperationIds, profile \in [Roles -> Profiles] : \E health \in Healths(profile) :
          Settle(StartCall(id, profile, health))

StoredCall ==
    /\ row # None
    /\ IF Loads(row) /\ StreamMatches(row, events)
       THEN \E t \in Calls(Loaded(row)) : Settle(t)
       ELSE Abort("Corrupt")

Tick ==
    /\ row # None /\ clock < MaxElapsed
    /\ clock' = clock + 1
    /\ UNCHANGED <<row, events, grants, reply>>

Next == StartOperation \/ StoredCall \/ Tick

Spec == Init /\ [][Next]_vars

-----------------------------------------------------------------------------
(* Safety *)

Rows ==
    [start : OperationIds, profile : [Roles -> Profiles], admitted : [Roles -> Nat],
     health : [Roles -> Nat], life : [Roles -> LifeStates],
     phase : Phases \ {"Succeeded", "Failed"}, flags : SUBSET Contributions,
     anchorAt : Elapsed \cup {None}, ping : OperationRecords \cup {None},
     runnerAt : Elapsed \cup {None}, downedAt : Elapsed \cup {None},
     revive : OperationRecords \cup {None}, revivedAt : Elapsed \cup {None},
     reviveCount : {0, 1}, wardenAt : Elapsed \cup {None},
     outcome : Outcomes \cup {"None"}, terminalAt : Elapsed \cup {None}]

\* Distances are measured in i64, and an absent row is neither a row nor a state.
ASSUME StoreAssumption ==
    /\ Distances \subseteq Int
    /\ None \notin Rows
    /\ None \notin CooperationStates

\* The rows, the grants, the clock and the reply keep their types.
TypeOK ==
    /\ row \in Rows \cup {None}
    /\ grants \in [Roles -> Nat]
    /\ clock \in Elapsed
    /\ reply \in Replies

\* Whatever was committed, with whatever answers lost in between, can be loaded again:
\* the last call's columns replay to the stored phase, flags, health and life.
RowAlwaysLoads == TypeOK /\ (row # None => Loads(row))

\* The replay stream never falls behind or ahead of the row, however often a call whose
\* answer was lost is repeated: it is read without an error and says what the row says,
\* and its phase and count are those of the row but for what has no event (the anchor's
\* arrival, a channel that runs).
StreamFollowsRow ==
    row # None =>
        /\ StreamMatches(row, events)
        /\ LastPhase(events) =
              IF row.outcome # "None" THEN row.phase
              ELSE CASE row.phase = "AwaitingPing"  -> "AwaitingAnchor"
                     [] row.phase = "ReviveChannel" -> "RunnerDowned"
                     [] OTHER                       -> row.phase
        /\ ContributionCount(events) =
              IF row.outcome = "None" /\ row.flags = {"anchor_arrived"} THEN 0
              ELSE Cardinality(row.flags)

\* What the domain accepts, the CHECKs of the migration allow (order of times, windows,
\* precedence of the timeouts) and the replay reads, with one exception: the fall of a
\* participant that comes after a deadline.
LayersAgree ==
    /\ reply # "CheckViolation"
    /\ reply = "EvidenceRefused" => row # None /\ Running(Loaded(row)) /\ Expired(Loaded(row), clock)

\* Each participant is rewarded once, exactly when the operation is stored as a success.
RewardedExactlyOnce ==
    \A r \in Roles :
        grants[r] = (IF row # None /\ row.outcome = "Succeeded" THEN 1 ELSE 0)

\* Row, stream and grants are one fact, written by one transaction.
RowStreamAndGrantsAgree == StreamFollowsRow /\ RewardedExactlyOnce

\* A stored outcome is final: no retry, late call or lost answer rewrites the row, its
\* evidence or its grants.
StoredEndIsFinal ==
    [][row # None /\ row.outcome # "None" => UNCHANGED <<row, events, grants>>]_vars

\* A caller that is told its call was applied, cancelled or is pending reads the truth:
\* the row it changed, or left alone, is the one that is stored.
AnswerIsDurable ==
    [][clock' = clock =>
        /\ reply' = "Cancelled" => row'.phase = "RunnerDowned" /\ row'.revive = None
        /\ reply' \in {"Replayed", "Pending", "Rejected", "Terminal", "Conflict"} =>
              UNCHANGED <<row, events, grants>>
        /\ reply' = "Applied" /\ reply # "Applied" => row' # row]_vars

\* What is answered is stored, and what is stored as an end stays.
StoredAsAnswered == StoredEndIsFinal /\ AnswerIsDurable

Contract == INSTANCE RelayContract WITH
    Limit   <- OperationDuration,
    done    <- IF row = None THEN {} ELSE row.flags,
    now     <- clock,
    outcome <- IF row = None \/ row.outcome = "None" THEN "Running"
               ELSE IF row.outcome = "Succeeded" THEN "Succeeded" ELSE "Failed"

\* The stored operation keeps the promise of the relay through rollbacks, lost answers
\* and retries.
ImplementsContract == Contract!Spec

\* What the columns say, without a replay.
Meaning(r) ==
    [start           |-> r.start,
     phase           |-> IF r.outcome = "None" THEN r.phase
                         ELSE IF r.outcome = "Succeeded" THEN "Succeeded" ELSE "Failed",
     profile         |-> r.profile,
     admitted        |-> r.admitted,
     health          |-> r.health,
     life            |-> r.life,
     contributions   |-> r.flags,
     ping            |-> r.ping,
     downedAt        |-> r.downedAt,
     channel         |-> IF r.phase = "ReviveChannel" /\ r.outcome = "None"
                         THEN r.revive ELSE None,
     completedRevive |-> IF "revived" \in r.flags THEN r.revive.id ELSE None,
     reviveCount     |-> r.reviveCount,
     terminal        |-> r.outcome]

Ledger == INSTANCE CooperationLedger WITH
    stored <- IF row = None THEN None ELSE Meaning(row)

\* Rows, evidence and grants together are the ledger the gateway counts on: what the
\* columns say is what the domain computed, whatever was lost or refused in between.
ImplementsLedger == ImplementsContract /\ Ledger!LedgerSpec
=============================================================================
