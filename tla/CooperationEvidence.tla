------------------------- MODULE CooperationEvidence -------------------------
(***************************************************************************)
(* What the replay accepts of a cooperation (runtime/replay/cooperation).  *)
(* A log is the stream of one session in the order of its ids; an event    *)
(* has a kind, the participant it is attributed to, and the payload of its *)
(* kind.  Payloads keep operation ids, times, health, life and phase; the  *)
(* bounded identities, weapons and loadouts of a participant are its role, *)
(* and fields every encoder fills with a constant are left out.            *)
(* A name that ends in an underscore is a faulty variant of a definition.  *)
(***************************************************************************)
EXTENDS CooperationDomain, Sequences, FiniteSets

Event(kind, role, data) == [kind |-> kind, role |-> role, data |-> data]

Ends     == {"cooperation_succeeded", "cooperation_failed"}
Family   == Ends \cup {"cooperation_started", "cooperation_pinged",
                       "player_downed", "player_revived"}
Generics == {"activity_completed", "loot_granted", "progression_granted"}

\* The events of some kinds among the first n, and what they say.
OfKinds(log, n, kinds) == {j \in 1 .. n : log[j].kind \in kinds}
Said(log, n, kind)     == {log[j].data : j \in OfKinds(log, n, {kind})}
The(log, n, kind)      == CHOOSE data \in Said(log, n, kind) : TRUE
Has(log, n, kind)      == OfKinds(log, n, {kind}) # {}
ByRole(log, n, kind)   == {log[j].role : j \in OfKinds(log, n, {kind})}

-----------------------------------------------------------------------------
(* The recorded calls, run again.  A record has the columns of a stored row *)
(* and also those of the contributions of a terminal payload.               *)

Taken(result) == result.answer \in {"Applied", "Replayed", "Pending", "Cancelled"}

\* One more recorded call, when its columns are set and all before it were accepted.
Then(before, recorded, result) == IF Taken(before) /\ recorded THEN result ELSE before

\* Each link of the replay: the admission, then one recorded call after the other.
Admitted(r) ==
    Result(StartWithHealth(r.start, r.profile, r.admitted),
           IF CanStart(r.profile, r.admitted) THEN "Applied" ELSE "Rejected")

UpToAnchor(r) ==
    Then(Admitted(r), r.anchorAt # None,
         ArriveAnchor(Admitted(r).state, "Anchor", "RelayAnchor", r.anchorAt))

UpToPing(r) ==
    LET before == UpToAnchor(r)
    IN  Then(before, r.ping # None,
             Ping(before.state, "Anchor", "RelayConsole", r.ping.id, r.ping.at))

UpToFall(r) ==
    LET before == UpToPing(r)
    IN  Then(before, r.runnerAt # None,
             ArriveRunner(before.state, "Runner", "RelayConsole", r.runnerAt))

UpToChannel(r) ==
    LET before == UpToFall(r)
    IN  Then(before, r.revive # None,
             StartRevive(before.state, "Anchor", "Runner", MaxReviveDistance,
                         r.revive.id, r.revive.at))

\* The recorded calls up to the last phase that was not terminal.
Rebuilt(r) ==
    LET before == UpToChannel(r)
    IN  Then(before, r.revive # None /\ r.revivedAt # None,
             ObserveRevive(before.state, "Anchor", "Runner", MaxReviveDistance,
                           r.revive.id, r.revivedAt))

\* How an outcome is reached from the last phase.
Ending(outcome, subject, s, at) ==
    CASE outcome = "Succeeded"                 -> CompleteWarden(s, at)
      [] outcome \in Timeouts                  -> ObserveDeadlines(s, at)
      [] outcome = "FailedParticipantDefeated" -> DefeatParticipant(s, subject, at)
      [] outcome = "AbandonedDisconnect"       -> Disconnect(s, at)

-----------------------------------------------------------------------------
(* The payloads, as the encoders check them and every reader again.        *)

StartedValid(d) == CanStart(d.profile, d.admitted)

PingedValid(d, started) ==
    /\ d.start = started.start
    /\ d.anchorAt <= d.ping.at /\ d.ping.at <= OperationDuration
    /\ d.expires = d.ping.at + PingTTL

DownedValid(d, started, pinged) ==
    /\ d.start = started.start
    /\ pinged.ping.at <= d.at /\ d.at <= pinged.expires /\ d.at <= OperationDuration
    /\ d.before = started.admitted["Runner"] /\ d.damage = d.before

RevivedValid(d, started, downed) ==
    /\ d.start = started.start
    /\ downed.at <= d.revive.at /\ d.revive.at <= downed.at + ReviveWindow
    /\ d.revive.at + ReviveChannelTime <= d.at
    /\ d.at <= downed.at + ReviveWindow /\ d.at <= OperationDuration

\* validate_contribution_nullability: each contribution has its columns, and those before.
ContributionsComplete(c) ==
    /\ "anchor_arrived" \in c.flags <=> c.anchorAt # None
    /\ "pinged" \in c.flags <=> c.ping # None
    /\ "runner_arrived" \in c.flags <=> c.runnerAt # None
    /\ "runner_arrived" \in c.flags <=> c.downedAt # None
    /\ "revived" \in c.flags <=> c.revivedAt # None
    /\ "revived" \in c.flags <=> c.reviveCount = 1
    /\ "warden_completed" \in c.flags <=> c.wardenAt # None
    /\ c.reviveCount <= 1
    /\ "pinged" \in c.flags => "anchor_arrived" \in c.flags
    /\ "runner_arrived" \in c.flags => "pinged" \in c.flags
    /\ c.revive # None => "runner_arrived" \in c.flags
    /\ "revived" \in c.flags => c.revive # None
    /\ "warden_completed" \in c.flags => "revived" \in c.flags

\* The contributions name the events before them, and no event is left out.
ContributionsNamed(c, log, n) ==
    /\ Said(log, n, "cooperation_pinged") # {} <=> "pinged" \in c.flags
    /\ Said(log, n, "player_downed") # {} <=> "runner_arrived" \in c.flags
    /\ Said(log, n, "player_revived") # {} <=> "revived" \in c.flags
    /\ \A d \in Said(log, n, "cooperation_pinged") :
          d.ping = c.ping /\ d.anchorAt = c.anchorAt
    /\ \A d \in Said(log, n, "player_downed") : d.at = c.runnerAt /\ d.at = c.downedAt
    /\ \A d \in Said(log, n, "player_revived") : d.revive = c.revive /\ d.at = c.revivedAt

\* apply_terminal: a timeout and a success have no subject, a defeat and a departure one.
EndsSubject(d) ==
    d.outcome \in {"FailedParticipantDefeated", "AbandonedDisconnect"} <=> d.subject # None

\* The whole operation, run again up to its end, is as the payload says.
TerminalValid(kind, d, started, log, n) ==
    LET c     == d.contributions
        calls == Rebuilt([anchorAt |-> c.anchorAt, ping |-> c.ping, runnerAt |-> c.runnerAt,
                          revive |-> c.revive, revivedAt |-> c.revivedAt,
                          start |-> started.start, profile |-> started.profile,
                          admitted |-> started.admitted])
        ended == Ending(d.outcome, d.subject, calls.state, d.at)
    IN  /\ d.start = started.start
        /\ kind = "cooperation_succeeded" <=> d.outcome = "Succeeded"
        /\ ContributionsComplete(c) /\ ContributionsNamed(c, log, n)
        /\ Taken(calls) /\ calls.state.phase = d.phase
        /\ EndsSubject(d)
        /\ d.outcome = "Succeeded" => c.wardenAt = d.at
        /\ ended.answer = (IF d.outcome \in Timeouts THEN "Expired" ELSE "Applied")
        /\ ended.state.terminal = d.outcome
        /\ ended.state.contributions = c.flags /\ ended.state.reviveCount = c.reviveCount
        /\ ended.state.health = d.health /\ ended.state.life = d.life
        /\ d.grants = IF d.outcome = "Succeeded" THEN Roles ELSE {}

-----------------------------------------------------------------------------
(* The stream                                                              *)

\* The Drone is dead, the Warden has not come, and both have been admitted in order.
StartFits(log, i) ==
    /\ ~ \E kind \in {"cooperation_started", "route_selected", "boss_spawned"} :
            Has(log, i - 1, kind)
    /\ Has(log, i - 1, "activity_started")
    /\ Cardinality(OfKinds(log, i - 1, {"enemy_died"})) = 1
    /\ StartedValid(log[i].data)
    /\ log[i].role = "Anchor"
    /\ \E j, k \in 1 .. i - 1 :
          /\ j < k /\ log[j].role = "Anchor" /\ log[k].role = "Runner"
          /\ OfKinds(log, i - 1, {"module_state_snapshot"}) = {j, k}

\* The reward rows since the start: one completion, one grant of each sort for each.
Rewards(log, n, kinds) ==
    {j \in OfKinds(log, n, kinds) : Has(log, j - 1, "cooperation_started")}
Granted(log, n, kind) == {log[j].role : j \in Rewards(log, n, {kind})}

GenericFits(log, i) ==
    IF log[i].kind = "activity_completed"
    THEN log[i].role = "Anchor"
    ELSE log[i].role \notin Granted(log, i - 1, log[i].kind)

RewardsFit(log, i) ==
    IF log[i].kind = "cooperation_failed"
    THEN Rewards(log, i - 1, Generics) = {}
    ELSE /\ Cardinality(Rewards(log, i - 1, {"activity_completed"})) = 1
         /\ Granted(log, i - 1, "loot_granted") = Roles
         /\ Granted(log, i - 1, "progression_granted") = Roles

\* The payload of an event, read against the events before it.
Readable(log, i) ==
    LET started == The(log, i - 1, "cooperation_started")
        event   == log[i]
    IN  /\ event.kind = "cooperation_pinged" => PingedValid(event.data, started)
        /\ event.kind = "player_downed" =>
              /\ Has(log, i - 1, "cooperation_pinged")
              /\ DownedValid(event.data, started, The(log, i - 1, "cooperation_pinged"))
        /\ event.kind = "player_revived" =>
              /\ Has(log, i - 1, "player_downed")
              /\ RevivedValid(event.data, started, The(log, i - 1, "player_downed"))
        /\ event.kind \in Ends =>
              TerminalValid(event.kind, event.data, started, log, i - 1)

\* What comes too late for an event of the family.
Closing(kind) ==
    CASE kind = "cooperation_pinged" -> {"cooperation_pinged", "player_downed", "player_revived"}
      [] kind = "player_downed"      -> {"player_downed", "player_revived"}
      [] kind = "player_revived"     -> {"player_revived"}
      [] OTHER                       -> {}

FamilyFits(log, i) ==
    /\ Has(log, i - 1, "cooperation_started")
    /\ OfKinds(log, i - 1, Closing(log[i].kind)) = {}
    /\ log[i].role = IF log[i].kind \in {"player_downed", "player_revived"} THEN "Runner"
                     ELSE "Anchor"
    /\ Readable(log, i)
    /\ log[i].kind \in Ends => RewardsFit(log, i)

\* CooperationReplayAccumulator::apply
Fits(log, i) ==
    LET started == Has(log, i - 1, "cooperation_started")
        kind    == log[i].kind
    IN  /\ kind \in {"route_selected", "module_state_snapshot"} => ~started
        /\ kind \in Family \cup Generics => OfKinds(log, i - 1, Ends) = {}
        /\ kind = "module_state_snapshot" => log[i].role \notin ByRole(log, i - 1, kind)
        /\ started /\ kind \in Generics => GenericFits(log, i)
        /\ kind = "cooperation_started" => StartFits(log, i)
        /\ kind \in Family \ {"cooperation_started"} => FamilyFits(log, i)

\* A log that is read to its end without an error; rewards need an outcome.
Accepted(log) ==
    /\ \A i \in DOMAIN log : Fits(log, i)
    /\ OfKinds(log, Len(log), Ends) = {} => Rewards(log, Len(log), Generics) = {}

\* The two questions an audit asks of a stream: how far, and with how much done.
LastPhase(log) ==
    LET ended == OfKinds(log, Len(log), Ends)
    IN  CASE ended # {} -> log[CHOOSE j \in ended : TRUE].data.phase
          [] ended = {} /\ Has(log, Len(log), "player_revived") -> "EncounterActive"
          [] ended = {} /\ ~Has(log, Len(log), "player_revived")
               /\ Has(log, Len(log), "player_downed") -> "RunnerDowned"
          [] ended = {} /\ ~Has(log, Len(log), "player_downed")
               /\ Has(log, Len(log), "cooperation_pinged") -> "AwaitingRunner"
          [] OTHER -> "AwaitingAnchor"

ContributionCount(log) ==
    LET ended == OfKinds(log, Len(log), Ends)
    IN  IF ended # {}
        THEN Cardinality(log[CHOOSE j \in ended : TRUE].data.contributions.flags)
        ELSE IF Has(log, Len(log), "cooperation_pinged")
        THEN 1 + Cardinality(OfKinds(log, Len(log),
                   {"cooperation_pinged", "player_downed", "player_revived"}))
        ELSE 0
=============================================================================
