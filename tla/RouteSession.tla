---------------------------- MODULE RouteSession ----------------------------
(***************************************************************************)
(* A route operation in its session: what the coordinator keeps in memory  *)
(* (stage, RouteRuntime, the active enemy), what it stores in one          *)
(* transaction per step (route_operations, grants), and the players who    *)
(* act and leave.  The session starts as a full waiting room and ends when *)
(* it is emptied or aborted; the coordinator then takes a new session id   *)
(* and nothing touches these rows again.                                   *)
(*                                                                         *)
(* The deadline is observed before a command is handled.  Only Attack      *)
(* reads the clock again, later, when the blow completes the operation.    *)
(* A database error aborts the session, whether or not it had committed.   *)
(* Once a cooperation has started, only its exclusion is followed here.    *)
(* Cooldowns, ranges and positions decide only which commands are accepted *)
(* and are left out; players do not die, the damage of a route is below    *)
(* their health.                                                           *)
(* A name that ends in an underscore is a faulty variant of a definition.  *)
(***************************************************************************)
EXTENDS RouteDomain

CONSTANT MaxClock   \* the clock stops here, beyond the deadline

ASSUME ClockAssumption == MaxClock \in Nat /\ MaxClock > Budget

VARIABLES
    members,    \* participants of the session
    capable,    \* those that announced the route capability
    equipped,   \* the weapon of each participant
    stage,      \* SessionStage
    route,      \* RouteRuntime: operation, replay, transitions, encounter, or None
    enemy,      \* health, accepted hits and counterattacks of the enemy, or None
    clock,      \* elapsed time since the selection
    db,         \* stored: the route row, whether a cooperation started, the grants
    cooperating,\* a cooperation runtime exists
    answers,    \* selections that a RouteChoiceResult confirmed
    told,       \* players that were sent the operation summary
    fault       \* why the session was aborted

vars == <<members, capable, equipped, stage, route, enemy, clock, db, cooperating,
          answers, told, fault>>

-----------------------------------------------------------------------------
(* Memory *)

NewEncounter ==
    [drone |-> DroneHealth(N), droneDefeated |-> FALSE, spawned |-> FALSE,
     base |-> WardenHealth(N), effective |-> 0, remaining |-> 0,
     hits |-> 0, counters |-> 0, hostile |-> 0]

NewRuntime(op) ==
    [operation |-> op, replay |-> None, transitions |-> <<>>, encounter |-> NewEncounter]

Enemy(health) == [health |-> health, accepted |-> 0, counters |-> 0]

Struck(health, weapon) == IF Damage[weapon] < health THEN health - Damage[weapon] ELSE 0

Routed     == route # None /\ route.operation.phase = "Routed"
Selection  == route.operation.selection
Late       == Routed /\ clock > Budget
Present(p) == p \in members /\ ~Late

\* reset, after which the coordinator has a new session.
Reset ==
    /\ members' = {} /\ capable' = {}
    /\ stage' = "Waiting" /\ route' = None /\ enemy' = None /\ cooperating' = FALSE

Abort(reason) == Reset /\ fault' = reason /\ UNCHANGED <<equipped, clock, answers, told>>

CarriesOn_(after, step) == db' \in {db, after} /\ step

\* A transaction that leads to `after': it commits and the handler goes on with
\* `step', or it fails or loses its acknowledgement and the session is aborted.
Commit(after, step) ==
    \/ db' = after /\ step
    \/ db' \in {db, after} /\ Abort("database")

\* An event appended on the way, whose content nothing here depends on.
AppendFails == Abort("database") /\ UNCHANGED db

-----------------------------------------------------------------------------
(* The stored route *)

NewRow(replay) == [replay |-> replay, terminal |-> None]

\* select_route_operation_with_replay: the row of a retry, a new row, or a conflict.
Stored(choice, weapons) ==
    IF db.route = None THEN NewRow(SelectionReplay(choice, weapons))
    ELSE IF /\ db.route.replay.selection.id = choice.id
            /\ db.route.replay.selection.route = choice.route
            /\ DOMAIN db.route.replay.weapons = members
         THEN db.route ELSE None

\* Only a success is rewarded, each stored participant once.
Rewarded(row, outcome) ==
    [p \in Players |-> IF outcome = "Succeeded" /\ p \in DOMAIN row.replay.weapons
                       THEN db.granted[p] + 1 ELSE db.granted[p]]

StoredSummary(outcome, elapsed) ==
    Summary(db.route.replay.selection, DOMAIN db.route.replay.weapons, outcome, elapsed)

\* A first end is stored, the same end again is a retry, another end a conflict.
Finished(outcome, elapsed) ==
    IF db.route.terminal = None
    THEN [db EXCEPT !.route.terminal = StoredSummary(outcome, elapsed),
                    !.granted = Rewarded(db.route, outcome)]
    ELSE IF db.route.terminal.outcome = outcome /\ db.route.terminal.elapsed = elapsed
         THEN db ELSE None

\* finish_route_operation, told to go on with `step' when it has committed.
StoreEnd(op, transitions, encounter, refusal, step) ==
    LET outcome == op.terminal.outcome
        elapsed == op.terminal.elapsed
        valid   == /\ op.terminal = StoredSummary(outcome, elapsed)
                   /\ ValidTerminal(db.route.replay, op.terminal, transitions, encounter)
    IN  IF Finished(outcome, elapsed) = None THEN Abort("conflict") /\ UNCHANGED db
        ELSE IF ~valid THEN Abort(refusal) /\ UNCHANGED db
        ELSE Commit(Finished(outcome, elapsed), step)

-----------------------------------------------------------------------------
(* Before the operation *)

Init ==
    /\ members = Players /\ capable = {} /\ equipped \in [Players -> Weapons]
    /\ stage = "Waiting" /\ route = None /\ enemy = None /\ clock = 0
    /\ db = [route |-> None, cooperation |-> FALSE, granted |-> [p \in Players |-> 0]]
    /\ cooperating = FALSE /\ answers = {} /\ told = {} /\ fault = "none"

\* start_activity of the full room; the drone attacks once as it comes into reach.
StartActivity ==
    /\ stage = "Waiting" /\ members = Players
    /\ \/ AppendFails
       \/ /\ stage' = "Drone"
          /\ route' = [NewRuntime([NewOperation EXCEPT !.capable = capable])
                       EXCEPT !.encounter.hostile = DroneDamage]
          /\ enemy' = Enemy(DroneHealth(N))
          /\ UNCHANGED <<members, capable, equipped, clock, db, cooperating, answers, told, fault>>

\* request_route_state; refreshed and refused requests change nothing.
RequestRouteState(p) ==
    /\ Present(p) /\ p \notin capable
    /\ \/ stage = "Waiting" /\ route' = None
       \/ /\ route # None /\ MarkCapable(route.operation, p) # None
          /\ route' = [route EXCEPT !.operation = MarkCapable(@, p)]
    /\ capable' = capable \cup {p}
    /\ UNCHANGED <<members, equipped, stage, enemy, clock, db, cooperating, answers, told, fault>>

\* equip_weapon: fixed only by a cooperation and by the end of the activity.
Equip(p, weapon) ==
    /\ Present(p) /\ equipped[p] # weapon
    /\ stage \notin {"Complete", "Failed"} /\ ~cooperating
    /\ Commit(db, /\ equipped' = [equipped EXCEPT ![p] = weapon]
                  /\ UNCHANGED <<members, capable, stage, route, enemy, clock,
                                 cooperating, answers, told, fault>>)

-----------------------------------------------------------------------------
(* The choice *)

\* choose_route from the committed row: what is stored is installed, unless the
\* selection is there already, and confirmed.
Confirm(row) ==
    LET choice == row.replay.selection
    IN  /\ answers' = answers \cup {choice}
        /\ IF Selection # None THEN UNCHANGED <<route, stage, clock>>
           ELSE /\ route' = [route EXCEPT
                       !.operation   = Select(@, Leader, choice),
                       !.replay      = row.replay,
                       !.transitions = InitialTransitions(choice.route),
                       !.encounter.effective =
                           ApplyHealthEffect(route.encounter.base, EffectOf(choice))]
                /\ stage' = IF choice.route = "breach" THEN "Door" ELSE "Stabilizer"
                /\ clock' = 0
        /\ UNCHANGED <<members, capable, equipped, enemy, cooperating, told, fault>>

\* A new choice is drawn a seed; a retry proposes what is in memory.
ChooseRoute(p, choice) ==
    /\ Present(p) /\ route # None /\ Select(route.operation, p, choice) # None
    /\ LET proposed == Select(route.operation, p, choice).selection
           row      == Stored(proposed, [q \in members |-> equipped[q]])
       IN  row # None /\ Commit([db EXCEPT !.route = row], Confirm(row))

\* The other way out of the choice, start_cooperation: the baseline is locked when the
\* start has been stored.  The database refuses it where route evidence exists.
StartCooperation ==
    /\ N = 2 /\ members = Players /\ Present(Leader) /\ ~cooperating
    /\ stage = "Door" /\ route.operation.phase = "ChoiceOpen"
    /\ IF db.route # None THEN AppendFails
       ELSE Commit([db EXCEPT !.cooperation = TRUE],
                /\ cooperating' = TRUE
                /\ route' = [route EXCEPT !.operation = LockBaseline(@)]
                /\ UNCHANGED <<members, capable, equipped, stage, enemy, clock,
                               answers, told, fault>>)

-----------------------------------------------------------------------------
(* The encounter *)

ReachStabilizer(p) ==
    /\ Present(p) /\ stage = "Stabilizer"
    /\ stage' = "Door"
    /\ route' = [route EXCEPT !.transitions =
           @ \o <<Completes("reach_relay_stabilizer"), Activates("reach_relay_door")>>]
    /\ UNCHANGED <<members, capable, equipped, enemy, clock, db, cooperating,
                   answers, told, fault>>

\* The Warden's health follows the members who are left and the selected effect.
ReachDoor(p) ==
    LET base   == WardenHealth(Cardinality(members))
        health == IF Selection = None THEN base ELSE ApplyHealthEffect(base, EffectOf(Selection))
    IN  /\ Present(p) /\ stage = "Door" /\ ~cooperating
        /\ \/ AppendFails
           \/ /\ stage' = "Boss" /\ enemy' = Enemy(health)
              /\ route' =
                   IF Selection = None THEN [route EXCEPT !.operation = LockBaseline(@)]
                   ELSE [route EXCEPT
                       !.transitions =
                           @ \o <<Completes("reach_relay_door"), Activates("defeat_warden")>>,
                       !.encounter.spawned   = TRUE,
                       !.encounter.base      = base,
                       !.encounter.effective = health,
                       !.encounter.remaining = health]
              /\ UNCHANGED <<members, capable, equipped, clock, db, cooperating,
                             answers, told, fault>>

HitDrone(p) ==
    /\ Present(p) /\ stage = "Drone"
    /\ LET health == Struck(enemy.health, equipped[p])
       IN  \/ /\ health > 0
              /\ enemy' = [enemy EXCEPT !.health = health, !.accepted = @ + 1]
              /\ UNCHANGED <<stage, route, db, members, capable, equipped, clock,
                             cooperating, answers, told, fault>>
           \/ health = 0 /\ AppendFails
           \/ /\ health = 0 /\ stage' = "Door" /\ enemy' = None
              /\ route' = [route EXCEPT !.operation = OpenChoice(@),
                                        !.encounter.droneDefeated = TRUE]
              /\ UNCHANGED <<db, members, capable, equipped, clock, cooperating,
                             answers, told, fault>>

\* apply_ai_event for an attack of the Warden.
Countered(e) ==
    [e EXCEPT !.counters = @ + 1,
              !.hostile  = @ + (IF Selection = None THEN WardenDamage
                                ELSE EffectOf(Selection).counter)]

\* The hit is counted before anything that follows from it.
HitCounted(health) ==
    [route.encounter EXCEPT !.hits = @ + 1, !.remaining = health]

\* At every second blow it survives, twice at most.
StrikesBack(e) == (e.accepted + 1) % 2 = 0 /\ e.counters < 2

HitWarden(p) ==
    /\ Present(p) /\ stage = "Boss"
    /\ LET health == Struck(enemy.health, equipped[p])
       IN  /\ health > 0
           /\ enemy' = [health   |-> health,
                        accepted |-> enemy.accepted + 1,
                        counters |-> enemy.counters + IF StrikesBack(enemy) THEN 1 ELSE 0]
           /\ route' = [route EXCEPT !.encounter =
                  IF StrikesBack(enemy) THEN Countered(HitCounted(health)) ELSE HitCounted(health)]
    /\ UNCHANGED <<stage, db, members, capable, equipped, clock, cooperating,
                   answers, told, fault>>

-----------------------------------------------------------------------------
(* The end *)

\* broadcast_route_opted
ToldCapable == told' = members \cap capable

\* wire_route_summary fails when the leader has left: nothing is installed then and
\* nobody is told, although the end is stored.
Ended(op, transitions, encounter, last) ==
    IF Leader \in members
    THEN /\ route' = [route EXCEPT !.operation = op, !.transitions = transitions,
                                   !.encounter = encounter]
         /\ stage' = last /\ enemy' = None /\ ToldCapable
    ELSE /\ route' = [route EXCEPT !.encounter = encounter]
         /\ enemy' = IF last = "Complete" THEN [enemy EXCEPT !.health = 0] ELSE enemy
         /\ UNCHANGED <<stage, told>>

EndedElsewhere == UNCHANGED <<members, capable, equipped, cooperating, answers, fault>>

\* complete_routed_activity with the time read after the blow: too late an end is an
\* error that leaves the dead Warden where it is.
CompleteRouted(encounter, elapsed) ==
    LET op          == Finish(route.operation, "Succeeded", elapsed)
        transitions == Append(route.transitions, Completes("defeat_warden"))
    IN  IF op = None
        THEN /\ route' = [route EXCEPT !.encounter = encounter]
             /\ enemy' = [enemy EXCEPT !.health = 0] /\ clock' = elapsed
             /\ UNCHANGED <<stage, told, db>> /\ EndedElsewhere
        ELSE StoreEnd(op, transitions, encounter, "completion refused",
                 /\ Ended(op, transitions, encounter, "Complete")
                 /\ clock' = elapsed /\ EndedElsewhere)

\* complete_activity without a route rewards those who are left.
CompleteBaseline(encounter) ==
    Commit([db EXCEPT !.granted = [p \in Players |-> IF p \in members THEN @[p] + 1 ELSE @[p]]],
           /\ stage' = "Complete" /\ enemy' = None
           /\ route' = [route EXCEPT !.encounter = encounter]
           /\ UNCHANGED <<clock, told>> /\ EndedElsewhere)

KillWarden(p, elapsed) ==
    /\ Present(p) /\ stage = "Boss"
    /\ enemy.health > 0 /\ Struck(enemy.health, equipped[p]) = 0
    /\ \/ AppendFails
       \/ Routed /\ elapsed >= clock /\ CompleteRouted(HitCounted(0), elapsed)
       \/ ~Routed /\ elapsed = clock /\ CompleteBaseline(HitCounted(0))

\* observe_route_deadline, in the place of a command that comes too late.
ObserveDeadline ==
    /\ Late /\ members # {}
    /\ LET op          == Finish(route.operation, "FailedTimeout", clock)
           active      == CHOOSE o \in ActiveObjectives(
                              ObjectivePath(Selection.route), route.transitions) : TRUE
           transitions == Append(route.transitions, Fails(active))
       IN  StoreEnd(op, transitions, route.encounter, "timeout refused",
               /\ Ended(op, transitions, route.encounter, "Failed")
               /\ UNCHANGED clock /\ EndedElsewhere)

\* disconnect; the deadline is not observed.
Disconnect(p) ==
    /\ p \in members
    /\ IF members = {p} THEN Reset
       ELSE /\ members' = members \ {p} /\ capable' = capable \ {p}
            /\ UNCHANGED <<stage, route, enemy, cooperating>>
    /\ UNCHANGED <<equipped, clock, db, answers, told, fault>>

Tick ==
    /\ Routed /\ clock < MaxClock
    /\ clock' = clock + 1
    /\ UNCHANGED <<members, capable, equipped, stage, route, enemy, db, cooperating,
                   answers, told, fault>>

Act(p) ==
    \/ RequestRouteState(p)
    \/ \E weapon \in Weapons : Equip(p, weapon)
    \/ \E choice \in Selections : ChooseRoute(p, choice)
    \/ ReachStabilizer(p) \/ ReachDoor(p)
    \/ HitDrone(p) \/ HitWarden(p)
    \/ \E elapsed \in 0 .. MaxClock : KillWarden(p, elapsed)
    \/ Disconnect(p)

Next ==
    \/ StartActivity \/ StartCooperation \/ ObserveDeadline \/ Tick
    \/ \E p \in Players : Act(p)

Spec == Init /\ [][Next]_vars

-----------------------------------------------------------------------------
(* Properties *)

Objectives == {"clear_drone_group", "reach_relay_stabilizer", "reach_relay_door", "defeat_warden"}
Phases     == {"Drone", "ChoiceOpen", "BaselineLocked", "Routed", "Succeeded", "Failed"}
Stages     == {"Waiting", "Drone", "Stabilizer", "Door", "Boss", "Complete", "Failed"}
Faults     == {"none", "database", "conflict", "completion refused", "timeout refused"}
Replays    == [selection : Selections, weapons : UNION {[P -> Weapons] : P \in SUBSET Players}]
Summaries  == [selection : Selections, participants : SUBSET Players,
               outcome : {"Succeeded", "FailedTimeout"}, elapsed : 0 .. MaxClock]
Steps      == [objective : Objectives, from : {"Pending", "Active"},
               to : {"Active", "Completed", "Failed"}]
Operations == [phase : Phases, capable : SUBSET Players,
               selection : Selections \cup {None}, terminal : Summaries \cup {None}]
Encounters == [drone : Nat, droneDefeated : BOOLEAN, spawned : BOOLEAN,
               base : Nat, effective : Nat, remaining : Nat,
               hits : Nat, counters : 0 .. 2, hostile : Nat]
Runtimes   == [operation : Operations, replay : Replays \cup {None},
               transitions : Seq(Steps), encounter : Encounters]
Enemies    == [health : Nat, accepted : Nat, counters : 0 .. 2]
Rows       == [replay : Replays, terminal : Summaries \cup {None}]
Databases  == [route : Rows \cup {None}, cooperation : BOOLEAN, granted : [Players -> Nat]]

\* An absent value is none that is present.
ASSUME AbsenceAssumption ==
    /\ None \notin Selections /\ None \notin Summaries /\ None \notin Operations
    /\ None \notin Runtimes /\ None \notin Enemies /\ None \notin Rows
    /\ None \notin Databases

\* Every variable keeps its type, and no enemy strikes back more often than its profile
\* allows.
TypeOK ==
    /\ capable \subseteq members /\ members \subseteq Players /\ told \subseteq Players
    /\ equipped \in [Players -> Weapons]
    /\ stage \in Stages /\ fault \in Faults /\ clock \in 0 .. MaxClock
    /\ cooperating \in BOOLEAN /\ answers \subseteq Selections
    /\ enemy \in Enemies \cup {None}
    /\ route \in Runtimes \cup {None}
    /\ db \in Databases

\* What players were told and what the coordinator acts on is what is stored, through
\* lost acknowledgements, retries and departures: no answer and no selection in memory
\* without the same row, no end in memory without the same stored end.
MemoryIsStored ==
    /\ \A choice \in answers : db.route # None /\ db.route.replay.selection = choice
    /\ route # None => /\ Selection # None => /\ db.route # None
                                              /\ db.route.replay = route.replay
                                              /\ route.replay.selection = Selection
                       /\ route.operation.terminal # None =>
                              db.route.terminal = route.operation.terminal

\* A session has a stored route or a stored cooperation, never both, although the two
\* starts are guarded by different phases in memory and only one of them in the database.
RouteXorCooperation ==
    /\ ~(db.route # None /\ db.cooperation)
    /\ cooperating => db.cooperation /\ route.operation.phase = "BaselineLocked"

\* The participants of the stored selection are rewarded once when the route succeeded,
\* nobody before that and nobody when it failed, whoever has left in the meantime.
RewardedOnce ==
    db.route # None =>
        \A p \in Players :
            db.granted[p] = IF /\ db.route.terminal # None
                               /\ db.route.terminal.outcome = "Succeeded"
                               /\ p \in DOMAIN db.route.replay.weapons
                            THEN 1 ELSE 0

\* While the route runs, the transitions leave exactly one objective active, the one
\* the stage asks for: this is the objective that a deadline will fail.
ObjectivesFollowStage ==
    Routed => /\ ActiveObjectives(ObjectivePath(Selection.route), route.transitions) =
                    {CASE stage = "Stabilizer" -> "reach_relay_stabilizer"
                       [] stage = "Door"       -> "reach_relay_door"
                       [] stage = "Boss"       -> "defeat_warden"}
              /\ \A k \in DOMAIN route.transitions :
                    ValidStep(ObjectivePath(Selection.route), route.transitions, k)

\* A Warden whose health is gone ends the activity in the same step, unless the blow
\* fell after the deadline or the leader had left.
KillEndsOperation ==
    stage = "Boss" /\ enemy.health = 0 => Routed /\ (clock > Budget \/ Leader \notin members)

\* With the leader present, an end that is stored has been sent to every capable player.
SummaryIsSent ==
    Leader \in members /\ db.route # None /\ db.route.terminal # None =>
        members \cap capable \subseteq told

\* A stored selection is never replaced and a stored end never changed, and nothing more
\* is granted after it.
StoredIsFinal ==
    [][db.route # None =>
           /\ db'.route # None /\ db'.route.replay = db.route.replay
           /\ db.route.terminal # None => db' = db]_vars

\* Success is stored only while the deadline has not passed and failure only after it,
\* measured when the step ends and not when its command was taken.
DeadlineDecides ==
    [][db.route # None /\ db.route.terminal = None /\ db'.route.terminal # None =>
           IF db'.route.terminal.outcome = "Succeeded" THEN clock' <= Budget
           ELSE clock' > Budget]_vars

\* The validators refuse the coordinator's own evidence only where somebody had left
\* before the door, where the deadline found the Warden already dead, or where a weapon
\* could be taken up that is stronger than all that were selected.
RefusalsExplained ==
    [][fault' # fault /\ fault' \in {"completion refused", "timeout refused"} =>
           \/ DOMAIN route.replay.weapons # Players
           \/ route.encounter.base # WardenHealth(N)
           \/ fault' = "timeout refused" /\ enemy # None /\ enemy.health = 0
           \/ \E w \in Weapons : \A p \in Players : Damage[w] > Damage[route.replay.weapons[p]]]_vars

\* Memory, players and database tell one story of the operation.
MemoryIsTold == TypeOK /\ MemoryIsStored /\ SummaryIsSent

\* One operation per session, with one reward for each of its participants.
OneRewardedOperation == RouteXorCooperation /\ RewardedOnce

\* The stage of the session, its objectives and its Warden stay in step.
StagesStayInStep == ObjectivesFollowStage /\ KillEndsOperation

\* How an operation may end, and when its own evidence may be refused.
EndsAreSound == StoredIsFinal /\ DeadlineDecides /\ RefusalsExplained

\* M27-routes-risks-events-replayable-operations.md:269, completion at or before the
\* deadline follows the accepted success path.
CompletionIsAccepted == fault # "completion refused"
=============================================================================
