---------------------------- MODULE RouteDomain ----------------------------
(***************************************************************************)
(* A route operation without its surroundings: the catalog and the         *)
(* RouteOperationState of runtime/operations, the objective transitions    *)
(* the gateway collects, and the validators of runtime/replay/route.rs     *)
(* that decide whether the evidence of an ended operation may be stored.   *)
(*                                                                         *)
(* A seed is the bit of the permuted ticket that chooses between the two   *)
(* events of a route.  Participants are numbered in the order in which     *)
(* they joined.  An operation identifier stands for a well-formed one.     *)
(* A name that ends in an underscore is a faulty variant of a definition.  *)
(***************************************************************************)
EXTENDS Integers, Sequences, FiniteSets

CONSTANTS
    N,              \* players of the session: one or two
    Weapons,        \* weapons a participant may hold
    Damage,         \* Damage[w], the effective damage of an admitted weapon
    OperationIds,   \* well-formed operation identifiers
    Budget,         \* duration_budget_ms
    None            \* the absent value of an Option

ASSUME RouteAssumption ==
    /\ N \in {1, 2}
    /\ Damage \in [Weapons -> Nat \ {0}]
    /\ Budget \in Nat

Players == 1 .. N
Leader  == 1

-----------------------------------------------------------------------------
(* The catalog *)

Routes == {"breach", "stabilize"}
Seeds  == {0, 1}

ObjectivePath(route) ==
    IF route = "breach"
    THEN <<"clear_drone_group", "reach_relay_door", "defeat_warden">>
    ELSE <<"clear_drone_group", "reach_relay_stabilizer", "reach_relay_door", "defeat_warden">>

RouteEvents ==
    [breach    |-> <<"overcharged_armor", "arc_surge">>,
     stabilize |-> <<"shielded_channel", "residual_feedback">>]

ResolveEvent(route, seed) == RouteEvents[route][seed + 1]

Effect(event) ==
    CASE event = "overcharged_armor" -> [health |-> 12000, counter |-> 15]
      [] event = "arc_surge"         -> [health |-> 10000, counter |-> 20]
      [] event = "shielded_channel"  -> [health |-> 10000, counter |-> 10]
      [] event = "residual_feedback" -> [health |-> 11000, counter |-> 15]

\* Basis points, rounded half up.
ApplyHealthEffect(base, effect) == (base * effect.health + 5000) \div 10000

ScaledHealth(base, players) == (base * (1 + players)) \div 2
DroneHealth(players)  == ScaledHealth(140, players)
WardenHealth(players) == ScaledHealth(240, players)
DroneDamage   == 10
WardenDamage  == 15     \* of a counterattack when no route is selected

-----------------------------------------------------------------------------
(* RouteOperationState *)

Selections  == [id : OperationIds, route : Routes, seed : Seeds]
EffectOf(s) == Effect(ResolveEvent(s.route, s.seed))

NewOperation == [phase |-> "Drone", capable |-> {}, selection |-> None, terminal |-> None]

\* The methods return the next state, or None for an error.
MarkCapable(op, p) ==
    IF op.phase \in {"Drone", "ChoiceOpen"} THEN [op EXCEPT !.capable = @ \cup {p}] ELSE None

OpenChoice(op) == IF op.phase = "Drone" THEN [op EXCEPT !.phase = "ChoiceOpen"] ELSE None

LockBaselineNot_(op) == IF op.phase = "ChoiceOpen" THEN op ELSE None

LockBaseline(op) ==
    IF op.phase = "ChoiceOpen" /\ op.selection = None
    THEN [op EXCEPT !.phase = "BaselineLocked"] ELSE None

\* A retry with the stored identifier and route finds the stored selection,
\* whatever seed it brings.
Select(op, p, choice) ==
    IF op.selection # None
    THEN IF /\ op.selection.id = choice.id
            /\ op.selection.route = choice.route
            /\ p = Leader
         THEN op ELSE None
    ELSE IF op.phase = "ChoiceOpen" /\ p = Leader /\ op.capable = Players
         THEN [op EXCEPT !.phase = "Routed", !.selection = choice] ELSE None

WithinBudgetOrNext_(outcome, elapsed) ==
    IF outcome = "Succeeded" THEN elapsed <= Budget + 1 ELSE elapsed > Budget

\* The deadline itself still counts as in time.
WithinBudget(outcome, elapsed) ==
    IF outcome = "Succeeded" THEN elapsed <= Budget ELSE elapsed > Budget

Summary(selection, participants, outcome, elapsed) ==
    [selection    |-> selection,
     participants |-> participants,
     outcome      |-> outcome,
     elapsed      |-> elapsed]

\* complete and fail_timeout; that a retry finds the same end is left to the
\* database (see Finished in RouteSession), the gateway never asks a state that ended.
Finish(op, outcome, elapsed) ==
    IF op.phase = "Routed" /\ WithinBudget(outcome, elapsed)
    THEN [op EXCEPT !.phase    = IF outcome = "Succeeded" THEN "Succeeded" ELSE "Failed",
                    !.terminal = Summary(op.selection, Players, outcome, elapsed)]
    ELSE None

-----------------------------------------------------------------------------
(* Objective transitions *)

Transition(objective, from, to) == [objective |-> objective, from |-> from, to |-> to]

Completes(objective) == Transition(objective, "Active", "Completed")
Activates(objective) == Transition(objective, "Pending", "Active")
Fails(objective)     == Transition(objective, "Active", "Failed")

InitialTransitionsOnlyOne_(route) == <<Completes("clear_drone_group")>>

InitialTransitions(route) ==
    <<Completes(ObjectivePath(route)[1]), Activates(ObjectivePath(route)[2])>>

\* What the first k transitions make of the i-th objective of the path.
StateAfter(path, transitions, k, i) ==
    LET mine == {j \in 1 .. k : transitions[j].objective = path[i]}
    IN  IF mine = {} THEN IF i = 1 THEN "Active" ELSE "Pending"
        ELSE transitions[CHOOSE j \in mine : \A l \in mine : l <= j].to

ActiveObjectives(path, transitions) ==
    {path[i] : i \in {i \in DOMAIN path :
        StateAfter(path, transitions, Len(transitions), i) = "Active"}}

-----------------------------------------------------------------------------
(* The evidence of an ended operation *)

ValidStep(path, transitions, k) ==
    LET t        == transitions[k]
        State(i) == StateAfter(path, transitions, k - 1, i)
    IN  \E i \in DOMAIN path :
            /\ path[i] = t.objective
            /\ State(i) = t.from
            /\ \/ t = Activates(path[i]) /\ i # 1 /\ \A j \in 1 .. i - 1 : State(j) = "Completed"
               \/ t = Completes(path[i])
               \/ t = Fails(path[i]) /\ k = Len(transitions)

ValidTransitions(path, transitions, outcome) ==
    /\ Len(transitions) \in 1 .. 8
    /\ \A k \in DOMAIN transitions : ValidStep(path, transitions, k)
    /\ \A k \in DOMAIN transitions :
           Cardinality({i \in DOMAIN path :
               StateAfter(path, transitions, k, i) = "Active"}) <= 1
    /\ LET End(i) == StateAfter(path, transitions, Len(transitions), i)
       IN  IF outcome = "Succeeded" THEN \A i \in DOMAIN path : End(i) = "Completed"
           ELSE \E i \in DOMAIN path : End(i) = "Failed"

\* validate_failed_encounter_path
ValidFailure(e, objective) ==
    CASE objective = "clear_drone_group" -> ~e.droneDefeated /\ ~e.spawned
      [] objective \in {"reach_relay_stabilizer", "reach_relay_door"}
                                         -> e.droneDefeated /\ ~e.spawned
      [] objective = "defeat_warden"     -> e.droneDefeated /\ e.spawned /\ e.remaining > 0

\* The accepted hits, each with the best weapon selected, can have done the damage.
ValidHitEnvelope(e, weapons) ==
    \/ ~e.spawned
    \/ e.hits = 0
    \/ LET done == e.effective - e.remaining
       IN  done > 0 /\ \E p \in DOMAIN weapons : e.hits * Damage[weapons[p]] >= done

ValidEncounter(e, replay, outcome, last) ==
    LET players == Cardinality(DOMAIN replay.weapons)
        effect  == EffectOf(replay.selection)
        counter == e.counters * effect.counter
    IN  /\ e.drone = DroneHealth(players)
        /\ e.base = WardenHealth(players)
        /\ e.effective = ApplyHealthEffect(e.base, effect)
        /\ e.remaining <= e.effective /\ e.hits <= 64 /\ e.counters <= 2 /\ e.hostile <= 50
        /\ e.spawned => e.droneDefeated
        /\ ~e.spawned => e.remaining = 0 /\ e.hits = 0 /\ e.counters = 0
        /\ e.hostile \in {counter, counter + DroneDamage}
        /\ IF outcome = "Succeeded"
           THEN /\ e.spawned /\ e.remaining = 0 /\ e.hits > 0
                /\ e.counters = 2 /\ e.hostile = DroneDamage + counter
           ELSE ValidFailure(e, last)
        /\ ValidHitEnvelope(e, replay.weapons)

\* The selection's own evidence, stored with it: `weapons' has the participants as
\* its domain and tells what each held.
SelectionReplay(selection, weapons) == [selection |-> selection, weapons |-> weapons]

\* encode_route_operation_succeeded and _failed
ValidTerminal(replay, summary, transitions, encounter) ==
    /\ summary.selection = replay.selection
    /\ summary.participants = DOMAIN replay.weapons
    /\ WithinBudget(summary.outcome, summary.elapsed)
    /\ ValidTransitions(ObjectivePath(replay.selection.route), transitions, summary.outcome)
    /\ ValidEncounter(encounter, replay, summary.outcome,
                      transitions[Len(transitions)].objective)
=============================================================================
