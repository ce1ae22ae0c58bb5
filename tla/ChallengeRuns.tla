---------------------------- MODULE ChallengeRuns ----------------------------
(***************************************************************************)
(* The controllers of the contracts that are not one encounter, and the    *)
(* replay that runs them again.  A controller plans a step from the world  *)
(* it has accepted: the coolant circuit and its holds, the two relays      *)
(* under fire and the reserve, the firing lane, the stages of the gauntlet *)
(* and their transfers, the walk through the Meridian sector.  A place is  *)
(* <<x, z>>; the unit of time is 600 ms.  Of the fights of the gauntlet    *)
(* only the blows, the deaths and the health at the end are kept: the      *)
(* module Encounter has the rest.                                          *)
(* A name that ends in an underscore is a faulty variant of a definition.  *)
(***************************************************************************)
EXTENDS ChallengeDomain

CONSTANTS
    MaxHealth,     \* of the player's build
    Blow,          \* damage of a hit on the sentinel
    Strike,        \* damage of a hit of a foe of the gauntlet
    Reach,         \* squared range of the weapon
    Cooldown       \* of the weapon

ASSUME RunsAssumption == {MaxHealth, Blow, Strike} \subseteq Nat \ {0} /\ {Reach, Cooldown} \subseteq Nat

Minds == INSTANCE EnemyMinds

Hold     == 2     \* DWELL_MS, RECOVERY_MS and TRANSFER_HOLD_MS
Charging == 6     \* CHARGE_MS
Shooting == 3     \* SHOT_INTERVAL_MS
Harm     == 12    \* SHOT_DAMAGE
Relief   == 36    \* RECOVERY_HEALTH, at the reserve of the lane
Transfer == 24    \* TRANSFER_HEALTH, at an exit or a reserve of the gauntlet

Observing == [kind |-> "Observe"]
MoveTo(p) == [kind |-> "Move", to |-> p]
Attacking == [kind |-> "Attack"]

NoEffect == [confirm |-> None, defeated |-> FALSE, hit |-> 0, dealt |-> 0, healed |-> 0, next |-> 0]

Planned(world, effect) == [world |-> world, effect |-> effect]

Confirms(objective) == [NoEffect EXCEPT !.confirm = objective]

Abs(n) == IF n < 0 THEN -n ELSE n

Adjacent(p, q) == Abs(p[1] - q[1]) + Abs(p[2] - q[2]) = 1

Goes(w, a) == IF a.kind = "Move" THEN a.to ELSE w.place

Since(held, t) == IF held = None THEN t ELSE held

-----------------------------------------------------------------------------
(* Coolant recovery *)

Circuit == <<<<-1, -5>>, <<4, -5>>, <<4, -1>>>>     \* intake, transfer, delivery

NewRecovery == [place |-> <<-1, -3>>, health |-> MaxHealth, phase |-> 1, last |-> 0, held |-> None]

OnCircuit(p) == p[1] \in -2 .. 5 /\ p[2] \in -6 .. 0

RecoveryMay(w, t, a) ==
    /\ w.phase <= 3 /\ t >= w.last
    /\ a.kind = "Move" => OnCircuit(a.to) /\ Adjacent(w.place, a.to)

KeepHold_(w, t, a) ==
    LET here  == [w EXCEPT !.place = Goes(w, a), !.last = t]
        held  == Since(w.held, t)
        effect == Confirms(Objectives(Rules("CoolantRecovery", "Baseline"))[w.phase])
    IN  CASE here.place # Circuit[w.phase] -> Planned(here, NoEffect)
          [] here.place = Circuit[w.phase] /\ (w.phase = 1 \/ t - held >= Hold) ->
                Planned([here EXCEPT !.held = None, !.phase = @ + 1], effect)
          [] OTHER -> Planned([here EXCEPT !.held = held], NoEffect)

\* Who leaves a station loses the hold; the intake needs none.
RecoveryPlan(w, t, a) ==
    LET here  == [w EXCEPT !.place = Goes(w, a), !.last = t]
        held  == Since(w.held, t)
        effect == Confirms(Objectives(Rules("CoolantRecovery", "Baseline"))[w.phase])
    IN  CASE here.place # Circuit[w.phase] -> Planned([here EXCEPT !.held = None], NoEffect)
          [] here.place = Circuit[w.phase] /\ (w.phase = 1 \/ t - held >= Hold) ->
                Planned([here EXCEPT !.held = None, !.phase = @ + 1], effect)
          [] OTHER -> Planned([here EXCEPT !.held = held], NoEffect)

-----------------------------------------------------------------------------
(* The firing lane of the sentinel, which both the relays and the duel use *)

Cover     == <<-4, 4>>       \* SPAWN
Sentinel  == <<-4, -4>>
Relays    == <<<<-8, 0>>, <<0, 0>>, Cover>>
Reserve   == <<-4, 5>>

InLane(p) == p[1] \in -9 .. 1 /\ p[2] \in 0 .. 5 /\ ~Minds!CoverBlocks(p, p)

LaneStep(w, a) ==
    a.kind = "Move" => Adjacent(w.place, a.to) /\ InLane(a.to) /\ ~Minds!CoverBlocks(w.place, a.to)

\* A due shot falls on the place of the last accepted step, and is one shot however late.
ShotAt(w, t) ==
    IF t >= w.shot /\ ~Minds!CoverBlocks(w.place, Sentinel) THEN Harm ELSE 0

Under(w, t) ==
    [w EXCEPT !.last = t, !.health = Minds!Less(@, ShotAt(w, t)),
              !.shot = IF t >= @ THEN t + Shooting ELSE @]

Struck(w, t) == [NoEffect EXCEPT !.hit = ShotAt(w, t), !.defeated = Under(w, t).health = 0]

(* Last Reserve *)

NewSurvival ==
    [place |-> Cover, health |-> MaxHealth, phase |-> 1, used |-> FALSE, last |-> 0,
     shot |-> Shooting, held |-> None, rest |-> None]

SurvivalMay(w, t, a) == w.health > 0 /\ w.phase <= 3 /\ t >= w.last /\ LaneStep(w, a)

\* The next observation that means something.
SurvivalDue(w) ==
    LET times == {w.shot} \cup (IF w.held = None THEN {} ELSE {w.held + Charging})
                         \cup (IF w.rest = None THEN {} ELSE {w.rest + Hold})
    IN  CHOOSE t \in times : \A u \in times : t <= u

Rest(w, t) ==
    LET rest   == Since(w.rest, t)
        healed == Minds!Fewer(Relief, MaxHealth - w.health)
    IN  CASE w.used \/ w.health = MaxHealth \/ w.place # Reserve ->
                [world |-> [w EXCEPT !.rest = None], healed |-> 0]
          [] ~(w.used \/ w.health = MaxHealth \/ w.place # Reserve) /\ t - rest >= Hold ->
                [world |-> [w EXCEPT !.health = @ + healed, !.used = TRUE, !.rest = None],
                 healed |-> healed]
          [] OTHER -> [world |-> [w EXCEPT !.rest = rest], healed |-> 0]

\* The relays are held, and the way back ends in cover.
Charge(w, t) ==
    LET held == Since(w.held, t)
    IN  CASE w.place # Relays[w.phase] -> [world |-> [w EXCEPT !.held = None], confirm |-> None]
          [] w.place = Relays[w.phase] /\ (w.phase = 3 \/ t - held >= Charging) ->
                [world |-> [w EXCEPT !.phase = @ + 1, !.held = None],
                 confirm |-> Objectives(Rules("LastReserve", "Baseline"))[w.phase]]
          [] OTHER -> [world |-> [w EXCEPT !.held = held], confirm |-> None]

SurvivalPlan(w, t, a) ==
    LET under   == Under(w, t)
        rested  == Rest([under EXCEPT !.place = Goes(w, a)], t)
        charged == Charge(rested.world, t)
    IN  IF under.health = 0 THEN Planned(under, Struck(w, t))
        ELSE Planned(charged.world, [Struck(w, t) EXCEPT !.healed = rested.healed,
                                                         !.confirm = charged.confirm])

(* Distant Signal *)

NewSignal ==
    [place |-> Cover, health |-> MaxHealth, enemy |-> 200, last |-> 0, shot |-> Shooting, ready |-> 0]

SignalMay(w, t, a) ==
    /\ w.health > 0 /\ w.enemy > 0 /\ t >= w.last /\ LaneStep(w, a)
    /\ a.kind = "Attack" => /\ ~Minds!CoverBlocks(w.place, Sentinel) /\ t >= w.ready
                            /\ Minds!Distance2(w.place, Sentinel) <= Reach

SignalPlan(w, t, a) ==
    LET under == Under(w, t)
        enemy == Minds!Less(w.enemy, Blow)
    IN  CASE under.health = 0 -> Planned(under, Struck(w, t))
          [] under.health > 0 /\ a.kind = "Attack" ->
                Planned([under EXCEPT !.enemy = enemy, !.ready = t + Cooldown],
                        [Struck(w, t) EXCEPT !.dealt = Blow,
                                             !.confirm = IF enemy = 0 THEN "SentinelCleared" ELSE None])
          [] OTHER -> Planned([under EXCEPT !.place = Goes(w, a)], Struck(w, t))

-----------------------------------------------------------------------------
(* The gauntlet *)

Entrances == [Support |-> <<2, 6>>, Bastion |-> <<5, -6>>, Prism |-> <<5, 2>>]
Reserves  == [Support |-> <<3, 6>>, Bastion |-> <<6, -6>>, Prism |-> None]
FoesOf    == [Support |-> 2, Bastion |-> 2, Prism |-> 1]

StageWalkable(stage, p) ==
    CASE stage = "Support" -> Minds!LanceContains(p)
      [] stage = "Bastion" -> Minds!PadContains(p)
      [] stage = "Prism"   -> Minds!CoreContains(p)

NewGauntlet(rules) ==
    [place |-> Entrances[GauntletStages(rules)[1]], health |-> MaxHealth, stage |-> 1,
     mode |-> "Combat", last |-> 0, exit |-> None, rest |-> None, used |-> FALSE]

StageName(rules, w) == GauntletStages(rules)[w.stage]

\* finish_encounter: no stage heals, and its end is not the end of the run before the third.
FinishStage(w, t, health) ==
    [w EXCEPT !.last = t, !.health = health,
              !.mode = IF health = 0 THEN "Defeated" ELSE IF w.stage = 3 THEN "Done" ELSE "Transfer"]

\* What a transfer gives depends on the rules: at the exit, or at the one reserve.
Lacks(w) == Minds!Fewer(Transfer, MaxHealth - w.health)

ObserveExit(rules, w, t) ==
    LET exit   == Since(w.exit, t)
        healed == IF Has(rules, "SingleReserve") THEN 0 ELSE Lacks(w)
        here   == [w EXCEPT !.last = t, !.rest = None]
        stage  == GauntletStages(rules)[w.stage + 1]
    IN  CASE w.place # Entrances[StageName(rules, w)] -> Planned([here EXCEPT !.exit = None], NoEffect)
          [] w.place = Entrances[StageName(rules, w)] /\ t - exit >= Hold ->
                Planned([here EXCEPT !.health = @ + healed, !.stage = @ + 1, !.mode = "Combat",
                                     !.exit = None, !.place = Entrances[stage]],
                        [NoEffect EXCEPT !.healed = healed, !.next = w.stage + 1])
          [] OTHER -> Planned([here EXCEPT !.exit = exit], NoEffect)

ReserveAlways_(w, t) ==
    LET rest == Since(w.rest, t)
        here == [w EXCEPT !.last = t, !.exit = None]
    IN  IF w.health < MaxHealth /\ t - rest >= Hold
        THEN Planned([here EXCEPT !.health = @ + Lacks(w), !.used = TRUE, !.rest = None],
                     [NoEffect EXCEPT !.healed = Lacks(w)])
        ELSE Planned([here EXCEPT !.rest = rest], NoEffect)

ObserveReserve(w, t) ==
    LET rest == Since(w.rest, t)
        here == [w EXCEPT !.last = t, !.exit = None]
    IN  CASE w.used \/ w.health = MaxHealth -> Planned([here EXCEPT !.rest = None], NoEffect)
          [] ~w.used /\ w.health < MaxHealth /\ t - rest >= Hold ->
                Planned([here EXCEPT !.health = @ + Lacks(w), !.used = TRUE, !.rest = None],
                        [NoEffect EXCEPT !.healed = Lacks(w)])
          [] OTHER -> Planned([here EXCEPT !.rest = rest], NoEffect)

\* observe_at, after a move or a tick of a transfer; in a fight a move is only a move.
GauntletPlan(rules, w, t, a) ==
    LET here == [w EXCEPT !.place = Goes(w, a)]
    IN  CASE w.mode = "Combat" -> Planned([here EXCEPT !.last = t], NoEffect)
          [] w.mode = "Transfer" /\ Has(rules, "SingleReserve")
                /\ here.place = Reserves[StageName(rules, w)] -> ObserveReserve(here, t)
          [] OTHER -> ObserveExit(rules, here, t)

GauntletMay(rules, w, t, a) ==
    /\ t >= w.last
    /\ IF a.kind = "Move" THEN /\ w.mode \in {"Combat", "Transfer"} /\ Adjacent(w.place, a.to)
                               /\ StageWalkable(StageName(rules, w), a.to)
       ELSE a.kind = "Observe" /\ w.mode = "Transfer"

\* observation_deadline_ms
GauntletDue(w) ==
    IF w.exit # None THEN w.exit + Hold ELSE IF w.rest # None THEN w.rest + Hold ELSE None

-----------------------------------------------------------------------------
(* The walk through the Meridian sector *)

Halls ==     \* walkable rectangles, as x and z from and to
    {<<-14, -12, -1, 1>>, <<-20, -14, -3, 3>>, <<-25, -19, -1, 1>>, <<-25, -23, -6, 6>>,
     <<-32, -24, -10, -2>>, <<-32, -24, 2, 10>>, <<-31, -29, -6, 6>>}

InHalls(p) == \E h \in Halls : p[1] \in h[1] .. h[2] /\ p[2] \in h[3] .. h[4]

InSector(p) == InHalls(p) \/ (p[1] \in -12 .. 12 /\ p[2] \in -12 .. 12)

\* A diagonal step cuts no corner.
SectorStep(p, q) ==
    /\ Abs(p[1] - q[1]) <= 1 /\ Abs(p[2] - q[2]) <= 1
    /\ InSector(q) /\ InSector(<<q[1], p[2]>>) /\ InSector(<<p[1], q[2]>>)

Landing(rules) == IF Has(rules, "WestApproach") THEN <<-31, 0>> ELSE <<-16, 0>>

StationOf(rules, objective) ==
    CASE objective = "LensRead"    -> <<-28, -7>>
      [] objective = "GalleryRead" -> <<-28, 7>>
      [] objective = "LogRead"     -> <<-30, 0>>
      [] objective = "Returned"    -> Landing(rules)

\* visit_objective: the return counts after the three readings.
Visited(rules, done, p) ==
    LET open == {o \in ObjectiveSet(rules) \ done :
                    StationOf(rules, o) = p /\ (o = "Returned" => done = Prefix(rules, 3))}
    IN  IF open = {} THEN None ELSE CHOOSE o \in open : TRUE

NewRoute(rules) == [place |-> Landing(rules), health |-> MaxHealth, last |-> 0, done |-> {}]

RouteMay(w, t, a) ==
    /\ t >= w.last /\ a.kind = "Move" /\ a.to # w.place
    /\ InHalls(a.to) /\ SectorStep(w.place, a.to)

RoutePlan(rules, w, t, a) ==
    LET objective == Visited(rules, w.done, a.to)
    IN  Planned([w EXCEPT !.place = a.to, !.last = t,
                          !.done = IF objective = None THEN @ ELSE @ \cup {objective}],
                Confirms(objective))

-----------------------------------------------------------------------------
(* Any contract *)

NewWorld(rules) ==
    CASE rules.contract = "CoolantRecovery" -> NewRecovery
      [] rules.contract = "LastReserve"     -> NewSurvival
      [] rules.contract = "DistantSignal"   -> NewSignal
      [] rules.contract = "RelayGauntlet"   -> NewGauntlet(rules)
      [] rules.contract = "MeridianCircuit" -> NewRoute(rules)

May(rules, w, t, a) ==
    CASE rules.contract = "CoolantRecovery" -> a.kind # "Attack" /\ RecoveryMay(w, t, a)
      [] rules.contract = "LastReserve"     -> a.kind # "Attack" /\ SurvivalMay(w, t, a)
      [] rules.contract = "DistantSignal"   -> SignalMay(w, t, a)
      [] rules.contract = "RelayGauntlet"   -> GauntletMay(rules, w, t, a)
      [] rules.contract = "MeridianCircuit" -> RouteMay(w, t, a)

Plan(rules, w, t, a) ==
    CASE rules.contract = "CoolantRecovery" -> RecoveryPlan(w, t, a)
      [] rules.contract = "LastReserve"     -> SurvivalPlan(w, t, a)
      [] rules.contract = "DistantSignal"   -> SignalPlan(w, t, a)
      [] rules.contract = "RelayGauntlet"   -> GauntletPlan(rules, w, t, a)
      [] rules.contract = "MeridianCircuit" -> RoutePlan(rules, w, t, a)

\* The command a step brings to the save, timed when the rules are and the run is complete.
CommandOf(rules, effect, t) ==
    IF effect.defeated THEN EndOf(1, "Defeated")
    ELSE IF effect.confirm = None THEN None
    ELSE ConfirmOf(1, effect.confirm,
                   IF Timed(rules) /\ effect.confirm \in {"Prism", "Returned"} THEN t ELSE None)
=============================================================================
