--------------------------- MODULE ChallengeAttempt ---------------------------
(***************************************************************************)
(* One attempt at a challenge, from its admission to its end: the session  *)
(* that runs the controller, and the stream of rows by which the database  *)
(* judges it.  Every step is planned from the accepted world, stored with  *)
(* the checkpoint it brings, and only then adopted and shown.  The         *)
(* database accepts a row when the replay of the whole stream does; here   *)
(* `tape' is what that replay has reconstructed so far.                    *)
(* The time of a step is that of the step before plus a delay; a planned   *)
(* step that changes nothing only takes time.  The number of a row is      *)
(* known by `ahead': whether the stream has one row more than its session  *)
(* counts.  A plain Meridian walk stores only its checkpoints.             *)
(* A name that ends in an underscore is a faulty variant of a definition.  *)
(***************************************************************************)
EXTENDS ChallengeRuns

CONSTANTS
    Offers,       \* the contracts and presets that are attempted
    Corridor,     \* the places a player of a contract visits
    Delays,       \* how long after a step the next one comes
    MaxTime       \* bounds the time of the steps of a contract

ASSUME AttemptAssumption ==
    /\ Delays \subseteq Nat
    /\ \A r \in Offers : /\ r.contract \in DOMAIN Corridor /\ MaxTime[r.contract] \in Nat
                         /\ AvailableFor(r.preset, r.contract)

VARIABLES
    rules,    \* of the attempt
    phase,    \* Admitted, Playing or Over
    live,     \* the attempt as its session knows it
    tape,     \* the attempt as its stream tells it
    ahead,    \* the stream has a row whose acknowledgement was lost
    since,    \* when the player of the stream came to the place
    shots     \* times of the shots that hit, and how often a reserve was taken

vars == <<rules, phase, live, tape, ahead, since, shots>>

Gauntlet(r) == r.contract = "RelayGauntlet"

\* Whether every step is a row.
Streams(r) == r # Rules("MeridianCircuit", "Baseline")

Admitted(r) ==
    After(EmptySave, StartOf(r.contract, r.preset, "Guard"))

\* `health' is that of the actor; `entry' what the stage of the gauntlet began with.
NewAttempt(r) ==
    [world |-> NewWorld(r), health |-> MaxHealth, foes |-> {}, started |-> FALSE,
     entry |-> MaxHealth, save |-> Admitted(r)]

Init ==
    /\ rules \in Offers /\ phase = "Admitted"
    /\ live = NewAttempt(rules) /\ tape = live /\ ahead = FALSE
    /\ since = 0 /\ shots = [last |-> None, spaced |-> TRUE, reliefs |-> 0]

Active(x) == x.save.active # None

-----------------------------------------------------------------------------
(* What a session plans *)

Row(t, action, effect, health) == [t |-> t, action |-> action, effect |-> effect, health |-> health]

EnemyTurn(damage) == [kind |-> "Enemy", damage |-> damage]
Strikes(foe)      == [kind |-> "Strike", foe |-> foe]        \* None: it lives on
Started           == [kind |-> "Started"]

Fights(action) == action.kind \in {"Enemy", "Strike", "Started"}

FullHealthSpawn_(x) == MaxHealth

SpawnHealth(x) == x.health

\* record_gauntlet_combat: the health after the row, and what it means for the stage.
FightHealth(x, action) ==
    IF action.kind = "Enemy" THEN Minds!Less(x.health, action.damage) ELSE x.health

LastFoe(x, action) == action.kind = "Strike" /\ action.foe # None /\ x.foes = {action.foe}

FightEffect(r, x, action) ==
    [NoEffect EXCEPT !.confirm = IF LastFoe(x, action) THEN StageName(r, x.world) ELSE None,
                     !.defeated = FightHealth(x, action) = 0]

FightWorld(x, t, effect, health) ==
    IF effect.confirm # None \/ effect.defeated THEN FinishStage(x.world, t, health)
    ELSE [x.world EXCEPT !.last = t]

\* The actors agree with the accepted world; in a fight they run ahead of it.
Agrees(r, x) == (Gauntlet(r) /\ x.world.mode = "Combat") \/ x.health = x.world.health

\* The steps a controller makes of a command or a tick that it does not ignore.
Steps(r, x) ==
    IF ~Active(x) \/ x.health = 0 \/ ~Agrees(r, x) THEN {}
    ELSE {Row(x.world.last + d, a, Plan(r, x.world, x.world.last + d, a).effect, None) :
             <<d, a>> \in
                {s \in Delays \X ({Observing, Attacking} \cup {MoveTo(p) : p \in Corridor[r.contract]}) :
                    /\ x.world.last + s[1] <= MaxTime[r.contract]
                    /\ May(r, x.world, x.world.last + s[1], s[2])}}

Ticks(row) == row.action.kind = "Observe"

\* A tick without a checkpoint is not a row.
RecoveryRows(r, x) == {row \in Steps(r, x) : Ticks(row) => row.effect.confirm # None}

\* A tick waits for what is due next.
SurvivalRows(r, x) == {row \in Steps(r, x) : Ticks(row) => row.t >= SurvivalDue(x.world)}

SignalRows(r, x) == {row \in Steps(r, x) : Ticks(row) => row.t >= x.world.shot}

\* A walk without a stream stores only the visits that the save would accept.
RouteRows(r, x) == {row \in Steps(r, x) : Streams(r) \/ row.effect.confirm # None}

TransferRows(r, x) ==
    {row \in Steps(r, x) : Ticks(row) => GauntletDue(x.world) # None /\ row.t >= GauntletDue(x.world)}

Fighting(r, x) == Gauntlet(r) /\ Active(x) /\ x.world.mode = "Combat" /\ x.started /\ x.health > 0

FightRows(r, x) ==
    IF ~Fighting(r, x) THEN {}
    ELSE {Row(x.world.last + d, a, FightEffect(r, x, a), FightHealth(x, a)) :
             d \in {e \in Delays : x.world.last + e <= MaxTime[r.contract]},
             a \in {EnemyTurn(0), EnemyTurn(Strike)} \cup {Strikes(f) : f \in x.foes \cup {None}}}

StepRows(r, x) ==
    CASE r.contract = "CoolantRecovery" -> RecoveryRows(r, x)
      [] r.contract = "LastReserve"     -> SurvivalRows(r, x)
      [] r.contract = "DistantSignal"   -> SignalRows(r, x)
      [] r.contract = "MeridianCircuit" -> RouteRows(r, x)
      [] r.contract = "RelayGauntlet"   -> TransferRows(r, x)

Rows(r, x) == StepRows(r, x) \cup FightRows(r, x)

\* What begins with a row: the two duels with the sentinel, and every stage of the gauntlet.
Spawns(r) == r.contract \in {"LastReserve", "DistantSignal", "RelayGauntlet"}

\* The row of a spawn.
SpawnRow(x, t) == Row(t, Started, NoEffect, SpawnHealth(x))

CommandAfter(r, row) == CommandOf(r, row.effect, row.t)

SaveAfter(r, x, row) ==
    IF CommandAfter(r, row) = None THEN x.save ELSE After(x.save, CommandAfter(r, row))

ForgetHealing_(r, x, world) == IF Gauntlet(r) THEN x.health ELSE world.health

\* The actor takes over what the world of a step says of it.
ActorHealth(r, x, world) ==
    IF Gauntlet(r) /\ world.mode = "Combat" /\ world.stage = x.world.stage THEN x.health
    ELSE world.health

\* What the session is after a row that was stored.
Adopted(r, x, row) ==
    CASE row.action.kind = "Started" ->
            [x EXCEPT !.started = TRUE,
                      !.foes = IF Gauntlet(r) THEN 1 .. FoesOf[StageName(r, x.world)] ELSE {}]
      [] row.action.kind \in {"Enemy", "Strike"} ->
            [x EXCEPT !.health = row.health, !.save = SaveAfter(r, x, row),
                      !.foes = IF row.action.kind = "Strike" THEN @ \ {row.action.foe} ELSE @,
                      !.world = FightWorld(x, row.t, row.effect, row.health)]
      [] OTHER ->
            LET world == Plan(r, x.world, row.t, row.action).world
            IN  [x EXCEPT !.world = world, !.save = SaveAfter(r, x, row),
                          !.health = ActorHealth(r, x, world),
                          !.started = @ /\ row.effect.next = 0,
                          !.entry = IF row.effect.next # 0 THEN world.health ELSE @]

-----------------------------------------------------------------------------
(* What the replay of the stream accepts *)

\* The command of a row is one that the save accepts, adjacent to its proof.
CommandIsLegal(r, x, row) ==
    IF CommandAfter(r, row) = None THEN TRUE
    ELSE Accepts(PolicyFor(x.save, CommandAfter(r, row)), x.save, x.save.revision,
                 CommandAfter(r, row))

\* The replay runs the controller again.
Reenacts(r, x, row) ==
    /\ May(r, x.world, row.t, row.action)
    /\ Plan(r, x.world, row.t, row.action).effect = row.effect

JudgesRecovery(r, x, row) == Reenacts(r, x, row)

\* The first row is the spawn, and there is no other.
JudgesSurvival(r, x, row) ==
    IF row.action = Started THEN ~x.started /\ row.t = 0 /\ row.effect = NoEffect
    ELSE x.started /\ Reenacts(r, x, row)

JudgesSignal(r, x, row) ==
    IF row.action = Started THEN ~x.started /\ row.t = 0 /\ row.effect = NoEffect
    ELSE x.started /\ Reenacts(r, x, row)

JudgesRoute(r, x, row) == Reenacts(r, x, row)

\* A visit without a stream is proved by the place of the player alone.
JudgesVisit(r, x, row) ==
    row.effect.confirm # None /\ StationOf(r, row.effect.confirm) = row.action.to

\* Tape.push and verify: one spawn with the health of the stage, foes that live once, damage
\* that the last health explains; the end of a stage is what is left of it.
JudgesFight(r, x, row) ==
    LET living == IF row.action.kind = "Strike" THEN x.foes \ {row.action.foe} ELSE x.foes
    IN  /\ x.world.mode = "Combat"
        /\ IF row.action = Started
           THEN ~x.started /\ row.health = x.entry /\ row.effect = NoEffect
           ELSE /\ x.started
                /\ row.action.kind = "Strike" => row.action.foe \in x.foes \cup {None}
                /\ row.health = FightHealth(x, row.action)
                /\ row.effect = [NoEffect EXCEPT
                        !.defeated = row.health = 0,
                        !.confirm = IF row.health > 0 /\ living = {} THEN StageName(r, x.world)
                                    ELSE None]

JudgesGauntlet(r, x, row) ==
    IF Fights(row.action) THEN JudgesFight(r, x, row) ELSE x.started /\ Reenacts(r, x, row)

Judges(r, x, row) ==
    /\ Active(x) /\ row.t >= x.world.last
    /\ CASE r.contract = "CoolantRecovery" -> JudgesRecovery(r, x, row)
         [] r.contract = "LastReserve"     -> JudgesSurvival(r, x, row)
         [] r.contract = "DistantSignal"   -> JudgesSignal(r, x, row)
         [] r.contract = "RelayGauntlet"   -> JudgesGauntlet(r, x, row)
         [] r.contract = "MeridianCircuit" ->
               IF Streams(r) THEN JudgesRoute(r, x, row) ELSE JudgesVisit(r, x, row)
    /\ CommandIsLegal(r, x, row)

\* Rows that follow each other in one handler: the step into a stage, and its spawn.
Follow(r, x, row) ==
    IF row.effect.next = 0 THEN <<row>> ELSE <<row, SpawnRow(Adopted(r, x, row), row.t)>>

-----------------------------------------------------------------------------
(* Writing *)

Records(row) ==
    /\ since' = IF row.action.kind = "Move" \/ row.effect.next # 0 THEN row.t ELSE since
    /\ shots' = [last    |-> IF row.effect.hit > 0 THEN row.t ELSE shots.last,
                 spaced  |-> shots.spaced /\ (row.effect.hit > 0 /\ shots.last # None
                                              => row.t - shots.last >= Shooting),
                 reliefs |-> IF row.effect.healed > 0 /\ row.effect.next = 0
                             THEN shots.reliefs + 1 ELSE shots.reliefs]

Over == phase' = "Over" /\ live' = tape'

\* The row is stored and acknowledged, and so is the spawn it calls for.
Stored(row) ==
    /\ ~ahead
    /\ LET rows   == Follow(rules, live, row)
           landed == Adopted(rules, tape, row)
       IN  /\ Judges(rules, tape, row)
           /\ Len(rows) = 2 => Judges(rules, landed, rows[2])
           /\ tape' = IF Len(rows) = 2 THEN Adopted(rules, landed, rows[2]) ELSE landed
           /\ live' = IF Len(rows) = 2 THEN Adopted(rules, Adopted(rules, live, row), rows[2])
                      ELSE Adopted(rules, live, row)
    /\ Records(row)
    /\ UNCHANGED <<rules, phase, ahead>>

\* The database fails before or after the row, or refuses it; the session aborts.
Aborted(row) ==
    /\ \/ UNCHANGED <<tape, since, shots>>
       \/ ~ahead /\ Judges(rules, tape, row) /\ tape' = Adopted(rules, tape, row) /\ Records(row)
    /\ Over
    /\ UNCHANGED <<rules, ahead>>

\* The tick of a fight only logs an error: the row may be in the stream and unknown.
Unheard(row) ==
    /\ ~ahead /\ Judges(rules, tape, row)
    /\ tape' = Adopted(rules, tape, row) /\ Records(row) /\ ahead' = TRUE
    /\ UNCHANGED <<rules, phase, live>>

-----------------------------------------------------------------------------
(* The attempt *)

\* start_challenge: an attempt that begins with a row stores it first.
Start ==
    /\ phase = "Admitted"
    /\ IF ~Spawns(rules) THEN phase' = "Playing" /\ UNCHANGED <<live, tape>>
       ELSE LET landed == Adopted(rules, tape, SpawnRow(live, 0))
            IN  \/ /\ Judges(rules, tape, SpawnRow(live, 0)) /\ tape' = landed
                   /\ live' = Adopted(rules, live, SpawnRow(live, 0)) /\ phase' = "Playing"
                \/ tape' \in {tape, landed} /\ Over
    /\ UNCHANGED <<rules, ahead, since, shots>>

\* A command or a tick of the controller: an error aborts.
Step ==
    /\ phase = "Playing"
    /\ \E row \in StepRows(rules, live) : Stored(row) \/ Aborted(row)

\* A walk without a stream: only the actor moves.
Walk ==
    /\ phase = "Playing" /\ ~Streams(rules)
    /\ \E row \in Steps(rules, live) :
          /\ row.effect.confirm = None
          /\ live' = Adopted(rules, live, row) /\ tape' = [tape EXCEPT !.world = live'.world]
          /\ since' = row.t
    /\ UNCHANGED <<rules, phase, ahead, shots>>

\* The player fights: an error aborts.
Fight ==
    /\ phase = "Playing"
    /\ \E row \in FightRows(rules, live) :
          /\ row.action.kind = "Strike"
          /\ Stored(row) \/ Aborted(row)

\* The foes fight, in a tick: an error changes nothing.
Foes ==
    /\ phase = "Playing"
    /\ \E row \in FightRows(rules, live) :
          /\ row.action.kind = "Enemy"
          /\ Stored(row) \/ Unheard(row)

Ended(x, reason) == [x EXCEPT !.save = After(@, EndOf(1, reason))]

\* abandon_challenge with the run and the revision of the board.
Abandon ==
    /\ phase = "Playing" /\ Active(tape)
    /\ \/ tape' = Ended(tape, "Abandoned") /\ live' = [live EXCEPT !.save = tape'.save]
            /\ UNCHANGED phase
       \/ tape' \in {tape, Ended(tape, "Abandoned")} /\ Over
    /\ UNCHANGED <<rules, ahead, since, shots>>

\* disconnect_at: the run is interrupted, unless its session has seen it end.
Disconnect ==
    /\ phase = "Playing"
    /\ tape' \in IF Active(live) /\ Active(tape) THEN {tape, Ended(tape, "Interrupted")} ELSE {tape}
    /\ Over
    /\ UNCHANGED <<rules, ahead, since, shots>>

Next ==
    \/ Start
    \/ Step
    \/ Walk
    \/ Fight
    \/ Foes
    \/ Abandon
    \/ Disconnect

Spec == Init /\ [][Next]_vars
-----------------------------------------------------------------------------
(* Properties *)

\* Every variable keeps its type.
TypeOK ==
    /\ rules \in Offers /\ phase \in {"Admitted", "Playing", "Over"}
    /\ \A x \in {live, tape} :
          /\ ValidSave(x.save) /\ x.health \in 0 .. MaxHealth /\ x.world.health \in 0 .. MaxHealth
          /\ x.foes \subseteq 1 .. 2 /\ x.started \in BOOLEAN /\ x.world.last \in 0 .. MaxTime[rules.contract]
    /\ ahead \in BOOLEAN /\ since \in 0 .. MaxTime[rules.contract] /\ shots.reliefs \in Nat

\* What a session plans from the world it shows is a row the replay of its stream accepts:
\* no command or tick of a session in step with its stream is ever refused.
StreamIsAccepted ==
    phase = "Playing" /\ ~ahead =>
        \A row \in Rows(rules, live) :
            /\ Judges(rules, tape, row)
            /\ Len(Follow(rules, live, row)) = 2 =>
                  Judges(rules, Adopted(rules, tape, row), Follow(rules, live, row)[2])

\* The world and the actors that are shown are those of the stream; a session falls behind it
\* only in the fights of the gauntlet, and then stores nothing more.
WorldIsStored ==
    phase = "Playing" =>
        IF ahead THEN Gauntlet(rules) ELSE live = tape /\ (Active(live) => Agrees(rules, live))

\* How long a station must be held for an objective.
Needs(objective) ==
    CASE objective \in {"CoolantTransferred", "CoolantDelivered"}      -> Hold
      [] objective \in {"WestRelayCharged", "EastRelayCharged"} -> Charging
      [] OTHER                                           -> 0

\* An objective that is to be held is confirmed only after the player of the stream has stood
\* at one place for that long without a break.
HoldsAreContinuous ==
    [][\A o \in ObjectiveSet(rules) :
          LET done(x) == IF Active(x) THEN x.save.active.done ELSE x.save.last.run.done
          IN  o \in done(tape') \ done(tape) /\ Needs(o) > 0 => tape'.world.last - since >= Needs(o)]_vars

\* The sentinel hits at most once in an interval, and one reserve helps once in an attempt.
PainAndReliefAreRationed == shots.spaced /\ shots.reliefs <= 1

\* The save and the world end together and in the same way: a lost world is a defeat, a
\* finished one a completion, and no other save is either of them.
Finished(r, x) ==
    CASE r.contract \in {"CoolantRecovery", "LastReserve"} -> x.world.phase = 4
      [] r.contract = "DistantSignal"   -> x.world.enemy = 0
      [] r.contract = "RelayGauntlet"   -> x.world.mode = "Done"
      [] r.contract = "MeridianCircuit" -> x.world.done = ObjectiveSet(r)

OutcomeAgrees ==
    LET ends(outcome) == ~Active(tape) /\ tape.save.last.outcome = outcome
    IN  /\ Finished(rules, tape) = ends("Completed")
        /\ (tape.health = 0) = ends("Defeated")

\* Memory, stream and save tell one story of the attempt, to its end.
MemoryMatchesStream == TypeOK /\ WorldIsStored /\ OutcomeAgrees
=============================================================================
