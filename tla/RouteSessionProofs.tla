------------------------- MODULE RouteSessionProofs -------------------------
(***************************************************************************)
(* Theorems of `RouteSession', for any weapons, damages, identifiers and   *)
(* any budget, with one player or two: memory, players and database tell   *)
(* one story of a route, its participants are rewarded once, the stage and *)
(* the objectives go together, and an end is final and in time.  With      *)
(* weapons that are neither too strong nor too weak for the Warden, the    *)
(* coordinator's own evidence is refused only where `RefusalsExplained'    *)
(* says it may be.                                                         *)
(***************************************************************************)
EXTENDS RouteSession, FiniteSetTheorems, SequenceTheorems, TLAPS

-----------------------------------------------------------------------------
(* The inductive invariant *)

\* The stages in which an operation can be in a phase.
StagesOf ==
    [Drone |-> {"Drone"}, ChoiceOpen |-> {"Door"}, BaselineLocked |-> {"Door", "Boss", "Complete"},
     Routed |-> {"Stabilizer", "Door", "Boss"}, Succeeded |-> {"Complete"}, Failed |-> {"Failed"}]

\* The phases in which a selection is held, and those that have ended.
Chosen == {"Routed", "Succeeded", "Failed"}
Over   == {"Succeeded", "Failed"}

\* What is running is that of the members, and its phase fits the stage.
StageInv ==
    /\ stage = "Waiting" <=> route = None
    /\ members = {} => route = None
    /\ stage \in {"Drone", "Boss"} <=> enemy # None
    /\ cooperating => /\ route # None /\ stage = "Door"
                      /\ route.operation.phase = "BaselineLocked"
    /\ route # None =>
          LET op == route.operation
          IN  /\ stage \in StagesOf[op.phase]
              /\ op.phase = "BaselineLocked" /\ stage = "Door" => cooperating
              /\ op.selection # None <=> op.phase \in Chosen
              /\ op.terminal # None <=> op.phase \in Over

\* The rows of a session that has not come to a choice.
NothingStored ==
    /\ db.route = None /\ ~db.cooperation
    /\ db.granted = [p \in Players |-> 0]

\* The database has what the memory has, and what it gave it for.
StorageInv ==
    /\ members # {} /\ route = None => NothingStored
    /\ route # None =>
          LET op == route.operation
          IN  /\ op.selection = None <=> db.route = None
              /\ op.selection # None => /\ route.replay = db.route.replay
                                        /\ route.replay.selection = op.selection
              /\ op.selection = None /\ stage # "Complete" =>
                    db.granted = [p \in Players |-> 0]
              /\ op.terminal # None => db.route.terminal = op.terminal
              /\ db.cooperation <=> cooperating
    /\ db.route # None => ~db.cooperation
    /\ RewardedOnce
    /\ \A choice \in answers : db.route # None /\ db.route.replay.selection = choice

\* An end that is stored while the leader is there ends the operation in memory too.
ToldInv ==
    Leader \in members /\ db.route # None /\ db.route.terminal # None =>
        /\ members \cap capable \subseteq told
        /\ route # None /\ route.operation.terminal # None

\* The objective that a stage of a route asks for.
Sought ==
    [Stabilizer |-> "reach_relay_stabilizer", Door |-> "reach_relay_door",
     Boss |-> "defeat_warden"]

\* The objectives of a path before the i-th have been completed in order, and each has
\* activated the next.
Marched(path, transitions, i) ==
    \A j \in 1 .. i - 1 : /\ transitions[2 * j - 1] = Completes(path[j])
                          /\ transitions[2 * j] = Activates(path[j + 1])

Walked(path, transitions, i) == Len(transitions) = 2 * (i - 1) /\ Marched(path, transitions, i)

\* While the route runs, its path has been walked to the objective of the stage.
PathInv ==
    Routed =>
        LET path == ObjectivePath(Selection.route)
        IN  \E i \in DOMAIN path :
                i > 1 /\ path[i] = Sought[stage] /\ Walked(path, route.transitions, i)

\* The Warden of the memory is that of the evidence.
WardenInv ==
    /\ stage = "Boss" => /\ enemy.counters = route.encounter.counters
                         /\ enemy.health = 0 => Routed /\ (clock > Budget \/ Leader \notin members)
    /\ route # None /\ stage \in {"Drone", "Stabilizer", "Door"} => route.encounter.counters = 0

\* The inductive invariant.
SessionInv ==
    TypeOK /\ StageInv /\ StorageInv /\ ToldInv /\ PathInv /\ WardenInv

-----------------------------------------------------------------------------
(* Numbers of the catalog *)

\* The four events a route can have.
LEMMA EffectsOfEvents ==
    ASSUME NEW s \in Selections
    PROVE  /\ EffectOf(s).health \in {10000, 11000, 12000}
           /\ EffectOf(s).counter \in {10, 15, 20}
<1>1. s.route \in {"breach", "stabilize"} /\ s.seed \in {0, 1}
  BY DEF Selections, Routes, Seeds
<1>2. /\ RouteEvents["breach"][1] = "overcharged_armor"
      /\ RouteEvents["breach"][2] = "arc_surge"
      /\ RouteEvents["stabilize"][1] = "shielded_channel"
      /\ RouteEvents["stabilize"][2] = "residual_feedback"
  BY DEF RouteEvents
<1>3. ResolveEvent(s.route, s.seed) \in
         {"overcharged_armor", "arc_surge", "shielded_channel", "residual_feedback"}
  BY <1>1, <1>2 DEF ResolveEvent
<1>4. /\ Effect("overcharged_armor") = [health |-> 12000, counter |-> 15]
      /\ Effect("arc_surge") = [health |-> 10000, counter |-> 20]
      /\ Effect("shielded_channel") = [health |-> 10000, counter |-> 10]
      /\ Effect("residual_feedback") = [health |-> 11000, counter |-> 15]
  BY DEF Effect
<1> QED
  BY <1>3, <1>4 DEF EffectOf

\* An effect adds to a health and never takes from it.
LEMMA EffectAdds ==
    ASSUME NEW s \in Selections, NEW base \in Nat
    PROVE  /\ ApplyHealthEffect(base, EffectOf(s)) \in Nat
           /\ ApplyHealthEffect(base, EffectOf(s)) >= base
<1> DEFINE h == EffectOf(s).health
<1>1. h \in {10000, 11000, 12000}
  BY EffectsOfEvents
<1>2. ApplyHealthEffect(base, EffectOf(s)) = (base * h + 5000) \div 10000
  BY DEF ApplyHealthEffect
<1> HIDE DEF h
<1>3. CASE h = 10000
  BY <1>2, <1>3
<1>4. CASE h = 11000
  BY <1>2, <1>4
<1>5. CASE h = 12000
  BY <1>2, <1>5
<1> QED
  BY <1>1, <1>3, <1>4, <1>5

\* One player or two.
LEMMA PlayersCount ==
    ASSUME NEW P, P \subseteq Players, P # {}
    PROVE  Cardinality(P) \in {1, 2}
<1>1. N \in {1, 2} /\ Players = 1 .. N
  BY RouteAssumption DEF Players
<1>2. IsFiniteSet(Players) /\ Cardinality(Players) = N
  <2>1. 1 \in Int /\ N \in Int
    BY <1>1
  <2>2. /\ IsFiniteSet(1 .. N)
        /\ Cardinality(1 .. N) = IF 1 > N THEN 0 ELSE N - 1 + 1
    BY <2>1, FS_Interval
  <2> QED
    BY <1>1, <2>2
<1>3. IsFiniteSet(P) /\ Cardinality(P) <= N
  BY <1>2, FS_Subset
<1>4. Cardinality(P) \in Nat /\ Cardinality(P) # 0
  BY <1>3, FS_CardinalityType, FS_EmptySet
<1> QED
  BY <1>1, <1>3, <1>4

\* What the enemies begin with.
LEMMA EnemiesBegin ==
    /\ DroneHealth(N) \in Nat /\ DroneHealth(N) > 0
    /\ \A n \in {1, 2} : WardenHealth(n) \in Nat /\ WardenHealth(n) >= 240
<1>1. N \in {1, 2}
  BY RouteAssumption
<1>2. DroneHealth(1) = 140 /\ DroneHealth(2) = 210
  BY DEF DroneHealth, ScaledHealth
<1>3. WardenHealth(1) = 240 /\ WardenHealth(2) = 360
  BY DEF WardenHealth, ScaledHealth
<1> QED
  BY <1>1, <1>2, <1>3

\* A blow takes from a health, and a fallen enemy stays fallen.
LEMMA BlowTakes ==
    ASSUME NEW health \in Nat, NEW w \in Weapons
    PROVE  /\ Struck(health, w) \in Nat
           /\ Struck(health, w) > 0 => health > 0
  BY RouteAssumption DEF Struck

-----------------------------------------------------------------------------
(* Objectives *)

\* What is needed of the path of a route.
PathOf(way, path) ==
    /\ path = ObjectivePath(way)
    /\ Len(path) = (IF way = "breach" THEN 3 ELSE 4) /\ DOMAIN path = 1 .. Len(path)
    /\ \A i, j \in DOMAIN path : path[i] = path[j] => i = j
    /\ \A i \in DOMAIN path : path[i] \in Objectives
    /\ path[1] = "clear_drone_group"
    /\ path[Len(path)] = "defeat_warden" /\ path[Len(path) - 1] = "reach_relay_door"
    /\ way = "stabilize" => path[2] = "reach_relay_stabilizer"

\* Both paths of the catalog have these properties.
LEMMA PathsOfRoutes == ASSUME NEW way \in Routes PROVE PathOf(way, ObjectivePath(way))
<1>1. CASE way = "breach"
  <2> DEFINE path == <<"clear_drone_group", "reach_relay_door", "defeat_warden">>
  <2>1. Len(path) = 3 /\ DOMAIN path = 1 .. 3
    OBVIOUS
  <2>2. path[1] = "clear_drone_group" /\ path[2] = "reach_relay_door" /\ path[3] = "defeat_warden"
    OBVIOUS
  <2>3. ObjectivePath(way) = path
    BY <1>1 DEF ObjectivePath
  <2> HIDE DEF path
  <2>4. \A i \in 1 .. 3 : i = 1 \/ i = 2 \/ i = 3
    OBVIOUS
  <2>5. \A i \in 1 .. 3 : path[i] \in Objectives
    BY <2>2, <2>4 DEF Objectives
  <2>6. \A i, j \in 1 .. 3 : path[i] = path[j] => i = j
    BY <2>2, <2>4
  <2>7. path[Len(path)] = "defeat_warden" /\ path[Len(path) - 1] = "reach_relay_door"
    BY <2>1, <2>2
  <2>8. PathOf(way, path)
    BY <1>1, <2>1, <2>2, <2>3, <2>5, <2>6, <2>7 DEF PathOf
  <2> QED
    BY <2>3, <2>8
<1>2. CASE way = "stabilize"
  <2> DEFINE path == <<"clear_drone_group", "reach_relay_stabilizer", "reach_relay_door",
                       "defeat_warden">>
  <2>1. Len(path) = 4 /\ DOMAIN path = 1 .. 4
    OBVIOUS
  <2>2. /\ path[1] = "clear_drone_group" /\ path[2] = "reach_relay_stabilizer"
        /\ path[3] = "reach_relay_door" /\ path[4] = "defeat_warden"
    OBVIOUS
  <2>3. ObjectivePath(way) = path
    BY <1>2 DEF ObjectivePath
  <2> HIDE DEF path
  <2>4. \A i \in 1 .. 4 : i = 1 \/ i = 2 \/ i = 3 \/ i = 4
    OBVIOUS
  <2>5. \A i \in 1 .. 4 : path[i] \in Objectives
    BY <2>2, <2>4 DEF Objectives
  <2>6. \A i, j \in 1 .. 4 : path[i] = path[j] => i = j
    BY <2>2, <2>4
  <2>7. path[Len(path)] = "defeat_warden" /\ path[Len(path) - 1] = "reach_relay_door"
    BY <2>1, <2>2
  <2>8. PathOf(way, path)
    BY <1>2, <2>1, <2>2, <2>3, <2>5, <2>6, <2>7 DEF PathOf
  <2> QED
    BY <2>3, <2>8
<1> QED
  BY <1>1, <1>2 DEF Routes

\* Before any transition the first objective is active.
LEMMA StateBefore ==
    ASSUME NEW path, NEW transitions, NEW i
    PROVE  StateAfter(path, transitions, 0, i) = IF i = 1 THEN "Active" ELSE "Pending"
<1>1. {j \in 1 .. 0 : transitions[j].objective = path[i]} = {}
  OBVIOUS
<1> QED
  BY <1>1 DEF StateAfter

\* The k + 1-th transition sets the state of its objective and of no other.
StepSets(path, transitions, i, k) ==
    StateAfter(path, transitions, k + 1, i) =
        IF transitions[k + 1].objective = path[i] THEN transitions[k + 1].to
        ELSE StateAfter(path, transitions, k, i)

\* A transition gives its objective a new state and leaves the others as they were.
LEMMA StateStep ==
    ASSUME NEW path, NEW transitions, NEW i, NEW k \in Nat
    PROVE  StepSets(path, transitions, i, k)
<1> DEFINE mine(n) == {j \in 1 .. n : transitions[j].objective = path[i]}
           last(n) == CHOOSE j \in mine(n) : \A l \in mine(n) : l <= j
<1>1. \A n : StateAfter(path, transitions, n, i) =
                IF mine(n) = {} THEN IF i = 1 THEN "Active" ELSE "Pending"
                ELSE transitions[last(n)].to
  BY DEF StateAfter
<1>2. CASE transitions[k + 1].objective = path[i]
  <2>1. k + 1 \in mine(k + 1) /\ mine(k + 1) \subseteq 1 .. k + 1
    BY <1>2
  <2>2. \A l \in mine(k + 1) : l <= k + 1
    BY <2>1
  <2>3. \A j \in mine(k + 1) : (\A l \in mine(k + 1) : l <= j) => j = k + 1
    BY <2>1
  <2> HIDE DEF mine
  <2>4. last(k + 1) = k + 1
    BY <2>1, <2>2, <2>3
  <2> QED
    BY <1>1, <1>2, <2>1, <2>4 DEF StepSets
<1>3. CASE transitions[k + 1].objective # path[i]
  <2>1. mine(k + 1) = mine(k)
    BY <1>3
  <2> QED
    BY <1>1, <1>3, <2>1 DEF StepSets
<1> QED
  BY <1>2, <1>3 DEF StepSets

\* What the first k transitions of a path that is walked make of its m-th objective.
StateAt(k, m) ==
    IF 2 * m <= k + 1 THEN "Completed" ELSE IF 2 * m = k + 2 THEN "Active" ELSE "Pending"

Reached(path, transitions, k) ==
    \A m \in DOMAIN path : StateAfter(path, transitions, k, m) = StateAt(k, m)

\* One objective further.
LEMMA WalkOn ==
    ASSUME NEW way, NEW path, PathOf(way, path), NEW transitions,
           NEW j \in Nat, j >= 1, j < Len(path),
           transitions[2 * j - 1] = Completes(path[j]),
           transitions[2 * j] = Activates(path[j + 1]),
           Reached(path, transitions, 2 * j - 2)
    PROVE  Reached(path, transitions, 2 * j - 1) /\ Reached(path, transitions, 2 * j)
<1>0. /\ DOMAIN path = 1 .. Len(path) /\ Len(path) \in Nat
      /\ \A m, n \in DOMAIN path : path[m] = path[n] => m = n
      /\ j \in DOMAIN path /\ j + 1 \in DOMAIN path
  BY DEF PathOf
<1>1. /\ transitions[2 * j - 1].objective = path[j] /\ transitions[2 * j - 1].to = "Completed"
      /\ transitions[2 * j].objective = path[j + 1] /\ transitions[2 * j].to = "Active"
  BY DEF Completes, Activates, Transition
<1>2. 2 * j - 2 \in Nat /\ 2 * j - 1 \in Nat /\ (2 * j - 2) + 1 = 2 * j - 1 /\ (2 * j - 1) + 1 = 2 * j
  OBVIOUS
<1>3. ASSUME NEW m \in DOMAIN path
      PROVE  StateAfter(path, transitions, 2 * j - 1, m) = StateAt(2 * j - 1, m)
  <2> DEFINE k == 2 * j - 2
  <2>0. k \in Nat /\ k + 1 = 2 * j - 1
    BY <1>2
  <2> HIDE DEF k
  <2>1. StepSets(path, transitions, m, k)
    BY <2>0, StateStep
  <2>2. StateAfter(path, transitions, 2 * j - 1, m) =
           IF m = j THEN "Completed" ELSE StateAfter(path, transitions, 2 * j - 2, m)
    BY <1>0, <1>1, <2>0, <2>1 DEF k, StepSets
  <2> QED
    BY <1>0, <2>2 DEF Reached, StateAt
<1>4. ASSUME NEW m \in DOMAIN path
      PROVE  StateAfter(path, transitions, 2 * j, m) = StateAt(2 * j, m)
  <2> DEFINE k == 2 * j - 1
  <2>0. k \in Nat /\ k + 1 = 2 * j
    BY <1>2
  <2> HIDE DEF k
  <2>1. StepSets(path, transitions, m, k)
    BY <2>0, StateStep
  <2>2. StateAfter(path, transitions, 2 * j, m) =
           IF m = j + 1 THEN "Active" ELSE StateAfter(path, transitions, 2 * j - 1, m)
    BY <1>0, <1>1, <2>0, <2>1 DEF k, StepSets
  <2> QED
    BY <1>0, <1>3, <2>2 DEF StateAt
<1> QED
  BY <1>3, <1>4 DEF Reached

\* All states on the way to the i-th objective.
LEMMA WalkReaches ==
    ASSUME NEW way, NEW path, PathOf(way, path), NEW transitions,
           NEW i \in DOMAIN path, Marched(path, transitions, i)
    PROVE  \A k \in 0 .. 2 * (i - 1) : Reached(path, transitions, k)
<1>0. /\ DOMAIN path = 1 .. Len(path) /\ Len(path) \in {3, 4}
      /\ i \in 1 .. 4 /\ i <= Len(path)
  BY DEF PathOf
<1>1. Reached(path, transitions, 0)
  BY <1>0, StateBefore DEF Reached, StateAt
<1>2. ASSUME NEW j \in 1 .. 3, j < i, Reached(path, transitions, 2 * j - 2)
      PROVE  Reached(path, transitions, 2 * j - 1) /\ Reached(path, transitions, 2 * j)
  <2>1. j \in Nat /\ j >= 1 /\ j < Len(path) /\ j \in 1 .. i - 1
    BY <1>0, <1>2
  <2> QED
    BY <1>2, <2>1, WalkOn DEF Marched
<1>3. i > 1 => Reached(path, transitions, 1) /\ Reached(path, transitions, 2)
  BY <1>0, <1>1, <1>2
<1>4. i > 2 => Reached(path, transitions, 3) /\ Reached(path, transitions, 4)
  BY <1>0, <1>3, <1>2
<1>5. i > 3 => Reached(path, transitions, 5) /\ Reached(path, transitions, 6)
  BY <1>0, <1>4, <1>2
<1>6. \A k \in 0 .. 2 * (i - 1) : k \in 0 .. 6 /\ (k > 0 => i > 1) /\ (k > 2 => i > 2)
                                  /\ (k > 4 => i > 3)
  BY <1>0
<1> QED
  BY <1>1, <1>3, <1>4, <1>5, <1>6

\* Who walks to an objective has it active, and no other.
LEMMA WalkActivates ==
    ASSUME NEW way, NEW path, PathOf(way, path), NEW transitions,
           NEW i \in DOMAIN path, Walked(path, transitions, i)
    PROVE  ActiveObjectives(path, transitions) = {path[i]}
<1>0. DOMAIN path = 1 .. Len(path) /\ Len(path) \in {3, 4} /\ i \in 1 .. 4
  BY DEF PathOf
<1>1. /\ Len(transitions) = 2 * (i - 1)
      /\ \A k \in 0 .. 2 * (i - 1) : Reached(path, transitions, k)
  BY WalkReaches DEF Walked
<1>2. 2 * (i - 1) \in 0 .. 2 * (i - 1)
  BY <1>0
<1>3. Reached(path, transitions, Len(transitions))
  BY <1>1, <1>2
<1>4. \A m \in DOMAIN path : StateAt(2 * (i - 1), m) = "Active" <=> m = i
  BY <1>0 DEF StateAt
<1>5. \A m \in DOMAIN path : StateAfter(path, transitions, Len(transitions), m) = "Active" <=> m = i
  BY <1>1, <1>3, <1>4 DEF Reached
<1>6. {m \in DOMAIN path : StateAfter(path, transitions, Len(transitions), m) = "Active"} = {i}
  BY <1>5
<1> QED
  BY <1>6 DEF ActiveObjectives

\* Each step on the way is one that the validator accepts.
LEMMA WalkIsValid ==
    ASSUME NEW way, NEW path, PathOf(way, path), NEW transitions,
           NEW i \in DOMAIN path, Marched(path, transitions, i)
    PROVE  \A k \in 1 .. 2 * (i - 1) : ValidStep(path, transitions, k)
<1>0. DOMAIN path = 1 .. Len(path) /\ Len(path) \in {3, 4} /\ i \in 1 .. 4 /\ i <= Len(path)
  BY DEF PathOf
<1>1. /\ \A j \in 1 .. i - 1 : /\ transitions[2 * j - 1] = Completes(path[j])
                               /\ transitions[2 * j] = Activates(path[j + 1])
      /\ \A k \in 0 .. 2 * (i - 1) : Reached(path, transitions, k)
  BY WalkReaches DEF Marched
<1>2. ASSUME NEW j \in 1 .. i - 1 PROVE ValidStep(path, transitions, 2 * j - 1)
  <2>0. j \in DOMAIN path /\ 2 * j - 2 \in 0 .. 2 * (i - 1) /\ (2 * j - 1) - 1 = 2 * j - 2
    BY <1>0
  <2>1. transitions[2 * j - 1] = Completes(path[j])
    BY <1>1
  <2>2. Reached(path, transitions, 2 * j - 2)
    BY <1>1, <2>0
  <2>3. StateAfter(path, transitions, 2 * j - 2, j) = StateAt(2 * j - 2, j)
    BY <2>0, <2>2 DEF Reached
  <2>4. StateAt(2 * j - 2, j) = "Active"
    BY <1>0 DEF StateAt
  <2>5. path[j] = Completes(path[j]).objective /\ Completes(path[j]).from = "Active"
    BY DEF Completes, Transition
  <2>6. /\ path[j] = transitions[2 * j - 1].objective
        /\ StateAfter(path, transitions, (2 * j - 1) - 1, j) = transitions[2 * j - 1].from
    BY <2>0, <2>1, <2>3, <2>4, <2>5
  <2> QED
    BY <2>0, <2>1, <2>6 DEF ValidStep
<1>3. ASSUME NEW j \in 1 .. i - 1 PROVE ValidStep(path, transitions, 2 * j)
  <2>0. /\ j + 1 \in DOMAIN path /\ j + 1 # 1 /\ 2 * j - 1 \in 0 .. 2 * (i - 1)
        /\ (j + 1) - 1 = j /\ 1 .. j \subseteq DOMAIN path
    BY <1>0
  <2>1. transitions[2 * j] = Activates(path[j + 1])
    BY <1>1
  <2>2. Reached(path, transitions, 2 * j - 1)
    BY <1>1, <2>0
  <2>3. \A m \in DOMAIN path : StateAfter(path, transitions, 2 * j - 1, m) = StateAt(2 * j - 1, m)
    BY <2>2 DEF Reached
  <2>4. StateAt(2 * j - 1, j + 1) = "Pending" /\ \A l \in 1 .. j : StateAt(2 * j - 1, l) = "Completed"
    BY <1>0 DEF StateAt
  <2>5. path[j + 1] = Activates(path[j + 1]).objective /\ Activates(path[j + 1]).from = "Pending"
    BY DEF Activates, Transition
  <2>6. /\ path[j + 1] = transitions[2 * j].objective
        /\ StateAfter(path, transitions, 2 * j - 1, j + 1) = transitions[2 * j].from
    BY <2>0, <2>1, <2>3, <2>4, <2>5
  <2>7. \A l \in 1 .. (j + 1) - 1 : StateAfter(path, transitions, 2 * j - 1, l) = "Completed"
    BY <2>0, <2>3, <2>4
  <2> QED
    BY <2>0, <2>1, <2>6, <2>7 DEF ValidStep
<1>4. ASSUME NEW k \in 1 .. 2 * (i - 1)
      PROVE  \E j \in 1 .. i - 1 : k = 2 * j - 1 \/ k = 2 * j
  <2>1. k \in 1 .. 6
    BY <1>0
  <2>2. CASE k \in {1, 2}
    BY <1>0, <2>2
  <2>3. CASE k \in {3, 4}
    BY <1>0, <2>3
  <2>4. CASE k \in {5, 6}
    BY <1>0, <2>4
  <2> QED
    BY <2>1, <2>2, <2>3, <2>4
<1> QED
  BY <1>2, <1>3, <1>4

\* At most one objective is active at any time on the way.
LEMMA FewActive ==
    ASSUME NEW S, \A a, b \in S : a = b PROVE Cardinality(S) <= 1
<1>1. CASE S = {}
  BY <1>1, FS_EmptySet
<1>2. CASE S # {}
  <2>1. PICK a : a \in S
    BY <1>2
  <2>2. S = {a}
    BY <2>1
  <2>3. Cardinality({a}) = 1
    BY FS_Singleton
  <2> QED
    BY <2>2, <2>3
<1> QED
  BY <1>1, <1>2

\* The path of an operation that ends, with its last objective completed or the active
\* one failed, is what the validator of the evidence accepts.
Concludes(path, i, t, outcome) ==
    IF outcome = "Succeeded" THEN i = Len(path) /\ t = Completes(path[i]) ELSE t = Fails(path[i])

\* Such a path passes the validator of the transitions, for either outcome.
LEMMA EndedPathIsValid ==
    ASSUME NEW way, NEW path, PathOf(way, path), NEW walked \in Seq(Steps), NEW i \in DOMAIN path,
           Walked(path, walked, i), NEW t \in Steps, NEW outcome, Concludes(path, i, t, outcome)
    PROVE  LET tr == Append(walked, t)
           IN  ValidTransitions(path, tr, outcome) /\ tr[Len(tr)].objective = path[i]
<1> DEFINE tr == Append(walked, t)
           last == 2 * (i - 1) + 1
           End(m) == StateAfter(path, tr, Len(tr), m)
<1>0. /\ DOMAIN path = 1 .. Len(path) /\ Len(path) \in {3, 4} /\ i \in 1 .. 4 /\ i <= Len(path)
      /\ \A m, n \in DOMAIN path : path[m] = path[n] => m = n
  BY DEF PathOf
<1>1. Len(walked) = 2 * (i - 1) /\ Marched(path, walked, i)
  BY DEF Walked
<1>2. /\ tr \in Seq(Steps) /\ Len(tr) = last /\ tr[last] = t
      /\ \A k \in 1 .. 2 * (i - 1) : tr[k] = walked[k]
  BY <1>0, <1>1
<1> HIDE DEF tr
<1>3. Marched(path, tr, i)
  <2> SUFFICES ASSUME NEW j \in 1 .. i - 1
               PROVE  tr[2 * j - 1] = Completes(path[j]) /\ tr[2 * j] = Activates(path[j + 1])
    BY DEF Marched
  <2>1. 2 * j - 1 \in 1 .. 2 * (i - 1) /\ 2 * j \in 1 .. 2 * (i - 1)
    BY <1>0
  <2> QED
    BY <1>1, <1>2, <2>1 DEF Marched
<1>4. /\ \A k \in 0 .. 2 * (i - 1) : Reached(path, tr, k)
      /\ \A k \in 1 .. 2 * (i - 1) : ValidStep(path, tr, k)
  BY <1>3, WalkReaches, WalkIsValid
<1>5. /\ t.objective = path[i] /\ t.from = "Active" /\ t.to \in {"Completed", "Failed"}
      /\ t = Completes(path[i]) \/ t = Fails(path[i])
      /\ outcome = "Succeeded" => t.to = "Completed" /\ i = Len(path)
      /\ outcome # "Succeeded" => t.to = "Failed"
  BY DEF Concludes, Completes, Fails, Transition
<1>6. \A m \in DOMAIN path : StateAfter(path, tr, 2 * (i - 1), m) = StateAt(2 * (i - 1), m)
  <2>1. 2 * (i - 1) \in 0 .. 2 * (i - 1)
    BY <1>0
  <2> QED
    BY <1>4, <2>1 DEF Reached
<1>7. \A m \in DOMAIN path : End(m) = IF m = i THEN t.to ELSE StateAt(2 * (i - 1), m)
  <2> SUFFICES ASSUME NEW m \in DOMAIN path
               PROVE  End(m) = IF m = i THEN t.to ELSE StateAt(2 * (i - 1), m)
    OBVIOUS
  <2> DEFINE k == 2 * (i - 1)
  <2>1. k \in Nat /\ k + 1 = last
    BY <1>0
  <2> HIDE DEF k
  <2>2. StepSets(path, tr, m, k)
    BY <2>1, StateStep
  <2>3. End(m) = IF t.objective = path[m] THEN t.to ELSE StateAfter(path, tr, k, m)
    BY <1>2, <2>1, <2>2 DEF StepSets
  <2>4. StateAfter(path, tr, k, m) = StateAt(2 * (i - 1), m)
    BY <1>6 DEF k
  <2> QED
    BY <1>0, <1>5, <2>3, <2>4
<1>8. \A m \in DOMAIN path : m # i => StateAt(2 * (i - 1), m) \in {"Completed", "Pending"}
                                    /\ (m < i => StateAt(2 * (i - 1), m) = "Completed")
  BY <1>0 DEF StateAt
<1>9. Len(tr) \in 1 .. 8 /\ DOMAIN tr = 1 .. last
  BY <1>0, <1>2
<1>10. ValidStep(path, tr, last)
  <2>1. last - 1 = 2 * (i - 1)
    BY <1>0
  <2>2. StateAfter(path, tr, last - 1, i) = "Active"
    <3>1. StateAt(2 * (i - 1), i) = "Active"
      BY <1>0 DEF StateAt
    <3> QED
      BY <1>6, <2>1, <3>1
  <2>3. path[i] = tr[last].objective /\ StateAfter(path, tr, last - 1, i) = tr[last].from
    BY <1>2, <1>5, <2>2
  <2>4. tr[last] = Completes(path[i]) \/ (tr[last] = Fails(path[i]) /\ last = Len(tr))
    BY <1>2, <1>5
  <2> QED
    BY <2>3, <2>4 DEF ValidStep
<1>11. \A k \in DOMAIN tr : ValidStep(path, tr, k)
  <2>1. \A k \in 1 .. last : k = last \/ k \in 1 .. 2 * (i - 1)
    BY <1>0
  <2> QED
    BY <1>4, <1>9, <1>10, <2>1
<1>12. ASSUME NEW k \in DOMAIN tr
       PROVE  Cardinality({m \in DOMAIN path : StateAfter(path, tr, k, m) = "Active"}) <= 1
  <2> DEFINE S == {m \in DOMAIN path : StateAfter(path, tr, k, m) = "Active"}
  <2>1. CASE k = last
    <3>1. \A m \in DOMAIN path : StateAfter(path, tr, k, m) # "Active"
      BY <1>2, <1>5, <1>7, <1>8, <2>1
    <3>2. S = {}
      BY <3>1
    <3> QED
      BY <3>2, FewActive
  <2>2. CASE k # last
    <3>1. k \in 0 .. 2 * (i - 1) /\ k \in Int
      BY <1>0, <1>9, <2>2
    <3>2. \A m \in DOMAIN path : StateAfter(path, tr, k, m) = StateAt(k, m)
      BY <1>4, <3>1 DEF Reached
    <3>3. \A m \in DOMAIN path : StateAt(k, m) = "Active" => 2 * m = k + 2
      BY DEF StateAt
    <3>4. \A a, b \in S : a = b
      BY <1>0, <3>1, <3>2, <3>3
    <3> HIDE DEF S
    <3>5. Cardinality(S) <= 1
      BY <3>4, FewActive
    <3> QED
      BY <3>5 DEF S
  <2> QED
    BY <2>1, <2>2
<1>13. IF outcome = "Succeeded" THEN \A m \in DOMAIN path : End(m) = "Completed"
       ELSE \E m \in DOMAIN path : End(m) = "Failed"
  <2>1. CASE outcome = "Succeeded"
    <3>1. \A m \in DOMAIN path : m = i \/ m < i
      BY <1>0, <1>5, <2>1
    <3> QED
      BY <1>5, <1>7, <1>8, <2>1, <3>1
  <2>2. CASE outcome # "Succeeded"
    BY <1>5, <1>7, <2>2
  <2> QED
    BY <2>1, <2>2
<1>14. ValidTransitions(path, tr, outcome)
  BY <1>9, <1>11, <1>12, <1>13 DEF ValidTransitions
<1>15. tr[Len(tr)].objective = path[i]
  BY <1>2, <1>5
<1> QED
  BY <1>14, <1>15 DEF tr

-----------------------------------------------------------------------------
(* The invariant implies what the runs check *)

\* The path that has been walked leaves one objective active, the one of the stage.
LEMMA ObjectivesFollow == TypeOK /\ StageInv /\ PathInv => ObjectivesFollowStage
<1> SUFFICES ASSUME TypeOK, StageInv, PathInv, Routed
             PROVE  ObjectivesFollowStage
  BY DEF ObjectivesFollowStage
<1> DEFINE path == ObjectivePath(Selection.route)
           tr   == route.transitions
<1>1. route \in Runtimes /\ route # None /\ route.operation.phase = "Routed"
  BY DEF TypeOK, Routed
<1>2. route.operation \in Operations /\ tr \in Seq(Steps) /\ Selection \in Selections
  BY <1>1 DEF Runtimes, Operations, StageInv, Selection, Chosen
<1>3. Selection.route \in Routes
  BY <1>2 DEF Selections
<1>4. PathOf(Selection.route, path)
  BY <1>3, PathsOfRoutes
<1>5. stage \in {"Stabilizer", "Door", "Boss"}
  BY <1>1 DEF StageInv, StagesOf
<1>6. PICK i \in DOMAIN path : i > 1 /\ path[i] = Sought[stage] /\ Walked(path, tr, i)
  BY DEF PathInv
<1> HIDE DEF path
<1>7. ActiveObjectives(path, tr) = {path[i]}
  BY <1>4, <1>6, WalkActivates
<1>8. \A k \in 1 .. 2 * (i - 1) : ValidStep(path, tr, k)
  BY <1>4, <1>6, WalkIsValid DEF Walked
<1>9. DOMAIN tr = 1 .. 2 * (i - 1)
  BY <1>2, <1>6 DEF Walked
<1>10. path[i] = CASE stage = "Stabilizer" -> "reach_relay_stabilizer"
                   [] stage = "Door"       -> "reach_relay_door"
                   [] stage = "Boss"       -> "defeat_warden"
  BY <1>5, <1>6 DEF Sought
<1>11. /\ ActiveObjectives(path, tr) =
               {CASE stage = "Stabilizer" -> "reach_relay_stabilizer"
                  [] stage = "Door"       -> "reach_relay_door"
                  [] stage = "Boss"       -> "defeat_warden"}
       /\ \A k \in DOMAIN tr : ValidStep(path, tr, k)
  BY <1>7, <1>8, <1>9, <1>10
<1> QED
  BY <1>11 DEF path, ObjectivesFollowStage

\* The invariant gives what the session promises of its stages.
LEMMA StagesFollow == SessionInv => StagesStayInStep
<1> SUFFICES ASSUME SessionInv PROVE StagesStayInStep
  OBVIOUS
<1>1. ObjectivesFollowStage
  BY ObjectivesFollow DEF SessionInv
<1>2. KillEndsOperation
  BY DEF SessionInv, WardenInv, KillEndsOperation
<1> QED
  BY <1>1, <1>2 DEF StagesStayInStep

\* The invariant gives what the session promises of its memory.
LEMMA MemoryFollows == SessionInv => MemoryIsTold
<1> SUFFICES ASSUME SessionInv PROVE MemoryIsTold
  OBVIOUS
<1>1. MemoryIsStored
  BY DEF SessionInv, StorageInv, MemoryIsStored, Selection
<1>2. SummaryIsSent
  BY DEF SessionInv, ToldInv, SummaryIsSent
<1> QED
  BY <1>1, <1>2 DEF SessionInv, MemoryIsTold

\* The invariant gives what the session promises of its rewards.
LEMMA RewardsFollow == SessionInv => OneRewardedOperation
<1> SUFFICES ASSUME SessionInv PROVE OneRewardedOperation
  OBVIOUS
<1>1. ~(db.route # None /\ db.cooperation)
  BY DEF SessionInv, StorageInv
<1>2. cooperating => db.cooperation /\ route.operation.phase = "BaselineLocked"
  BY DEF SessionInv, StorageInv, StageInv
<1>3. RewardedOnce
  BY DEF SessionInv, StorageInv
<1> QED
  BY <1>1, <1>2, <1>3 DEF RouteXorCooperation, OneRewardedOperation

-----------------------------------------------------------------------------
(* The beginning, and the ways out of a session *)

\* A full waiting room satisfies the invariant.
LEMMA InitEstablishes == Init => SessionInv
<1> SUFFICES ASSUME Init PROVE SessionInv
  OBVIOUS
<1>1. Players # {} /\ Leader \in Players
  BY RouteAssumption DEF Players, Leader
<1>2. TypeOK
  <2>1. [p \in Players |-> 0] \in [Players -> Nat]
    OBVIOUS
  <2>2. db \in Databases
    BY <2>1 DEF Init, Databases
  <2>3. clock \in 0 .. MaxClock
    BY ClockAssumption DEF Init
  <2> QED
    BY <2>2, <2>3 DEF Init, TypeOK, Stages, Faults
<1>3. StageInv
  BY <1>1 DEF Init, StageInv
<1>4. StorageInv
  BY DEF Init, StorageInv, NothingStored, RewardedOnce
<1>5. ToldInv /\ PathInv /\ WardenInv
  BY DEF Init, ToldInv, PathInv, Routed, WardenInv
<1> QED
  BY <1>2, <1>3, <1>4, <1>5 DEF SessionInv

\* What holds of the database even when there is no session any more.
Fair(d) ==
    d.route # None =>
        \A p \in Players :
            d.granted[p] = IF /\ d.route.terminal # None
                              /\ d.route.terminal.outcome = "Succeeded"
                              /\ p \in DOMAIN d.route.replay.weapons
                           THEN 1 ELSE 0

\* What is stored needs nothing of the session to be sound.
Sound(d, confirmed) ==
    /\ d \in Databases
    /\ d.route # None => ~d.cooperation
    /\ Fair(d)
    /\ \A choice \in confirmed : d.route # None /\ d.route.replay.selection = choice

\* The invariant has that part.
LEMMA SessionIsSound == SessionInv => Sound(db, answers)
  BY DEF SessionInv, TypeOK, StorageInv, RewardedOnce, Sound, Fair

\* A coordinator that starts afresh keeps the invariant over a sound database.
LEMMA ResetKeeps ==
    ASSUME Reset, equipped' \in [Players -> Weapons], clock' \in 0 .. MaxClock,
           told' \subseteq Players, fault' \in Faults, answers \subseteq Selections,
           answers' = answers, Sound(db', answers)
    PROVE  SessionInv'
<1>1. TypeOK'
  BY DEF Reset, TypeOK, Stages, Sound
<1>2. StageInv'
  BY DEF Reset, StageInv
<1>3. StorageInv'
  BY DEF Reset, StorageInv, Sound, Fair, RewardedOnce
<1>4. ToldInv' /\ PathInv' /\ WardenInv'
  BY DEF Reset, ToldInv, PathInv, Routed, WardenInv
<1> QED
  BY <1>1, <1>2, <1>3, <1>4 DEF SessionInv

\* An aborted session leaves the database as it was, or as the transaction made it.
LEMMA AbortKeeps ==
    ASSUME SessionInv, NEW reason \in Faults, Abort(reason), Sound(db', answers)
    PROVE  SessionInv'
  BY ResetKeeps DEF Abort, SessionInv, TypeOK

\* An event that cannot be appended aborts the session and changes no row.
LEMMA AppendFailsKeeps == ASSUME SessionInv, AppendFails PROVE SessionInv'
<1>1. Sound(db', answers)
  BY SessionIsSound DEF AppendFails
<1>2. "database" \in Faults
  BY DEF Faults
<1> QED
  BY <1>1, <1>2, AbortKeeps DEF AppendFails

\* Another operation in the same runtime.
LEMMA OperationUpdate ==
    ASSUME NEW rt \in Runtimes, NEW op \in Operations
    PROVE  /\ [rt EXCEPT !.operation = op] \in Runtimes
           /\ [rt EXCEPT !.operation = op].operation = op
           /\ [rt EXCEPT !.operation = op].replay = rt.replay
           /\ [rt EXCEPT !.operation = op].transitions = rt.transitions
           /\ [rt EXCEPT !.operation = op].encounter = rt.encounter
  BY DEF Runtimes

-----------------------------------------------------------------------------
(* Time, departures, weapons and capabilities *)

\* Time passing keeps the invariant: a dead Warden stays late, nothing else reads the clock.
LEMMA TickKeeps == ASSUME SessionInv, Tick PROVE SessionInv'
<1>1. TypeOK'
  <2>1. clock' \in 0 .. MaxClock
    BY ClockAssumption DEF SessionInv, TypeOK, Tick
  <2> QED
    BY <2>1 DEF SessionInv, TypeOK, Tick
<1>2. StageInv' /\ ToldInv' /\ PathInv'
  BY DEF SessionInv, Tick, StageInv, ToldInv, PathInv, Routed, Selection
<1>3. StorageInv'
  BY DEF SessionInv, Tick, StorageInv, NothingStored, RewardedOnce
<1>4. WardenInv'
  <2>1. clock > Budget => clock' > Budget
    BY ClockAssumption, RouteAssumption DEF SessionInv, TypeOK, Tick
  <2> QED
    BY <2>1 DEF SessionInv, Tick, WardenInv, Routed
<1> QED
  BY <1>1, <1>2, <1>3, <1>4 DEF SessionInv

\* A player who leaves takes nothing with them; the last one leaves a fresh session.
LEMMA DisconnectKeeps == ASSUME SessionInv, NEW p \in Players, Disconnect(p) PROVE SessionInv'
<1>1. CASE members = {p}
  <2>1. Sound(db', answers)
    BY SessionIsSound DEF Disconnect
  <2> QED
    BY <1>1, <2>1, ResetKeeps DEF Disconnect, SessionInv, TypeOK
<1>2. CASE members # {p}
  <2>0. /\ members' = members \ {p} /\ capable' = capable \ {p} /\ members' # {} /\ members # {}
        /\ UNCHANGED <<stage, route, enemy, cooperating, equipped, clock, db, answers, told, fault>>
    BY <1>2 DEF Disconnect
  <2>1. TypeOK'
    BY <2>0 DEF SessionInv, TypeOK
  <2>2. StageInv' /\ ToldInv' /\ PathInv'
    BY <2>0 DEF SessionInv, StageInv, ToldInv, PathInv, Routed, Selection
  <2>3. StorageInv'
    BY <2>0 DEF SessionInv, StorageInv, NothingStored, RewardedOnce
  <2>4. WardenInv'
    BY <2>0 DEF SessionInv, WardenInv, Routed
  <2> QED
    BY <2>1, <2>2, <2>3, <2>4 DEF SessionInv
<1> QED
  BY <1>1, <1>2

\* A weapon taken up changes nothing of the route, whether or not it could be stored.
LEMMA EquipKeeps ==
    ASSUME SessionInv, NEW p \in Players, NEW w \in Weapons, Equip(p, w) PROVE SessionInv'
<1>1. CASE db' \in {db, db} /\ Abort("database")
  BY <1>1, SessionIsSound, AbortKeeps DEF Faults
<1>2. CASE /\ equipped' = [equipped EXCEPT ![p] = w]
           /\ UNCHANGED <<db, members, capable, stage, route, enemy, clock,
                          cooperating, answers, told, fault>>
  <2>1. TypeOK'
    BY <1>2 DEF SessionInv, TypeOK
  <2>2. StageInv' /\ ToldInv' /\ PathInv' /\ WardenInv'
    BY <1>2 DEF SessionInv, StageInv, ToldInv, PathInv, Routed, Selection, WardenInv
  <2>3. StorageInv'
    BY <1>2 DEF SessionInv, StorageInv, NothingStored, RewardedOnce
  <2> QED
    BY <2>1, <2>2, <2>3 DEF SessionInv
<1> QED
  BY <1>1, <1>2 DEF Equip, Commit

\* A capability is announced before the route is chosen or not at all.
LEMMA RequestRouteStateKeeps ==
    ASSUME SessionInv, NEW p \in Players, RequestRouteState(p) PROVE SessionInv'
<1>0. /\ p \in members /\ capable' = capable \cup {p}
      /\ UNCHANGED <<members, equipped, stage, enemy, clock, db, cooperating, answers, told, fault>>
  BY DEF RequestRouteState, Present
<1>1. CASE stage = "Waiting" /\ route' = None
  <2>0. route = None /\ route' = route
    BY <1>1 DEF SessionInv, StageInv
  <2>1. TypeOK'
    BY <1>0, <2>0 DEF SessionInv, TypeOK
  <2>2. StageInv' /\ PathInv' /\ WardenInv'
    BY <1>0, <2>0 DEF SessionInv, StageInv, PathInv, Routed, Selection, WardenInv
  <2>3. StorageInv'
    BY <1>0, <2>0 DEF SessionInv, StorageInv, NothingStored, RewardedOnce
  <2>4. ToldInv'
    BY <1>0, <2>0 DEF SessionInv, ToldInv
  <2> QED
    BY <2>1, <2>2, <2>3, <2>4 DEF SessionInv
<1>2. CASE /\ route # None /\ MarkCapable(route.operation, p) # None
           /\ route' = [route EXCEPT !.operation = MarkCapable(@, p)]
  <2> DEFINE op == [route.operation EXCEPT !.capable = @ \cup {p}]
  <2>0. /\ route \in Runtimes /\ route.operation \in Operations
        /\ route.operation.phase \in {"Drone", "ChoiceOpen"}
        /\ MarkCapable(route.operation, p) = op
    BY <1>2 DEF SessionInv, TypeOK, Runtimes, MarkCapable
  <2>1. /\ op \in Operations /\ op.phase = route.operation.phase
        /\ op.selection = route.operation.selection /\ op.terminal = route.operation.terminal
    BY <2>0 DEF Operations
  <2>2. route' = [route EXCEPT !.operation = op]
    BY <1>2, <2>0
  <2> HIDE DEF op
  <2>3. /\ route' \in Runtimes /\ route' # None /\ route'.operation = op
        /\ route'.replay = route.replay /\ route'.transitions = route.transitions
        /\ route'.encounter = route.encounter
    BY <2>0, <2>1, <2>2, OperationUpdate, AbsenceAssumption
  <2>4. route.operation.terminal = None /\ route.operation.selection = None
    BY <1>2, <2>0 DEF SessionInv, StageInv, Chosen, Over
  <2>5. TypeOK'
    BY <1>0, <2>3 DEF SessionInv, TypeOK
  <2>6. StageInv'
    BY <1>0, <1>2, <2>1, <2>3 DEF SessionInv, StageInv
  <2>7. PathInv'
    BY <2>0, <2>1, <2>3 DEF PathInv, Routed
  <2>8. WardenInv'
    BY <1>0, <1>2, <2>1, <2>3 DEF SessionInv, WardenInv, Routed
  <2>9. StorageInv'
    BY <1>0, <1>2, <2>1, <2>3 DEF SessionInv, StorageInv, NothingStored, RewardedOnce
  <2>10. ToldInv'
    BY <1>0, <1>2, <2>4 DEF SessionInv, ToldInv
  <2> QED
    BY <2>5, <2>6, <2>7, <2>8, <2>9, <2>10 DEF SessionInv
<1> QED
  BY <1>1, <1>2 DEF RequestRouteState

-----------------------------------------------------------------------------
(* The start of the activity *)

\* The activity starts with a new operation and the drone.
LEMMA StartActivityKeeps == ASSUME SessionInv, StartActivity PROVE SessionInv'
<1>a. 1 \in Players
  BY RouteAssumption DEF Players
<1>b. stage = "Waiting" /\ members = Players
  BY DEF StartActivity
<1>0. stage = "Waiting" /\ members = Players /\ members # {} /\ route = None
  BY <1>a, <1>b DEF SessionInv, StageInv
<1>1. CASE AppendFails
  BY <1>1, AppendFailsKeeps
<1>2. CASE /\ stage' = "Drone"
           /\ route' = [NewRuntime([NewOperation EXCEPT !.capable = capable])
                        EXCEPT !.encounter.hostile = DroneDamage]
           /\ enemy' = Enemy(DroneHealth(N))
           /\ UNCHANGED <<members, capable, equipped, clock, db, cooperating, answers, told, fault>>
  <2> DEFINE op  == [phase |-> "Drone", capable |-> capable, selection |-> None, terminal |-> None]
             enc == [drone |-> DroneHealth(N), droneDefeated |-> FALSE, spawned |-> FALSE,
                     base |-> WardenHealth(N), effective |-> 0, remaining |-> 0,
                     hits |-> 0, counters |-> 0, hostile |-> 10]
  <2>1. DroneHealth(N) \in Nat /\ WardenHealth(N) \in Nat
    BY EnemiesBegin, RouteAssumption
  <2>2. op \in Operations
    BY DEF SessionInv, TypeOK, Operations, Phases
  <2>3. enc \in Encounters
    BY <2>1 DEF Encounters
  <2>4. route' = [operation |-> op, replay |-> None, transitions |-> <<>>, encounter |-> enc]
    BY <1>2 DEF NewRuntime, NewOperation, NewEncounter, DroneDamage
  <2>5. op.phase = "Drone" /\ op.selection = None /\ op.terminal = None /\ enc.counters = 0
    OBVIOUS
  <2> HIDE DEF op, enc
  <2>a. <<>> \in Seq(Steps)
    OBVIOUS
  <2>b. [operation |-> op, replay |-> None, transitions |-> <<>>, encounter |-> enc] \in Runtimes
    BY <2>2, <2>3, <2>a DEF Runtimes
  <2>6. /\ route' \in Runtimes /\ route' # None /\ route'.operation = op
        /\ route'.encounter = enc
    BY <2>4, <2>b, AbsenceAssumption
  <2>7. enemy' \in Enemies /\ enemy' # None /\ enemy'.counters = 0
    BY <1>2, <2>1, AbsenceAssumption DEF Enemy, Enemies
  <2>8. NothingStored /\ ~cooperating
    BY <1>0 DEF SessionInv, StorageInv, StageInv
  <2>9. TypeOK'
    BY <1>2, <2>6, <2>7 DEF SessionInv, TypeOK, Stages
  <2>10. StageInv'
    BY <1>0, <1>2, <2>5, <2>6, <2>7, <2>8 DEF StageInv, StagesOf, Chosen, Over
  <2>11. StorageInv'
    <3>1. db' = db /\ answers' = answers /\ cooperating' = cooperating /\ stage' = "Drone"
      BY <1>2
    <3> QED
      BY <2>5, <2>6, <2>8, <3>1 DEF SessionInv, StorageInv, NothingStored, RewardedOnce
  <2>12. ToldInv'
    BY <1>2, <2>8 DEF ToldInv, NothingStored
  <2>13. PathInv'
    BY <2>5, <2>6 DEF PathInv, Routed
  <2>14. WardenInv'
    BY <1>2, <2>5, <2>6 DEF WardenInv
  <2> QED
    BY <2>9, <2>10, <2>11, <2>12, <2>13, <2>14 DEF SessionInv
<1> QED
  BY <1>1, <1>2 DEF StartActivity

-----------------------------------------------------------------------------
(* The choice *)

\* A retry of the selection that is in memory changes nothing that is stored.
LEMMA RepeatedChoiceKeeps ==
    ASSUME SessionInv, NEW p \in Players, NEW choice \in Selections, ChooseRoute(p, choice),
           Selection # None
    PROVE  SessionInv'
<1> DEFINE row == Stored(Selection, [q \in members |-> equipped[q]])
<1>1. route # None /\ Select(route.operation, p, choice) = route.operation
  BY DEF ChooseRoute, Select, Selection
<1>2. row # None /\ Commit([db EXCEPT !.route = row], Confirm(row))
  BY <1>1 DEF ChooseRoute, Selection
<1>3. db.route # None /\ db.route.replay.selection = Selection
  BY <1>1 DEF SessionInv, StorageInv, Selection
<1>4. row = db.route
  BY <1>2, <1>3 DEF Stored
<1> HIDE DEF row
<1>5. [db EXCEPT !.route = row] = db
  BY <1>4 DEF SessionInv, TypeOK, Databases
<1>6. Commit(db, Confirm(db.route))
  BY <1>2, <1>4, <1>5
<1>7. CASE db' \in {db, db} /\ Abort("database")
  BY <1>7, SessionIsSound, AbortKeeps DEF Faults
<1>8. CASE db' = db /\ Confirm(db.route)
  <2>0. /\ answers' = answers \cup {Selection}
        /\ UNCHANGED <<db, route, stage, clock, members, capable, equipped, enemy, cooperating,
                       told, fault>>
    BY <1>3, <1>8 DEF Confirm
  <2>1. Selection \in Selections
    BY <1>1 DEF SessionInv, TypeOK, Runtimes, Operations, Selection
  <2>2. TypeOK'
    BY <2>0, <2>1 DEF SessionInv, TypeOK
  <2>3. StageInv' /\ ToldInv' /\ PathInv' /\ WardenInv'
    BY <2>0 DEF SessionInv, StageInv, ToldInv, PathInv, Routed, Selection, WardenInv
  <2>4. StorageInv'
    <3>1. \A c \in answers' : db'.route # None /\ db'.route.replay.selection = c
      BY <1>3, <2>0 DEF SessionInv, StorageInv
    <3> QED
      BY <2>0, <3>1 DEF SessionInv, StorageInv, NothingStored, RewardedOnce
  <2> QED
    BY <2>2, <2>3, <2>4 DEF SessionInv
<1> QED
  BY <1>6, <1>7, <1>8 DEF Commit

\* The second objective of a path, where the choice leads.
LEMMA FirstSteps ==
    ASSUME NEW way \in Routes
    PROVE  /\ InitialTransitions(way) \in Seq(Steps)
           /\ Walked(ObjectivePath(way), InitialTransitions(way), 2)
           /\ 2 \in DOMAIN ObjectivePath(way)
           /\ ObjectivePath(way)[2] = IF way = "breach" THEN "reach_relay_door"
                                      ELSE "reach_relay_stabilizer"
<1> DEFINE path == ObjectivePath(way)
<1>1. PathOf(way, path)
  BY PathsOfRoutes
<1> HIDE DEF path
<1>2. /\ DOMAIN path = 1 .. Len(path) /\ Len(path) \in {3, 4}
      /\ 1 \in DOMAIN path /\ 2 \in DOMAIN path
      /\ path[1] \in Objectives /\ path[2] \in Objectives
  BY <1>1 DEF PathOf
<1>3. Completes(path[1]) \in Steps /\ Activates(path[2]) \in Steps
  BY <1>2 DEF Completes, Activates, Transition, Steps
<1>4. InitialTransitions(way) = <<Completes(path[1]), Activates(path[2])>>
  BY DEF InitialTransitions, path
<1>5. InitialTransitions(way) \in Seq(Steps)
  BY <1>3, <1>4
<1>6. Walked(path, InitialTransitions(way), 2)
  <2>1. /\ Len(InitialTransitions(way)) = 2
        /\ InitialTransitions(way)[1] = Completes(path[1])
        /\ InitialTransitions(way)[2] = Activates(path[2])
    BY <1>4
  <2>2. \A j \in 1 .. 2 - 1 : j = 1
    OBVIOUS
  <2> QED
    BY <2>1, <2>2 DEF Walked, Marched
<1>7. path[2] = IF way = "breach" THEN "reach_relay_door" ELSE "reach_relay_stabilizer"
  BY <1>1 DEF PathOf, Routes
<1> QED
  BY <1>2, <1>5, <1>6, <1>7 DEF path

\* The first choice is stored and installed in one step.
LEMMA FirstChoiceKeeps ==
    ASSUME SessionInv, NEW p \in Players, NEW choice \in Selections, ChooseRoute(p, choice),
           Selection = None
    PROVE  SessionInv'
<1> DEFINE weapons == [q \in members |-> equipped[q]]
           row     == [replay |-> [selection |-> choice, weapons |-> weapons], terminal |-> None]
           after   == [db EXCEPT !.route = row]
           op      == [route.operation EXCEPT !.phase = "Routed", !.selection = choice]
<1>0. /\ route # None /\ route \in Runtimes /\ route.operation \in Operations
      /\ route.encounter \in Encounters /\ db \in Databases
      /\ equipped \in [Players -> Weapons] /\ members \subseteq Players
  BY DEF ChooseRoute, SessionInv, TypeOK, Runtimes
<1>1. /\ route.operation.phase = "ChoiceOpen"
      /\ Select(route.operation, p, choice).selection = choice
      /\ p = Leader /\ Leader \in members
      /\ Select(route.operation, Leader, choice) = op
  <2>1. Select(route.operation, p, choice) # None /\ p \in members
    BY DEF ChooseRoute, Present
  <2>2. route.operation.phase = "ChoiceOpen" /\ p = Leader /\ Select(route.operation, p, choice) = op
    BY <1>0, <2>1 DEF Select, Selection
  <2>3. op.selection = choice
    BY <1>0 DEF Operations
  <2> QED
    BY <2>1, <2>2, <2>3
<1>2. /\ stage = "Door" /\ enemy = None /\ db.route = None /\ ~cooperating /\ ~db.cooperation
      /\ db.granted = [q \in Players |-> 0] /\ route.operation.terminal = None
  BY <1>0, <1>1 DEF SessionInv, StageInv, StorageInv, StagesOf, Over, Selection
<1>3. answers = {}
  BY <1>2 DEF SessionInv, StorageInv
<1>4. row \in Rows /\ row.replay.selection = choice /\ row.terminal = None
      /\ row.replay \in Replays
  <2>1. weapons \in UNION {[P -> Weapons] : P \in SUBSET Players}
    BY <1>0
  <2> HIDE DEF weapons
  <2> QED
    BY <2>1 DEF Rows, Replays
<1>5. Stored(choice, weapons) = row
  BY <1>2 DEF Stored, NewRow, SelectionReplay
<1>6. Commit([db EXCEPT !.route = Stored(choice, weapons)], Confirm(Stored(choice, weapons)))
  BY <1>1 DEF ChooseRoute
<1>7. Commit(after, Confirm(row))
  BY <1>5, <1>6
<1> HIDE DEF row
<1>8. /\ after \in Databases /\ after.route = row /\ after.cooperation = db.cooperation
      /\ after.granted = db.granted
  BY <1>0, <1>4 DEF Databases
<1>9. row # None
  BY <1>4, AbsenceAssumption
<1> HIDE DEF after, weapons
<1>10. Sound(after, answers)
  BY <1>2, <1>3, <1>4, <1>8 DEF Sound, Fair
<1>11. CASE db' \in {db, after} /\ Abort("database")
  BY <1>10, <1>11, SessionIsSound, AbortKeeps DEF Faults
<1>12. CASE db' = after /\ Confirm(row)
  <2>1. /\ answers' = answers \cup {choice}
        /\ route' = [route EXCEPT !.operation   = Select(@, Leader, choice),
                                  !.replay      = row.replay,
                                  !.transitions = InitialTransitions(choice.route),
                                  !.encounter.effective =
                                      ApplyHealthEffect(route.encounter.base, EffectOf(choice))]
        /\ stage' = (IF choice.route = "breach" THEN "Door" ELSE "Stabilizer") /\ clock' = 0
        /\ UNCHANGED <<members, capable, equipped, enemy, cooperating, told, fault>>
    BY <1>4, <1>12 DEF Confirm, Selection
  <2> DEFINE enc == [route.encounter EXCEPT
                 !.effective = ApplyHealthEffect(route.encounter.base, EffectOf(choice))]
             tr == InitialTransitions(choice.route)
  <2>2. enc \in Encounters /\ enc.counters = route.encounter.counters
    <3>1. route.encounter.base \in Nat
      BY <1>0 DEF Encounters
    <3>2. ApplyHealthEffect(route.encounter.base, EffectOf(choice)) \in Nat
      BY <3>1, EffectAdds
    <3> QED
      BY <1>0, <3>2 DEF Encounters
  <2>3. op \in Operations /\ op.phase = "Routed" /\ op.selection = choice /\ op.terminal = None
    BY <1>0, <1>2 DEF Operations, Phases
  <2>4. choice.route \in Routes
    BY DEF Selections
  <2>5. /\ tr \in Seq(Steps) /\ Walked(ObjectivePath(choice.route), tr, 2)
        /\ 2 \in DOMAIN ObjectivePath(choice.route)
        /\ ObjectivePath(choice.route)[2] = Sought[stage']
    BY <2>1, <2>4, FirstSteps DEF Sought, Routes
  <2>6. route' = [operation |-> op, replay |-> row.replay, transitions |-> tr, encounter |-> enc]
    <3> HIDE DEF op, tr
    <3> QED
      BY <1>0, <1>1, <2>1 DEF Runtimes, tr
  <2> HIDE DEF op, tr, enc
  <2>7. [operation |-> op, replay |-> row.replay, transitions |-> tr, encounter |-> enc] \in Runtimes
    BY <1>4, <2>2, <2>3, <2>5 DEF Runtimes
  <2>8. /\ route' \in Runtimes /\ route' # None /\ route'.operation = op
        /\ route'.replay = row.replay /\ route'.transitions = tr /\ route'.encounter = enc
    BY <2>6, <2>7, AbsenceAssumption
  <2>9. choice # None
    BY AbsenceAssumption
  <2>10. stage' \in {"Door", "Stabilizer"}
    BY <2>1
  <2>11. TypeOK'
    BY <1>8, <1>12, <2>1, <2>8, <2>10, ClockAssumption DEF SessionInv, TypeOK, Stages
  <2>12. StageInv'
    BY <1>1, <1>2, <2>1, <2>3, <2>8, <2>9, <2>10 DEF SessionInv, StageInv, StagesOf, Chosen, Over
  <2>13. StorageInv'
    <3>1. db' = after /\ answers' = {choice} /\ cooperating' = FALSE /\ members' = members
      BY <1>2, <1>3, <1>12, <2>1 DEF SessionInv, TypeOK
    <3>2. RewardedOnce'
      BY <1>10, <3>1 DEF Sound, Fair, RewardedOnce
    <3>3. db'.route = row /\ db'.cooperation = FALSE
      BY <1>2, <1>8, <3>1 DEF Databases, SessionInv, TypeOK
    <3> QED
      BY <1>4, <1>9, <2>3, <2>8, <2>9, <3>1, <3>2, <3>3 DEF StorageInv
  <2>14. ToldInv'
    BY <1>4, <1>8, <1>12 DEF ToldInv
  <2>15. PathInv'
    <3>1. Selection' = choice
      BY <2>3, <2>8 DEF Selection
    <3>2. route'.transitions = tr /\ 2 > 1
      BY <2>8
    <3> QED
      BY <2>5, <3>1, <3>2 DEF PathInv
  <2>16. WardenInv'
    BY <1>0, <1>2, <2>2, <2>8, <2>10 DEF SessionInv, WardenInv
  <2> QED
    BY <2>11, <2>12, <2>13, <2>14, <2>15, <2>16 DEF SessionInv
<1> QED
  BY <1>7, <1>11, <1>12 DEF Commit

\* A choice is either the repetition of the stored one or the first.
LEMMA ChooseRouteKeeps ==
    ASSUME SessionInv, NEW p \in Players, NEW choice \in Selections, ChooseRoute(p, choice)
    PROVE  SessionInv'
  BY RepeatedChoiceKeeps, FirstChoiceKeeps

\* A cooperation is stored only where no route is, and locks the baseline.
LEMMA StartCooperationKeeps == ASSUME SessionInv, StartCooperation PROVE SessionInv'
<1>0. /\ stage = "Door" /\ route # None /\ route.operation.phase = "ChoiceOpen" /\ ~cooperating
      /\ route \in Runtimes /\ route.operation \in Operations /\ db \in Databases
  BY DEF StartCooperation, SessionInv, TypeOK, StageInv, Runtimes
<1>1. /\ route.operation.selection = None /\ route.operation.terminal = None /\ enemy = None
      /\ db.route = None /\ db.granted = [q \in Players |-> 0]
  BY <1>0 DEF SessionInv, StageInv, StorageInv, Chosen, Over
<1>2. answers = {}
  BY <1>1 DEF SessionInv, StorageInv
<1> DEFINE after == [db EXCEPT !.cooperation = TRUE]
           op    == [route.operation EXCEPT !.phase = "BaselineLocked"]
<1>3. /\ after \in Databases /\ after.route = None /\ after.cooperation = TRUE
      /\ after.granted = db.granted
  BY <1>0, <1>1 DEF Databases
<1>4. /\ op \in Operations /\ op.phase = "BaselineLocked" /\ op.selection = None
      /\ op.terminal = None
  BY <1>0, <1>1 DEF Operations, Phases
<1>5. LockBaseline(route.operation) = op
  BY <1>0, <1>1 DEF LockBaseline
<1>6. Commit(after, /\ cooperating' = TRUE
                    /\ route' = [route EXCEPT !.operation = LockBaseline(@)]
                    /\ UNCHANGED <<members, capable, equipped, stage, enemy, clock, answers,
                                   told, fault>>)
  BY <1>1 DEF StartCooperation
<1> HIDE DEF after, op
<1>7. Sound(after, answers)
  BY <1>2, <1>3 DEF Sound, Fair
<1>8. CASE db' \in {db, after} /\ Abort("database")
  BY <1>7, <1>8, SessionIsSound, AbortKeeps DEF Faults
<1>9. CASE /\ db' = after /\ cooperating' = TRUE
           /\ route' = [route EXCEPT !.operation = LockBaseline(@)]
           /\ UNCHANGED <<members, capable, equipped, stage, enemy, clock, answers, told, fault>>
  <2>1. route' = [route EXCEPT !.operation = op]
    BY <1>5, <1>9
  <2>2. /\ route' \in Runtimes /\ route' # None /\ route'.operation = op
        /\ route'.encounter = route.encounter
    BY <1>0, <1>4, <2>1, OperationUpdate, AbsenceAssumption
  <2>3. TypeOK'
    BY <1>3, <1>9, <2>2 DEF SessionInv, TypeOK
  <2>4. StageInv'
    BY <1>0, <1>1, <1>4, <1>9, <2>2 DEF SessionInv, StageInv, StagesOf, Chosen, Over
  <2>5. StorageInv'
    BY <1>0, <1>1, <1>2, <1>3, <1>4, <1>9, <2>2 DEF StorageInv, RewardedOnce
  <2>6. ToldInv'
    BY <1>3, <1>9 DEF ToldInv
  <2>7. PathInv'
    BY <1>4, <2>2 DEF PathInv, Routed
  <2>8. WardenInv'
    BY <1>0, <1>9, <2>2 DEF SessionInv, WardenInv
  <2> QED
    BY <2>3, <2>4, <2>5, <2>6, <2>7, <2>8 DEF SessionInv
<1> QED
  BY <1>6, <1>8, <1>9 DEF Commit

-----------------------------------------------------------------------------
(* The way to the Warden *)

\* The next objective of a path.
LEMMA WalkExtends ==
    ASSUME NEW way, NEW path, PathOf(way, path), NEW tr \in Seq(Steps), NEW i \in DOMAIN path,
           i > 1, i + 1 \in DOMAIN path, Walked(path, tr, i)
    PROVE  /\ tr \o <<Completes(path[i]), Activates(path[i + 1])>> \in Seq(Steps)
           /\ Walked(path, tr \o <<Completes(path[i]), Activates(path[i + 1])>>, i + 1)
<1> DEFINE on == <<Completes(path[i]), Activates(path[i + 1])>>
           longer == tr \o on
<1>1. path[i] \in Objectives /\ path[i + 1] \in Objectives /\ i \in Nat
  BY DEF PathOf
<1>2. Completes(path[i]) \in Steps /\ Activates(path[i + 1]) \in Steps
  BY <1>1 DEF Completes, Activates, Transition, Steps
<1>3. /\ on \in Seq(Steps) /\ Len(on) = 2 /\ on[1] = Completes(path[i])
      /\ on[2] = Activates(path[i + 1])
  BY <1>2
<1> HIDE DEF on
<1>4. /\ Len(tr) = 2 * (i - 1) /\ Len(tr) \in Nat
      /\ \A j \in 1 .. i - 1 : /\ tr[2 * j - 1] = Completes(path[j])
                               /\ tr[2 * j] = Activates(path[j + 1])
  BY DEF Walked, Marched
<1>5. /\ longer \in Seq(Steps) /\ Len(longer) = Len(tr) + 2
      /\ \A k \in 1 .. Len(tr) : longer[k] = tr[k]
      /\ longer[Len(tr) + 1] = on[1] /\ longer[Len(tr) + 2] = on[2]
  <2>1. /\ longer \in Seq(Steps) /\ Len(longer) = Len(tr) + Len(on)
        /\ \A k \in 1 .. Len(tr) + Len(on) :
               longer[k] = IF k <= Len(tr) THEN tr[k] ELSE on[k - Len(tr)]
    BY <1>3, ConcatProperties
  <2> HIDE DEF longer
  <2>2. \A k \in 1 .. Len(tr) : k \in 1 .. Len(tr) + Len(on) /\ k <= Len(tr)
    BY <1>3, <1>4
  <2>3. /\ Len(tr) + 1 \in 1 .. Len(tr) + Len(on) /\ Len(tr) + 2 \in 1 .. Len(tr) + Len(on)
        /\ ~(Len(tr) + 1 <= Len(tr)) /\ ~(Len(tr) + 2 <= Len(tr))
        /\ (Len(tr) + 1) - Len(tr) = 1 /\ (Len(tr) + 2) - Len(tr) = 2
    BY <1>3, <1>4
  <2> QED
    BY <1>3, <2>1, <2>2, <2>3
<1> HIDE DEF longer
<1>6. Len(longer) = 2 * ((i + 1) - 1)
  BY <1>1, <1>4, <1>5
<1>7. ASSUME NEW j \in 1 .. (i + 1) - 1
      PROVE  longer[2 * j - 1] = Completes(path[j]) /\ longer[2 * j] = Activates(path[j + 1])
  <2>1. CASE j < i
    <3>1. j \in 1 .. i - 1 /\ 2 * j - 1 \in 1 .. Len(tr) /\ 2 * j \in 1 .. Len(tr)
      BY <1>1, <1>4, <2>1
    <3> QED
      BY <1>4, <1>5, <3>1
  <2>2. CASE j = i
    <3>1. 2 * j - 1 = Len(tr) + 1 /\ 2 * j = Len(tr) + 2
      BY <1>1, <1>4, <2>2
    <3> QED
      BY <1>3, <1>5, <2>2, <3>1
  <2> QED
    BY <1>1, <2>1, <2>2
<1>8. Walked(path, longer, i + 1)
  BY <1>6, <1>7 DEF Walked, Marched
<1> QED
  BY <1>5, <1>8 DEF longer, on

\* What follows the stabilizer and what follows the door.
LEMMA NextObjectives ==
    ASSUME NEW way \in Routes, NEW path, PathOf(way, path), NEW i \in DOMAIN path, i > 1
    PROVE  /\ path[i] = "reach_relay_stabilizer" =>
                  i + 1 \in DOMAIN path /\ path[i + 1] = "reach_relay_door"
           /\ path[i] = "reach_relay_door" =>
                  i + 1 \in DOMAIN path /\ path[i + 1] = "defeat_warden"
           /\ path[i] = "defeat_warden" => i = Len(path)
<1>0. /\ DOMAIN path = 1 .. Len(path) /\ Len(path) = (IF way = "breach" THEN 3 ELSE 4)
      /\ \A m, n \in DOMAIN path : path[m] = path[n] => m = n
      /\ path[Len(path)] = "defeat_warden" /\ path[Len(path) - 1] = "reach_relay_door"
      /\ way = "stabilize" => path[2] = "reach_relay_stabilizer"
      /\ path[1] = "clear_drone_group"
  BY DEF PathOf
<1>1. CASE way = "breach"
  <2>1. Len(path) = 3 /\ 2 \in DOMAIN path /\ 3 \in DOMAIN path /\ i \in {2, 3}
    BY <1>0, <1>1
  <2>2. path[2] = "reach_relay_door" /\ path[3] = "defeat_warden"
    <3>1. Len(path) - 1 = 2
      BY <2>1
    <3> QED
      BY <1>0, <2>1, <3>1
  <2> QED
    BY <2>1, <2>2
<1>2. CASE way = "stabilize"
  <2>1. /\ Len(path) = 4 /\ 2 \in DOMAIN path /\ 3 \in DOMAIN path /\ 4 \in DOMAIN path
        /\ i \in {2, 3, 4}
    BY <1>0, <1>2
  <2>2. /\ path[2] = "reach_relay_stabilizer" /\ path[3] = "reach_relay_door"
        /\ path[4] = "defeat_warden"
    BY <1>0, <1>2, <2>1
  <2> QED
    BY <2>1, <2>2
<1> QED
  BY <1>1, <1>2 DEF Routes

\* The path of a route that runs, and the way it has been walked.
LEMMA RouteRuns ==
    ASSUME TypeOK, StageInv, Routed
    PROVE  /\ route # None /\ route \in Runtimes /\ route.operation \in Operations
           /\ route.transitions \in Seq(Steps) /\ route.encounter \in Encounters
           /\ Selection \in Selections /\ Selection.route \in Routes
           /\ PathOf(Selection.route, ObjectivePath(Selection.route))
           /\ route.operation.terminal = None
           /\ stage \in {"Stabilizer", "Door", "Boss"} /\ ~cooperating
<1>1. route \in Runtimes /\ route # None /\ route.operation.phase = "Routed"
  BY DEF TypeOK, Routed
<1>2. /\ route.operation \in Operations /\ route.transitions \in Seq(Steps)
      /\ Selection \in Selections /\ route.encounter \in Encounters
  BY <1>1 DEF Runtimes, Operations, StageInv, Selection, Chosen
<1>3. Selection.route \in Routes
  BY <1>2 DEF Selections
<1>4. stage \in {"Stabilizer", "Door", "Boss"} /\ ~cooperating /\ route.operation.terminal = None
  BY <1>1 DEF StageInv, StagesOf, Over
<1> QED
  BY <1>1, <1>2, <1>3, <1>4, PathsOfRoutes

\* A stage further, an objective further.
LEMMA PathGoesOn ==
    ASSUME TypeOK, StageInv, PathInv, Routed, NEW next,
           (stage = "Stabilizer" /\ next = "Door") \/ (stage = "Door" /\ next = "Boss")
    PROVE  LET path   == ObjectivePath(Selection.route)
               longer == route.transitions
                            \o <<Completes(Sought[stage]), Activates(Sought[next])>>
           IN  /\ longer \in Seq(Steps)
               /\ \E i \in DOMAIN path : i > 1 /\ path[i] = Sought[next] /\ Walked(path, longer, i)
<1> DEFINE path == ObjectivePath(Selection.route)
           tr   == route.transitions
<1>1. PICK i \in DOMAIN path : i > 1 /\ path[i] = Sought[stage] /\ Walked(path, tr, i)
  BY DEF PathInv
<1>2. tr \in Seq(Steps) /\ Selection.route \in Routes /\ PathOf(Selection.route, path)
  BY RouteRuns
<1> HIDE DEF path, tr
<1>3. i + 1 \in DOMAIN path /\ path[i + 1] = Sought[next]
  BY <1>1, <1>2, NextObjectives DEF Sought
<1>4. /\ tr \o <<Completes(path[i]), Activates(path[i + 1])>> \in Seq(Steps)
      /\ Walked(path, tr \o <<Completes(path[i]), Activates(path[i + 1])>>, i + 1)
  BY <1>1, <1>2, <1>3, WalkExtends
<1>5. i + 1 > 1
  BY <1>1, <1>2 DEF PathOf
<1> QED
  BY <1>1, <1>3, <1>4, <1>5 DEF path, tr

\* A runtime from its parts.
Built(op, replay, tr, enc) ==
    [operation |-> op, replay |-> replay, transitions |-> tr, encounter |-> enc]

Assembled(rt, op, replay, tr, enc) ==
    /\ op \in Operations /\ replay \in Replays \cup {None}
    /\ tr \in Seq(Steps) /\ enc \in Encounters
    /\ rt = Built(op, replay, tr, enc)

IsBuilt(rt, op, replay, tr, enc) ==
    /\ rt \in Runtimes /\ rt # None
    /\ rt.operation = op /\ rt.replay = replay /\ rt.transitions = tr /\ rt.encounter = enc

\* A runtime put together from its parts has these parts.
LEMMA BuiltRuntime ==
    ASSUME NEW rt, NEW op, NEW replay, NEW tr, NEW enc, Assembled(rt, op, replay, tr, enc)
    PROVE  IsBuilt(rt, op, replay, tr, enc)
<1>1. rt \in Runtimes
  BY DEF Assembled, Built, Runtimes
<1>2. /\ rt.operation = op /\ rt.replay = replay /\ rt.transitions = tr /\ rt.encounter = enc
  BY DEF Assembled, Built
<1> QED
  BY <1>1, <1>2, AbsenceAssumption DEF IsBuilt

\* The parts of a runtime have their types.
LEMMA RuntimeParts ==
    ASSUME NEW rt \in Runtimes
    PROVE  /\ rt.operation \in Operations /\ rt.replay \in Replays \cup {None}
           /\ rt.transitions \in Seq(Steps) /\ rt.encounter \in Encounters
           /\ rt = Built(rt.operation, rt.replay, rt.transitions, rt.encounter)
  BY DEF Runtimes, Built

\* The phase that a stage tells.
LEMMA PhaseOfStage ==
    ASSUME TypeOK, StageInv, route # None
    PROVE  /\ stage = "Drone" => route.operation.phase = "Drone"
           /\ stage = "Stabilizer" => Routed
           /\ stage = "Door" => Routed \/ route.operation.phase = "ChoiceOpen" \/ cooperating
           /\ stage = "Boss" => Routed \/ route.operation.phase = "BaselineLocked"
<1> DEFINE phase == route.operation.phase
<1>1. route \in Runtimes
  BY DEF TypeOK
<1>2. phase \in Phases
  BY <1>1 DEF Runtimes, Operations
<1>3. stage \in StagesOf[phase] /\ (phase = "BaselineLocked" /\ stage = "Door" => cooperating)
  BY DEF StageInv
<1>4. Routed <=> phase = "Routed"
  BY DEF Routed
<1> HIDE DEF phase
<1> QED
  <2>1. CASE phase = "Drone"
    BY <1>3, <1>4, <2>1 DEF StagesOf, phase
  <2>2. CASE phase = "ChoiceOpen"
    BY <1>3, <1>4, <2>2 DEF StagesOf, phase
  <2>3. CASE phase = "BaselineLocked"
    BY <1>3, <1>4, <2>3 DEF StagesOf, phase
  <2>4. CASE phase = "Routed"
    BY <1>3, <1>4, <2>4 DEF StagesOf, phase
  <2>5. CASE phase \in {"Succeeded", "Failed"}
    BY <1>3, <1>4, <2>5 DEF StagesOf, phase
  <2> QED
    BY <1>2, <2>1, <2>2, <2>3, <2>4, <2>5 DEF Phases

\* At the stabilizer the next objective of the path becomes active.
LEMMA ReachStabilizerKeeps ==
    ASSUME SessionInv, NEW p \in Players, ReachStabilizer(p) PROVE SessionInv'
<1> DEFINE longer == route.transitions \o <<Completes("reach_relay_stabilizer"),
                                            Activates("reach_relay_door")>>
<1>0. /\ stage = "Stabilizer" /\ stage' = "Door"
      /\ route' = [route EXCEPT !.transitions = longer]
      /\ UNCHANGED <<members, capable, equipped, enemy, clock, db, cooperating, answers, told, fault>>
  BY DEF ReachStabilizer
<1>1. Routed
  <2>1. route # None
    BY <1>0 DEF SessionInv, StageInv
  <2> QED
    BY <1>0, <2>1, PhaseOfStage DEF SessionInv
<1>2. /\ route # None /\ route \in Runtimes /\ route.encounter \in Encounters
      /\ route.operation \in Operations /\ route.operation.phase = "Routed"
      /\ route.operation.terminal = None
  BY <1>1, RouteRuns DEF SessionInv, Routed
<1>3. /\ longer \in Seq(Steps)
      /\ LET path == ObjectivePath(Selection.route)
         IN  \E i \in DOMAIN path : i > 1 /\ path[i] = Sought["Door"] /\ Walked(path, longer, i)
  <2>1. /\ Sought["Stabilizer"] = "reach_relay_stabilizer"
        /\ Sought["Door"] = "reach_relay_door"
    BY DEF Sought
  <2>2. TypeOK /\ StageInv /\ PathInv
    BY DEF SessionInv
  <2>3. LET path  == ObjectivePath(Selection.route)
            other == route.transitions
                         \o <<Completes(Sought[stage]), Activates(Sought["Door"])>>
        IN  /\ other \in Seq(Steps)
            /\ \E i \in DOMAIN path :
                   i > 1 /\ path[i] = Sought["Door"] /\ Walked(path, other, i)
    BY <1>0, <1>1, <2>2, PathGoesOn
  <2> QED
    BY <1>0, <2>1, <2>3
<1> HIDE DEF longer
<1>4. route' = Built(route.operation, route.replay, longer, route.encounter)
  BY <1>0, <1>2, RuntimeParts DEF Runtimes, Built
<1>5. /\ route' \in Runtimes /\ route' # None /\ route'.operation = route.operation
      /\ route'.replay = route.replay /\ route'.transitions = longer
      /\ route'.encounter = route.encounter
  <2>1. Assembled(route', route.operation, route.replay, longer, route.encounter)
    BY <1>2, <1>3, <1>4, RuntimeParts DEF Assembled
  <2> QED
    BY <2>1, BuiltRuntime DEF IsBuilt
<1>6. TypeOK'
  BY <1>0, <1>5 DEF SessionInv, TypeOK, Stages
<1>7. StageInv'
  BY <1>0, <1>2, <1>5 DEF SessionInv, StageInv, StagesOf
<1>8. StorageInv'
  BY <1>0, <1>2, <1>5 DEF SessionInv, StorageInv, NothingStored, RewardedOnce
<1>9. ToldInv'
  BY <1>0, <1>2, <1>5 DEF SessionInv, ToldInv
<1>10. PathInv'
  BY <1>0, <1>3, <1>5 DEF PathInv, Selection
<1>11. WardenInv'
  BY <1>0, <1>2, <1>5 DEF SessionInv, WardenInv
<1> QED
  BY <1>6, <1>7, <1>8, <1>9, <1>10, <1>11 DEF SessionInv

\* At the door the Warden is spawned, in memory and in the evidence, and the path is at its
\* last objective.
LEMMA ReachDoorKeeps ==
    ASSUME SessionInv, NEW p \in Players, ReachDoor(p) PROVE SessionInv'
<1> DEFINE base   == WardenHealth(Cardinality(members))
           health == IF Selection = None THEN base ELSE ApplyHealthEffect(base, EffectOf(Selection))
<1>0. /\ p \in members /\ stage = "Door" /\ ~cooperating
      /\ \/ AppendFails
         \/ /\ stage' = "Boss" /\ enemy' = Enemy(health)
            /\ route' =
                 IF Selection = None THEN [route EXCEPT !.operation = LockBaseline(@)]
                 ELSE [route EXCEPT
                     !.transitions =
                         @ \o <<Completes("reach_relay_door"), Activates("defeat_warden")>>,
                     !.encounter.spawned   = TRUE,
                     !.encounter.base      = base,
                     !.encounter.effective = health,
                     !.encounter.remaining = health]
            /\ UNCHANGED <<members, capable, equipped, clock, db, cooperating, answers, told, fault>>
  BY DEF ReachDoor, Present
<1>1. /\ route # None /\ route \in Runtimes /\ TypeOK /\ StageInv /\ PathInv
      /\ members \subseteq Players /\ members # {}
      /\ Routed \/ route.operation.phase = "ChoiceOpen"
  BY <1>0, PhaseOfStage DEF SessionInv, TypeOK, StageInv
<1>2. base \in Nat /\ base >= 240
  BY <1>1, PlayersCount, EnemiesBegin
<1>3. /\ route.operation \in Operations /\ route.replay \in Replays \cup {None}
      /\ route.transitions \in Seq(Steps) /\ route.encounter \in Encounters
      /\ route.encounter.counters = 0
  BY <1>0, <1>1, RuntimeParts DEF SessionInv, WardenInv
<1>4. CASE AppendFails
  BY <1>4, AppendFailsKeeps
<1>5. CASE /\ Selection = None /\ stage' = "Boss" /\ enemy' = Enemy(base)
           /\ route' = [route EXCEPT !.operation = LockBaseline(@)]
           /\ UNCHANGED <<members, capable, equipped, clock, db, cooperating, answers, told, fault>>
  <2> DEFINE op == [route.operation EXCEPT !.phase = "BaselineLocked"]
  <2>1. route.operation.phase = "ChoiceOpen"
    BY <1>1, <1>5 DEF StageInv, Chosen, Routed, Selection
  <2>2. /\ op \in Operations /\ op.phase = "BaselineLocked" /\ op.selection = None
        /\ op.terminal = None /\ route.operation.terminal = None
    BY <1>1, <1>3, <1>5, <2>1 DEF Operations, Phases, StageInv, Over, Selection
  <2>3. LockBaseline(route.operation) = op
    BY <1>5, <2>1 DEF LockBaseline, Selection
  <2> HIDE DEF op, base
  <2>4. route' = [route EXCEPT !.operation = op]
    BY <1>5, <2>3
  <2>5. /\ route' \in Runtimes /\ route' # None /\ route'.operation = op
        /\ route'.encounter = route.encounter
    BY <1>1, <2>2, <2>4, OperationUpdate, AbsenceAssumption
  <2>6. enemy' \in Enemies /\ enemy' # None /\ enemy'.counters = 0 /\ enemy'.health # 0
    BY <1>2, <1>5, AbsenceAssumption DEF Enemy, Enemies
  <2>7. TypeOK'
    BY <1>1, <1>5, <2>5, <2>6 DEF TypeOK, Stages
  <2>8. StageInv'
    BY <1>0, <1>1, <1>5, <2>2, <2>5, <2>6 DEF StageInv, StagesOf, Chosen, Over
  <2>9. StorageInv'
    BY <1>0, <1>1, <1>5, <2>2, <2>5 DEF SessionInv, StorageInv, NothingStored, RewardedOnce, Selection
  <2>10. ToldInv'
    BY <1>5, <2>2 DEF SessionInv, ToldInv
  <2>11. PathInv'
    BY <2>2, <2>5 DEF PathInv, Routed
  <2>12. WardenInv'
    BY <1>3, <1>5, <2>5, <2>6 DEF WardenInv
  <2> QED
    BY <2>7, <2>8, <2>9, <2>10, <2>11, <2>12 DEF SessionInv
<1>6. CASE /\ Selection # None /\ stage' = "Boss" /\ enemy' = Enemy(health)
           /\ route' = [route EXCEPT
                     !.transitions =
                         @ \o <<Completes("reach_relay_door"), Activates("defeat_warden")>>,
                     !.encounter.spawned   = TRUE,
                     !.encounter.base      = base,
                     !.encounter.effective = health,
                     !.encounter.remaining = health]
           /\ UNCHANGED <<members, capable, equipped, clock, db, cooperating, answers, told, fault>>
  <2> DEFINE longer == route.transitions \o <<Completes("reach_relay_door"),
                                              Activates("defeat_warden")>>
             enc == [route.encounter EXCEPT !.spawned = TRUE, !.base = base,
                                            !.effective = health, !.remaining = health]
  <2>1. Routed
    <3>1. route.operation.selection # None
      BY <1>6 DEF Selection
    <3> QED
      BY <1>1, <3>1 DEF StageInv, Chosen
  <2>2. route.operation.phase = "Routed" /\ route.operation.terminal = None /\ Selection \in Selections
    BY <1>1, <2>1, RouteRuns DEF Routed
  <2>3. health \in Nat /\ health > 0
    <3> HIDE DEF base
    <3>1. /\ ApplyHealthEffect(base, EffectOf(Selection)) \in Nat
          /\ ApplyHealthEffect(base, EffectOf(Selection)) >= base
      BY <1>2, <2>2, EffectAdds
    <3>2. health = ApplyHealthEffect(base, EffectOf(Selection))
      BY <1>6
    <3> HIDE DEF health
    <3> QED
      BY <1>2, <3>1, <3>2
  <2> HIDE DEF base, health
  <2>4. enc \in Encounters /\ enc.counters = 0
    <3> DEFINE e1 == [route.encounter EXCEPT !.spawned = TRUE]
               e2 == [e1 EXCEPT !.base = base]
               e3 == [e2 EXCEPT !.effective = health]
    <3>1. e1 \in Encounters /\ e1.counters = 0
      BY <1>3 DEF Encounters
    <3> HIDE DEF e1
    <3>2. e2 \in Encounters /\ e2.counters = 0
      BY <1>2, <3>1 DEF Encounters
    <3> HIDE DEF e2
    <3>3. e3 \in Encounters /\ e3.counters = 0
      BY <2>3, <3>2 DEF Encounters
    <3> HIDE DEF e3
    <3>4. /\ [e3 EXCEPT !.remaining = health] \in Encounters
          /\ [e3 EXCEPT !.remaining = health].counters = 0
      BY <2>3, <3>3 DEF Encounters
    <3>5. enc = [e3 EXCEPT !.remaining = health]
      BY DEF e1, e2, e3
    <3> QED
      BY <3>4, <3>5
  <2>5. /\ longer \in Seq(Steps)
        /\ LET path == ObjectivePath(Selection.route)
           IN  \E i \in DOMAIN path : i > 1 /\ path[i] = Sought["Boss"] /\ Walked(path, longer, i)
    <3>1. /\ Sought["Door"] = "reach_relay_door" /\ Sought["Boss"] = "defeat_warden"
      BY DEF Sought
    <3>2. LET path  == ObjectivePath(Selection.route)
              other == route.transitions
                           \o <<Completes(Sought[stage]), Activates(Sought["Boss"])>>
          IN  /\ other \in Seq(Steps)
              /\ \E i \in DOMAIN path :
                     i > 1 /\ path[i] = Sought["Boss"] /\ Walked(path, other, i)
      BY <1>0, <1>1, <2>1, PathGoesOn
    <3> QED
      BY <1>0, <3>1, <3>2
  <2> HIDE DEF longer
  <2>6. route' = Built(route.operation, route.replay, longer, enc)
    BY <1>1, <1>6 DEF Runtimes, Built, longer
  <2> HIDE DEF enc
  <2>7. IsBuilt(route', route.operation, route.replay, longer, enc)
    <3>1. Assembled(route', route.operation, route.replay, longer, enc)
      BY <1>3, <2>4, <2>5, <2>6 DEF Assembled
    <3> QED
      BY <3>1, BuiltRuntime
  <2>8. enemy' \in Enemies /\ enemy' # None /\ enemy'.counters = 0 /\ enemy'.health # 0
    BY <1>6, <2>3, AbsenceAssumption DEF Enemy, Enemies
  <2>9. TypeOK'
    BY <1>1, <1>6, <2>7, <2>8 DEF TypeOK, Stages, IsBuilt
  <2>10. StageInv'
    BY <1>0, <1>1, <1>6, <2>2, <2>7, <2>8 DEF StageInv, StagesOf, IsBuilt
  <2>11. StorageInv'
    BY <1>0, <1>1, <1>6, <2>7 DEF SessionInv, StorageInv, NothingStored, RewardedOnce, IsBuilt, Selection
  <2>12. ToldInv'
    BY <1>1, <1>6, <2>7 DEF SessionInv, ToldInv, IsBuilt
  <2>13. PathInv'
    BY <1>6, <2>5, <2>7 DEF PathInv, Selection, IsBuilt
  <2>14. WardenInv'
    BY <1>6, <2>4, <2>7, <2>8 DEF WardenInv, IsBuilt
  <2> QED
    BY <2>9, <2>10, <2>11, <2>12, <2>13, <2>14 DEF SessionInv
<1> QED
  BY <1>0, <1>4, <1>5, <1>6

-----------------------------------------------------------------------------
(* Blows that leave the Warden standing *)

\* The drone that falls opens the choice.
LEMMA HitDroneKeeps ==
    ASSUME SessionInv, NEW p \in Players, HitDrone(p) PROVE SessionInv'
<1> DEFINE health == Struck(enemy.health, equipped[p])
<1>0. /\ stage = "Drone" /\ p \in members
      /\ \/ /\ health > 0
            /\ enemy' = [enemy EXCEPT !.health = health, !.accepted = @ + 1]
            /\ UNCHANGED <<stage, route, db, members, capable, equipped, clock,
                           cooperating, answers, told, fault>>
         \/ health = 0 /\ AppendFails
         \/ /\ health = 0 /\ stage' = "Door" /\ enemy' = None
            /\ route' = [route EXCEPT !.operation = OpenChoice(@),
                                      !.encounter.droneDefeated = TRUE]
            /\ UNCHANGED <<db, members, capable, equipped, clock, cooperating,
                           answers, told, fault>>
  BY DEF HitDrone, Present
<1>1. /\ route # None /\ route \in Runtimes /\ TypeOK /\ StageInv
      /\ enemy # None /\ enemy \in Enemies /\ route.operation.phase = "Drone"
      /\ route.operation.selection = None /\ route.operation.terminal = None
  <2>1. route # None /\ TypeOK /\ StageInv /\ enemy # None
    BY <1>0 DEF SessionInv, StageInv
  <2>2. route.operation.phase = "Drone"
    BY <1>0, <2>1, PhaseOfStage
  <2> QED
    BY <2>1, <2>2 DEF TypeOK, StageInv, Chosen, Over
<1>2. health \in Nat
  BY <1>1, BlowTakes DEF TypeOK, Enemies
<1> HIDE DEF health
<1>3. CASE /\ enemy' = [enemy EXCEPT !.health = health, !.accepted = @ + 1]
           /\ UNCHANGED <<stage, route, db, members, capable, equipped, clock,
                          cooperating, answers, told, fault>>
  <2> DEFINE e1 == [enemy EXCEPT !.health = health]
  <2>a. e1 \in Enemies
    BY <1>1, <1>2 DEF Enemies
  <2> HIDE DEF e1
  <2>b. [e1 EXCEPT !.accepted = @ + 1] \in Enemies
    BY <2>a DEF Enemies
  <2>c. enemy' = [e1 EXCEPT !.accepted = @ + 1]
    BY <1>1, <1>3 DEF e1, Enemies
  <2>1. enemy' \in Enemies /\ enemy' # None
    BY <2>b, <2>c, AbsenceAssumption
  <2>2. TypeOK'
    BY <1>1, <1>3, <2>1 DEF TypeOK
  <2>3. StageInv' /\ ToldInv' /\ PathInv'
    BY <1>1, <1>3, <2>1 DEF SessionInv, StageInv, ToldInv, PathInv, Routed, Selection
  <2>4. StorageInv'
    BY <1>3 DEF SessionInv, StorageInv, NothingStored, RewardedOnce
  <2>5. WardenInv'
    BY <1>0, <1>3 DEF SessionInv, WardenInv
  <2> QED
    BY <2>2, <2>3, <2>4, <2>5 DEF SessionInv
<1>4. CASE AppendFails
  BY <1>4, AppendFailsKeeps
<1>5. CASE /\ stage' = "Door" /\ enemy' = None
           /\ route' = [route EXCEPT !.operation = OpenChoice(@),
                                     !.encounter.droneDefeated = TRUE]
           /\ UNCHANGED <<db, members, capable, equipped, clock, cooperating,
                          answers, told, fault>>
  <2> DEFINE op  == [route.operation EXCEPT !.phase = "ChoiceOpen"]
             enc == [route.encounter EXCEPT !.droneDefeated = TRUE]
  <2>1. /\ route.operation \in Operations /\ route.replay \in Replays \cup {None}
        /\ route.transitions \in Seq(Steps) /\ route.encounter \in Encounters
        /\ route.encounter.counters = 0
    BY <1>0, <1>1, RuntimeParts DEF SessionInv, WardenInv
  <2>2. op \in Operations /\ op.phase = "ChoiceOpen" /\ op.selection = None /\ op.terminal = None
    BY <1>1, <2>1 DEF Operations, Phases
  <2>3. OpenChoice(route.operation) = op
    BY <1>1 DEF OpenChoice
  <2>4. enc \in Encounters /\ enc.counters = 0
    BY <2>1 DEF Encounters
  <2> HIDE DEF op
  <2>5. route' = Built(op, route.replay, route.transitions, enc)
    BY <1>1, <1>5, <2>3 DEF Runtimes, Built
  <2> HIDE DEF enc
  <2>6. IsBuilt(route', op, route.replay, route.transitions, enc)
    <3>1. Assembled(route', op, route.replay, route.transitions, enc)
      BY <2>1, <2>2, <2>4, <2>5 DEF Assembled
    <3> QED
      BY <3>1, BuiltRuntime
  <2>7. TypeOK'
    BY <1>1, <1>5, <2>6 DEF TypeOK, Stages, IsBuilt
  <2>8. StageInv'
    BY <1>0, <1>1, <1>5, <2>2, <2>6 DEF StageInv, StagesOf, Chosen, Over, IsBuilt
  <2>9. StorageInv'
    BY <1>0, <1>1, <1>5, <2>2, <2>6 DEF SessionInv, StorageInv, NothingStored, RewardedOnce, IsBuilt
  <2>10. ToldInv'
    BY <1>1, <1>5 DEF SessionInv, ToldInv
  <2>11. PathInv'
    BY <2>2, <2>6 DEF PathInv, Routed, IsBuilt
  <2>12. WardenInv'
    BY <1>5, <2>4, <2>6 DEF WardenInv, IsBuilt
  <2> QED
    BY <2>7, <2>8, <2>9, <2>10, <2>11, <2>12 DEF SessionInv
<1> QED
  BY <1>0, <1>3, <1>4, <1>5

\* What a counted hit makes of the evidence.
LEMMA HitIsCounted ==
    ASSUME NEW health \in Nat, route \in Runtimes
    PROVE  /\ HitCounted(health) \in Encounters
           /\ HitCounted(health).counters = route.encounter.counters
<1> DEFINE e1 == [route.encounter EXCEPT !.hits = @ + 1]
<1>1. route.encounter \in Encounters
  BY RuntimeParts
<1>2. e1 \in Encounters /\ e1.counters = route.encounter.counters
  BY <1>1 DEF Encounters
<1> HIDE DEF e1
<1>3. /\ [e1 EXCEPT !.remaining = health] \in Encounters
      /\ [e1 EXCEPT !.remaining = health].counters = e1.counters
  BY <1>2 DEF Encounters
<1>4. HitCounted(health) = [e1 EXCEPT !.remaining = health]
  BY DEF HitCounted, e1
<1> QED
  BY <1>2, <1>3, <1>4

\* A counterattack keeps the encounter in its type and counts one more.
LEMMA CounterIsCounted ==
    ASSUME NEW e \in Encounters, e.counters < 2, Selection \in Selections \cup {None}
    PROVE  Countered(e) \in Encounters /\ Countered(e).counters = e.counters + 1
<1> DEFINE more == IF Selection = None THEN WardenDamage ELSE EffectOf(Selection).counter
           e1   == [e EXCEPT !.counters = @ + 1]
<1>1. more \in Nat
  <2>1. Selection \in Selections => EffectOf(Selection).counter \in {10, 15, 20}
    BY EffectsOfEvents
  <2> QED
    BY <2>1 DEF WardenDamage
<1> HIDE DEF more
<1>2. e1 \in Encounters /\ e1.counters = e.counters + 1
  BY DEF Encounters
<1> HIDE DEF e1
<1>3. /\ [e1 EXCEPT !.hostile = @ + more] \in Encounters
      /\ [e1 EXCEPT !.hostile = @ + more].counters = e1.counters
  BY <1>1, <1>2 DEF Encounters
<1>4. Countered(e) = [e1 EXCEPT !.hostile = @ + more]
  BY DEF Countered, e1, more
<1> QED
  BY <1>2, <1>3, <1>4

\* A blow the Warden survives is counted, and so is its counterattack.
LEMMA HitWardenKeeps ==
    ASSUME SessionInv, NEW p \in Players, HitWarden(p) PROVE SessionInv'
<1> DEFINE health == Struck(enemy.health, equipped[p])
           back   == StrikesBack(enemy)
           more   == IF back THEN 1 ELSE 0
           enc    == IF back THEN Countered(HitCounted(health)) ELSE HitCounted(health)
<1>0. /\ stage = "Boss" /\ p \in members /\ health > 0
      /\ enemy' = [health |-> health, accepted |-> enemy.accepted + 1,
                   counters |-> enemy.counters + more]
      /\ route' = [route EXCEPT !.encounter = enc]
      /\ UNCHANGED <<stage, db, members, capable, equipped, clock, cooperating,
                     answers, told, fault>>
  BY DEF HitWarden, Present
<1>1. /\ route # None /\ route \in Runtimes /\ TypeOK /\ StageInv
      /\ enemy # None /\ enemy \in Enemies /\ route.operation \in Operations
      /\ enemy.counters = route.encounter.counters
  <2>1. route # None /\ TypeOK /\ StageInv /\ enemy # None
    BY <1>0 DEF SessionInv, StageInv
  <2> QED
    BY <1>0, <2>1 DEF SessionInv, TypeOK, WardenInv, Runtimes
<1>2. health \in Nat
  BY <1>1, BlowTakes DEF TypeOK, Enemies
<1>3. Selection \in Selections \cup {None}
  BY <1>1 DEF Selection, Operations
<1>4. back => enemy.counters < 2
  BY DEF StrikesBack
<1> HIDE DEF health, back
<1>5. enc \in Encounters /\ enc.counters = enemy.counters + more
  <2>1. HitCounted(health) \in Encounters /\ HitCounted(health).counters = enemy.counters
    BY <1>1, <1>2, HitIsCounted
  <2>2. enemy.counters \in Nat
    BY <1>1 DEF Enemies
  <2>3. CASE back
    BY <1>3, <1>4, <2>1, <2>3, CounterIsCounted
  <2>4. CASE ~back
    BY <2>1, <2>2, <2>4
  <2> QED
    BY <2>3, <2>4
<1>6. enemy.counters + more \in 0 .. 2
  BY <1>1, <1>4 DEF Enemies
<1> HIDE DEF enc, more
<1>7. enemy' \in Enemies /\ enemy' # None /\ enemy'.health # 0 /\ enemy'.counters = enc.counters
  <2>1. enemy' \in Enemies
    BY <1>0, <1>1, <1>2, <1>6 DEF Enemies
  <2> QED
    BY <1>0, <1>2, <1>5, <2>1, AbsenceAssumption
<1>8. route' = Built(route.operation, route.replay, route.transitions, enc)
  BY <1>0, <1>1 DEF Runtimes, Built
<1>9. IsBuilt(route', route.operation, route.replay, route.transitions, enc)
  <2>1. Assembled(route', route.operation, route.replay, route.transitions, enc)
    BY <1>1, <1>5, <1>8, RuntimeParts DEF Assembled
  <2> QED
    BY <2>1, BuiltRuntime
<1>10. TypeOK'
  BY <1>0, <1>1, <1>7, <1>9 DEF TypeOK, IsBuilt
<1>11. StageInv'
  BY <1>0, <1>1, <1>7, <1>9 DEF StageInv, IsBuilt
<1>12. StorageInv'
  BY <1>0, <1>1, <1>9 DEF SessionInv, StorageInv, NothingStored, RewardedOnce, IsBuilt
<1>13. ToldInv'
  BY <1>0, <1>1, <1>9 DEF SessionInv, ToldInv, IsBuilt
<1>14. PathInv'
  <2>1. /\ Routed' => Routed
        /\ Selection' = Selection /\ stage' = stage /\ route'.transitions = route.transitions
    BY <1>0, <1>1, <1>9 DEF Routed, Selection, IsBuilt
  <2> QED
    BY <2>1 DEF SessionInv, PathInv
<1>15. WardenInv'
  BY <1>0, <1>7, <1>9 DEF WardenInv, IsBuilt
<1> QED
  BY <1>10, <1>11, <1>12, <1>13, <1>14, <1>15 DEF SessionInv

-----------------------------------------------------------------------------
(* The end of a route *)

\* The end of the running operation, as it is about to be stored.
Ends(op, outcome, elapsed) ==
    /\ outcome \in {"Succeeded", "FailedTimeout"} /\ elapsed \in 0 .. MaxClock
    /\ op # None /\ op = Finish(route.operation, outcome, elapsed)

\* What the end consists of.
LEMMA EndOfOperation ==
    ASSUME SessionInv, Routed, NEW op, NEW outcome, NEW elapsed, Ends(op, outcome, elapsed)
    PROVE  /\ op \in Operations
           /\ op.phase = (IF outcome = "Succeeded" THEN "Succeeded" ELSE "Failed")
           /\ op.selection = Selection /\ op.selection # None
           /\ op.terminal \in Summaries /\ op.terminal # None
           /\ op.terminal.outcome = outcome /\ op.terminal.elapsed = elapsed
           /\ WithinBudget(outcome, elapsed)
<1> DEFINE terminal == Summary(route.operation.selection, Players, outcome, elapsed)
           phase    == IF outcome = "Succeeded" THEN "Succeeded" ELSE "Failed"
<1>1. /\ route.operation \in Operations /\ Selection \in Selections
  BY RouteRuns DEF SessionInv
<1>2. /\ WithinBudget(outcome, elapsed)
      /\ op = [route.operation EXCEPT !.phase = phase, !.terminal = terminal]
  BY DEF Ends, Finish
<1>3. terminal \in Summaries /\ terminal.outcome = outcome /\ terminal.elapsed = elapsed
  BY <1>1 DEF Ends, Summary, Summaries, Selection
<1>4. phase \in Phases
  BY DEF Phases
<1> HIDE DEF terminal
<1>5. /\ op \in Operations /\ op.phase = phase /\ op.selection = route.operation.selection
      /\ op.terminal = terminal
  BY <1>1, <1>2, <1>3, <1>4 DEF Operations
<1> QED
  BY <1>1, <1>2, <1>3, <1>5, AbsenceAssumption DEF Selection

\* The first end of a route is stored and rewarded, a repeated one changes nothing.
LEMMA FinishStores ==
    ASSUME SessionInv, Routed, NEW op, NEW outcome, NEW elapsed, Ends(op, outcome, elapsed),
           op.terminal = StoredSummary(outcome, elapsed), Finished(outcome, elapsed) # None
    PROVE  LET after == Finished(outcome, elapsed)
           IN  /\ Sound(after, answers)
               /\ after.route # None /\ after.route.replay = db.route.replay
               /\ after.route.terminal # None /\ after.cooperation = db.cooperation
               /\ db.route.terminal = None => after.route.terminal = op.terminal
               /\ db.route.terminal # None => after = db
<1> DEFINE after == Finished(outcome, elapsed)
<1>1. /\ db \in Databases /\ db.route # None /\ db.route \in Rows /\ Sound(db, answers)
      /\ op.terminal \in Summaries /\ op.terminal # None /\ outcome \in {"Succeeded", "FailedTimeout"}
      /\ op.terminal.outcome = outcome /\ op.terminal.elapsed = elapsed
  <2>1. db \in Databases /\ db.route # None
    BY RouteRuns, AbsenceAssumption DEF SessionInv, TypeOK, StorageInv, Selection
  <2>2. db.route \in Rows
    BY <2>1 DEF Databases
  <2> QED
    BY <2>1, <2>2, EndOfOperation, SessionIsSound DEF Ends
<1>2. CASE db.route.terminal = None
  <2> DEFINE row  == [db.route EXCEPT !.terminal = op.terminal]
             paid == Rewarded(db.route, outcome)
  <2>1. /\ row \in Rows /\ row.replay = db.route.replay /\ row.terminal = op.terminal
    BY <1>1 DEF Rows
  <2>2. \A p \in Players : db.granted[p] = 0
    BY <1>1, <1>2 DEF SessionInv, StorageInv, RewardedOnce
  <2>3. paid \in [Players -> Nat]
    BY <1>1, <2>2 DEF Rewarded, Databases
  <2>4. \A p \in Players :
            paid[p] = IF outcome = "Succeeded" /\ p \in DOMAIN db.route.replay.weapons THEN 1 ELSE 0
    BY <2>2 DEF Rewarded
  <2> HIDE DEF row, paid
  <2>5. after = [route |-> row, cooperation |-> db.cooperation, granted |-> paid]
    <3>1. after = [db EXCEPT !.route.terminal = op.terminal, !.granted = paid]
      BY <1>2 DEF Finished, paid
    <3>2. [db EXCEPT !.route.terminal = op.terminal] = [db EXCEPT !.route = row]
      BY DEF row
    <3>3. after = [[db EXCEPT !.route = row] EXCEPT !.granted = paid]
      BY <3>1, <3>2
    <3> HIDE DEF after
    <3> QED
      BY <1>1, <3>3 DEF Databases
  <2> HIDE DEF after
  <2>6. after \in Databases
    BY <1>1, <2>1, <2>3, <2>5 DEF Databases
  <2>7. /\ after.route = row /\ after.cooperation = db.cooperation /\ after.granted = paid
        /\ row # None
    BY <2>1, <2>5, AbsenceAssumption
  <2>8. Fair(after)
    BY <1>1, <2>1, <2>4, <2>7 DEF Fair
  <2>9. Sound(after, answers)
    BY <1>1, <2>1, <2>6, <2>7, <2>8 DEF Sound
  <2> QED
    BY <1>1, <1>2, <2>1, <2>7, <2>9 DEF after
<1>3. CASE db.route.terminal # None
  <2>1. after = db
    BY <1>3 DEF Finished
  <2> HIDE DEF after
  <2> QED
    BY <1>1, <1>3, <2>1 DEF after
<1> QED
  BY <1>2, <1>3

\* The end has been stored: it is installed where the leader is there to be told.
LEMMA EndCommitted ==
    ASSUME SessionInv, Routed, NEW op, NEW outcome, NEW elapsed, Ends(op, outcome, elapsed),
           op.terminal = StoredSummary(outcome, elapsed), Finished(outcome, elapsed) # None,
           NEW tr \in Seq(Steps), NEW enc \in Encounters,
           enc.counters = route.encounter.counters,
           NEW last, last = (IF outcome = "Succeeded" THEN "Complete" ELSE "Failed"),
           outcome = "Succeeded" => stage = "Boss",
           db' = Finished(outcome, elapsed), Ended(op, tr, enc, last), clock' = elapsed,
           outcome = "Succeeded" \/ clock' = clock, EndedElsewhere
    PROVE  SessionInv'
<1>1. /\ route # None /\ route \in Runtimes /\ route.operation \in Operations
      /\ route.replay \in Replays \cup {None} /\ route.transitions \in Seq(Steps)
      /\ Selection \in Selections
      /\ route.operation.phase = "Routed" /\ route.operation.terminal = None
      /\ stage \in {"Stabilizer", "Door", "Boss"} /\ ~cooperating /\ TypeOK /\ StageInv
  BY RouteRuns, RuntimeParts DEF SessionInv, Routed
<1>2. /\ op \in Operations
      /\ op.phase = (IF outcome = "Succeeded" THEN "Succeeded" ELSE "Failed")
      /\ op.selection = Selection /\ op.selection # None /\ op.terminal # None
  BY EndOfOperation
<1>3. /\ Sound(db', answers)
      /\ db'.route # None /\ db'.route.replay = db.route.replay
      /\ db'.route.terminal # None /\ db'.cooperation = db.cooperation
      /\ db.route.terminal = None => db'.route.terminal = op.terminal
  BY FinishStores
<1>4. /\ members' = members /\ capable' = capable /\ equipped' = equipped
      /\ cooperating' = cooperating /\ answers' = answers /\ fault' = fault
  BY DEF EndedElsewhere
<1>5. db' \in Databases /\ RewardedOnce' /\ ~db'.cooperation /\ ~db.cooperation /\ db.route # None
      /\ \A choice \in answers' : db'.route # None /\ db'.route.replay.selection = choice
  <2>1. ~db.cooperation /\ db.route # None
    BY <1>1, <1>2 DEF SessionInv, StorageInv, Selection
  <2> QED
    BY <1>3, <1>4, <2>1 DEF Sound, Fair, RewardedOnce
<1>6. route.replay = db.route.replay /\ route.replay.selection = Selection
  BY <1>1, <1>2 DEF SessionInv, StorageInv, Selection
<1>7. outcome \in {"Succeeded", "FailedTimeout"} /\ clock' \in 0 .. MaxClock
  BY DEF Ends
<1>8. CASE Leader \in members
  <2>1. /\ route' = [route EXCEPT !.operation = op, !.transitions = tr, !.encounter = enc]
        /\ stage' = last /\ enemy' = None /\ told' = members \cap capable
    BY <1>8 DEF Ended, ToldCapable
  <2>2. db'.route.terminal = op.terminal
    BY <1>1, <1>3, <1>5, <1>8 DEF SessionInv, ToldInv
  <2>3. route' = Built(op, route.replay, tr, enc)
    BY <1>1, <2>1 DEF Runtimes, Built
  <2>4. IsBuilt(route', op, route.replay, tr, enc)
    <3>1. Assembled(route', op, route.replay, tr, enc)
      BY <1>1, <1>2, <2>3 DEF Assembled
    <3> QED
      BY <3>1, BuiltRuntime
  <2>5. stage' \in {"Complete", "Failed"} /\ stage' \in StagesOf[op.phase]
        /\ op.phase \in {"Succeeded", "Failed"}
    BY <1>2, <1>7, <2>1 DEF StagesOf
  <2>6. TypeOK'
    BY <1>1, <1>4, <1>5, <1>7, <2>1, <2>4, <2>5 DEF TypeOK, Stages, IsBuilt
  <2>7. StageInv'
    BY <1>1, <1>2, <1>4, <2>1, <2>4, <2>5 DEF StageInv, Chosen, Over, IsBuilt
  <2>8. StorageInv'
    BY <1>1, <1>2, <1>3, <1>4, <1>5, <1>6, <2>2, <2>4 DEF StorageInv, IsBuilt
  <2>9. ToldInv'
    BY <1>2, <1>4, <2>1, <2>4 DEF ToldInv, IsBuilt
  <2>10. PathInv'
    BY <2>4, <2>5 DEF PathInv, Routed, IsBuilt
  <2>11. WardenInv'
    BY <2>5 DEF WardenInv
  <2> QED
    BY <2>6, <2>7, <2>8, <2>9, <2>10, <2>11 DEF SessionInv
<1>9. CASE Leader \notin members
  <2>1. /\ route' = [route EXCEPT !.encounter = enc]
        /\ enemy' = IF last = "Complete" THEN [enemy EXCEPT !.health = 0] ELSE enemy
        /\ stage' = stage /\ told' = told
    BY <1>9 DEF Ended
  <2>2. route' = Built(route.operation, route.replay, route.transitions, enc)
    BY <1>1, <2>1 DEF Runtimes, Built
  <2>3. IsBuilt(route', route.operation, route.replay, route.transitions, enc)
    <3>1. Assembled(route', route.operation, route.replay, route.transitions, enc)
      BY <1>1, <2>2 DEF Assembled
    <3> QED
      BY <3>1, BuiltRuntime
  <2>4. /\ enemy' \in Enemies \cup {None} /\ (enemy' # None <=> enemy # None)
        /\ enemy # None => enemy'.counters = enemy.counters
    <3>1. CASE outcome = "Succeeded"
      <4>1. enemy # None /\ enemy \in Enemies /\ enemy' = [enemy EXCEPT !.health = 0]
        BY <1>1, <2>1, <3>1 DEF TypeOK, StageInv
      <4>2. enemy' \in Enemies /\ enemy'.counters = enemy.counters
        BY <4>1 DEF Enemies
      <4> QED
        BY <4>1, <4>2, AbsenceAssumption
    <3>2. CASE outcome # "Succeeded"
      BY <1>1, <2>1, <3>2 DEF TypeOK
    <3> QED
      BY <3>1, <3>2
  <2>5. TypeOK'
    BY <1>1, <1>4, <1>5, <1>7, <2>1, <2>3, <2>4 DEF TypeOK, IsBuilt
  <2>6. StageInv'
    BY <1>1, <1>4, <2>1, <2>3, <2>4 DEF StageInv, IsBuilt
  <2>7. StorageInv'
    BY <1>1, <1>2, <1>3, <1>4, <1>5, <1>6, <2>3 DEF StorageInv, IsBuilt, Selection
  <2>8. ToldInv'
    BY <1>4, <1>9 DEF ToldInv
  <2>9. PathInv'
    <3>1. /\ Routed' => Routed
          /\ Selection' = Selection /\ stage' = stage /\ route'.transitions = route.transitions
      BY <1>1, <2>1, <2>3 DEF Routed, Selection, IsBuilt
    <3> QED
      BY <3>1 DEF SessionInv, PathInv
  <2>10. WardenInv'
    <3>1. stage' = stage /\ route'.encounter.counters = route.encounter.counters
      BY <2>1, <2>3 DEF IsBuilt
    <3>2. Routed' /\ Leader \notin members'
      BY <1>1, <1>4, <1>9, <2>3 DEF Routed, IsBuilt
    <3>3. stage = "Boss" => enemy # None
      BY <1>1 DEF StageInv
    <3> QED
      BY <1>1, <2>4, <3>1, <3>2, <3>3 DEF SessionInv, WardenInv
  <2> QED
    BY <2>5, <2>6, <2>7, <2>8, <2>9, <2>10 DEF SessionInv
<1> QED
  BY <1>8, <1>9

\* Where the end is not stored, or its acknowledgement lost, the session is aborted.
LEMMA EndAborted ==
    ASSUME SessionInv, Routed, NEW op, NEW outcome, NEW elapsed, Ends(op, outcome, elapsed),
           NEW reason \in Faults, Abort(reason),
           \/ db' = db
           \/ /\ op.terminal = StoredSummary(outcome, elapsed)
              /\ Finished(outcome, elapsed) # None
              /\ db' = Finished(outcome, elapsed)
    PROVE  SessionInv'
<1>1. Sound(db', answers)
  BY SessionIsSound, FinishStores
<1> QED
  BY <1>1, AbortKeeps

\* A blow after the deadline leaves the Warden dead and the route running.
LEMMA LateBlowKeeps ==
    ASSUME SessionInv, Routed, stage = "Boss", NEW enc \in Encounters,
           enc.counters = route.encounter.counters, NEW elapsed \in 0 .. MaxClock,
           Finish(route.operation, "Succeeded", elapsed) = None,
           CompleteRouted(enc, elapsed)
    PROVE  SessionInv'
<1>1. /\ route # None /\ route \in Runtimes /\ route.operation \in Operations
      /\ route.operation.phase = "Routed" /\ TypeOK /\ StageInv
      /\ enemy # None /\ enemy \in Enemies
      /\ route.replay \in Replays \cup {None} /\ route.transitions \in Seq(Steps)
  <2>1. enemy # None /\ enemy \in Enemies
    BY DEF SessionInv, StageInv, TypeOK
  <2> QED
    BY <2>1, RouteRuns, RuntimeParts DEF SessionInv, Routed
<1>2. /\ route' = [route EXCEPT !.encounter = enc]
      /\ enemy' = [enemy EXCEPT !.health = 0] /\ clock' = elapsed
      /\ UNCHANGED <<stage, told, db, members, capable, equipped, cooperating, answers, fault>>
  BY DEF CompleteRouted, EndedElsewhere
<1>3. clock' > Budget
  <2>1. ~WithinBudget("Succeeded", elapsed)
    <3> DEFINE op == [route.operation EXCEPT !.phase    = "Succeeded",
                         !.terminal = Summary(route.operation.selection, Players, "Succeeded", elapsed)]
    <3>1. SUFFICES ASSUME WithinBudget("Succeeded", elapsed) PROVE FALSE
      OBVIOUS
    <3>2. op = None
      BY <1>1, <3>1 DEF Finish
    <3>3. Summary(route.operation.selection, Players, "Succeeded", elapsed) \in Summaries
      BY RouteRuns DEF SessionInv, Summary, Summaries, Selection
    <3> HIDE DEF Summary
    <3>4. op \in Operations
      BY <1>1, <3>3 DEF Operations, Phases
    <3> QED
      BY <3>2, <3>4, AbsenceAssumption
  <2> QED
    BY <1>2, <2>1, RouteAssumption, ClockAssumption DEF WithinBudget
<1>4. enemy' \in Enemies /\ enemy' # None /\ enemy'.counters = enemy.counters
  <2>1. enemy' \in Enemies /\ enemy'.counters = enemy.counters
    BY <1>1, <1>2 DEF Enemies
  <2> QED
    BY <2>1, AbsenceAssumption
<1>5. IsBuilt(route', route.operation, route.replay, route.transitions, enc)
  <2>1. route' = Built(route.operation, route.replay, route.transitions, enc)
    BY <1>1, <1>2 DEF Runtimes, Built
  <2>2. Assembled(route', route.operation, route.replay, route.transitions, enc)
    BY <1>1, <2>1 DEF Assembled
  <2> QED
    BY <2>2, BuiltRuntime
<1>6. TypeOK'
  BY <1>1, <1>2, <1>4, <1>5 DEF TypeOK, IsBuilt
<1>7. StageInv'
  BY <1>1, <1>2, <1>4, <1>5 DEF StageInv, IsBuilt
<1>8. StorageInv'
  BY <1>1, <1>2, <1>5 DEF SessionInv, StorageInv, NothingStored, RewardedOnce, IsBuilt
<1>9. ToldInv'
  BY <1>1, <1>2, <1>5 DEF SessionInv, ToldInv, IsBuilt
<1>10. PathInv'
  <2>1. /\ Routed' => Routed
        /\ Selection' = Selection /\ stage' = stage /\ route'.transitions = route.transitions
    BY <1>1, <1>2, <1>5 DEF Routed, Selection, IsBuilt
  <2> QED
    BY <2>1 DEF SessionInv, PathInv
<1>11. WardenInv'
  <2>1. Routed'
    BY <1>1, <1>5 DEF Routed, IsBuilt
  <2> QED
    BY <1>2, <1>3, <1>4, <1>5, <2>1 DEF SessionInv, WardenInv, IsBuilt
<1> QED
  BY <1>6, <1>7, <1>8, <1>9, <1>10, <1>11 DEF SessionInv

\* The kill that completes the route keeps the invariant, whatever the database answers.
LEMMA CompleteRoutedKeeps ==
    ASSUME SessionInv, Routed, stage = "Boss", NEW enc \in Encounters,
           enc.counters = route.encounter.counters, NEW elapsed \in 0 .. MaxClock,
           Finish(route.operation, "Succeeded", elapsed) # None,
           CompleteRouted(enc, elapsed)
    PROVE  SessionInv'
<1> DEFINE op    == Finish(route.operation, "Succeeded", elapsed)
           tr    == Append(route.transitions, Completes("defeat_warden"))
           after == Finished("Succeeded", elapsed)
           done  == /\ Ended(op, tr, enc, "Complete") /\ clock' = elapsed /\ EndedElsewhere
<1>1. Ends(op, "Succeeded", elapsed)
  BY DEF Ends
<1>2. op.terminal.outcome = "Succeeded" /\ op.terminal.elapsed = elapsed
  BY <1>1, EndOfOperation
<1>3. tr \in Seq(Steps)
  <2>1. Completes("defeat_warden") \in Steps
    BY DEF Completes, Transition, Steps, Objectives
  <2>2. route.transitions \in Seq(Steps)
    BY RouteRuns DEF SessionInv
  <2> QED
    BY <2>1, <2>2
<1>4. StoreEnd(op, tr, enc, "completion refused", done)
  BY DEF CompleteRouted
<1> HIDE DEF op, tr, done
<1>5. /\ {"conflict", "completion refused", "database"} \subseteq Faults
  BY DEF Faults
<1>6. \/ Abort("conflict") /\ db' = db
      \/ Abort("completion refused") /\ db' = db
      \/ /\ op.terminal = StoredSummary("Succeeded", elapsed) /\ after # None
         /\ \/ db' = after /\ done
            \/ db' \in {db, after} /\ Abort("database")
  <2> HIDE DEF after
  <2> QED
    BY <1>2, <1>4 DEF StoreEnd, Commit, after
<1>7. CASE Abort("conflict") /\ db' = db
  BY <1>1, <1>5, <1>7, EndAborted
<1>8. CASE Abort("completion refused") /\ db' = db
  BY <1>1, <1>5, <1>8, EndAborted
<1>9. CASE /\ op.terminal = StoredSummary("Succeeded", elapsed) /\ after # None
           /\ db' \in {db, after} /\ Abort("database")
  BY <1>1, <1>5, <1>9, EndAborted
<1>10. CASE /\ op.terminal = StoredSummary("Succeeded", elapsed) /\ after # None
            /\ db' = after /\ done
  <2>1. Ended(op, tr, enc, "Complete") /\ clock' = elapsed /\ EndedElsewhere
    BY <1>10 DEF done
  <2> QED
    BY <1>1, <1>3, <1>10, <2>1, EndCommitted
<1> QED
  BY <1>6, <1>7, <1>8, <1>9, <1>10

\* Without a route the end rewards those who are left; nothing of a route is stored.
LEMMA CompleteBaselineKeeps ==
    ASSUME SessionInv, ~Routed, stage = "Boss", NEW enc \in Encounters, CompleteBaseline(enc)
    PROVE  SessionInv'
<1> DEFINE paid  == [q \in Players |-> IF q \in members THEN db.granted[q] + 1 ELSE db.granted[q]]
           after == [db EXCEPT !.granted = paid]
<1>1. /\ route # None /\ route \in Runtimes /\ TypeOK /\ StageInv
      /\ route.operation \in Operations /\ route.operation.phase = "BaselineLocked"
      /\ route.operation.selection = None /\ route.operation.terminal = None
      /\ route.replay \in Replays \cup {None} /\ route.transitions \in Seq(Steps) /\ ~cooperating
  <2>1. route # None /\ TypeOK /\ StageInv /\ ~cooperating
    BY DEF SessionInv, StageInv
  <2>2. route \in Runtimes /\ route.operation.phase = "BaselineLocked"
    BY <2>1, PhaseOfStage DEF TypeOK
  <2> QED
    BY <2>1, <2>2, RuntimeParts DEF StageInv, Chosen, Over
<1>2. db \in Databases /\ db.route = None /\ ~db.cooperation /\ answers = {}
  <2>1. db.route = None /\ ~db.cooperation
    BY <1>1 DEF SessionInv, StorageInv
  <2> QED
    BY <2>1 DEF SessionInv, TypeOK, StorageInv
<1>3. /\ after \in Databases /\ after.route = None /\ after.cooperation = db.cooperation
  <2>1. paid \in [Players -> Nat]
    BY <1>2 DEF Databases
  <2> HIDE DEF paid
  <2> QED
    BY <1>2, <2>1 DEF Databases
<1>4. Commit(after, /\ stage' = "Complete" /\ enemy' = None
                    /\ route' = [route EXCEPT !.encounter = enc]
                    /\ UNCHANGED <<clock, told>> /\ EndedElsewhere)
  BY DEF CompleteBaseline
<1> HIDE DEF after
<1>5. Sound(after, answers)
  BY <1>2, <1>3 DEF Sound, Fair
<1>6. CASE db' \in {db, after} /\ Abort("database")
  BY <1>5, <1>6, SessionIsSound, AbortKeeps DEF Faults
<1>7. CASE /\ db' = after /\ stage' = "Complete" /\ enemy' = None
           /\ route' = [route EXCEPT !.encounter = enc]
           /\ UNCHANGED <<clock, told>> /\ EndedElsewhere
  <2>1. /\ members' = members /\ capable' = capable /\ equipped' = equipped
        /\ cooperating' = cooperating /\ answers' = answers /\ fault' = fault
        /\ clock' = clock /\ told' = told
    BY <1>7 DEF EndedElsewhere
  <2>2. IsBuilt(route', route.operation, route.replay, route.transitions, enc)
    <3>1. route' = Built(route.operation, route.replay, route.transitions, enc)
      BY <1>1, <1>7 DEF Runtimes, Built
    <3>2. Assembled(route', route.operation, route.replay, route.transitions, enc)
      BY <1>1, <3>1 DEF Assembled
    <3> QED
      BY <3>2, BuiltRuntime
  <2>3. TypeOK'
    BY <1>1, <1>3, <1>7, <2>1, <2>2 DEF TypeOK, Stages, IsBuilt
  <2>4. StageInv'
    BY <1>1, <1>7, <2>1, <2>2 DEF StageInv, StagesOf, IsBuilt
  <2>5. StorageInv'
    BY <1>1, <1>2, <1>3, <1>7, <2>1, <2>2 DEF StorageInv, RewardedOnce, IsBuilt
  <2>6. ToldInv'
    BY <1>3, <1>7 DEF ToldInv
  <2>7. PathInv'
    BY <1>1, <2>2 DEF PathInv, Routed, IsBuilt
  <2>8. WardenInv'
    BY <1>7 DEF WardenInv
  <2> QED
    BY <2>3, <2>4, <2>5, <2>6, <2>7, <2>8 DEF SessionInv
<1> QED
  BY <1>4, <1>6, <1>7 DEF Commit

\* So does any kill of the Warden.
LEMMA KillWardenKeeps ==
    ASSUME SessionInv, NEW p \in Players, NEW elapsed \in 0 .. MaxClock, KillWarden(p, elapsed)
    PROVE  SessionInv'
<1>1. /\ stage = "Boss"
      /\ \/ AppendFails
         \/ Routed /\ CompleteRouted(HitCounted(0), elapsed)
         \/ ~Routed /\ CompleteBaseline(HitCounted(0))
  BY DEF KillWarden
<1>2. route \in Runtimes
  BY <1>1 DEF SessionInv, StageInv, TypeOK
<1>3. HitCounted(0) \in Encounters /\ HitCounted(0).counters = route.encounter.counters
  BY <1>2, HitIsCounted
<1>4. CASE AppendFails
  BY <1>4, AppendFailsKeeps
<1>5. CASE Routed /\ CompleteRouted(HitCounted(0), elapsed)
  BY <1>1, <1>3, <1>5, LateBlowKeeps, CompleteRoutedKeeps
<1>6. CASE ~Routed /\ CompleteBaseline(HitCounted(0))
  BY <1>1, <1>3, <1>6, CompleteBaselineKeeps
<1> QED
  BY <1>1, <1>4, <1>5, <1>6

\* The objective that a deadline fails is the active one.
LEMMA ActiveObjective ==
    ASSUME SessionInv, Routed
    PROVE  (CHOOSE o \in ActiveObjectives(ObjectivePath(Selection.route), route.transitions) : TRUE)
               \in Objectives
<1> DEFINE path   == ObjectivePath(Selection.route)
           active == ActiveObjectives(path, route.transitions)
<1>1. PathOf(Selection.route, path)
  BY RouteRuns DEF SessionInv
<1>2. PICK i \in DOMAIN path : Walked(path, route.transitions, i)
  BY DEF SessionInv, PathInv
<1> HIDE DEF path
<1>3. active = {path[i]}
  BY <1>1, <1>2, WalkActivates
<1>4. path[i] \in Objectives
  BY <1>1, <1>2 DEF PathOf
<1> HIDE DEF active
<1>5. (CHOOSE o \in active : TRUE) \in Objectives
  BY <1>3, <1>4
<1> QED
  BY <1>5 DEF active, path

\* The running operation can be ended by the deadline that has passed.
LEMMA DeadlineEnds ==
    ASSUME SessionInv, Routed, clock > Budget
    PROVE  Finish(route.operation, "FailedTimeout", clock) # None
<1> DEFINE terminal == Summary(route.operation.selection, Players, "FailedTimeout", clock)
           op       == [route.operation EXCEPT !.phase = "Failed", !.terminal = terminal]
<1>1. /\ route.operation \in Operations /\ route.operation.phase = "Routed"
      /\ clock \in 0 .. MaxClock
  BY RouteRuns DEF SessionInv, TypeOK, Routed
<1>2. WithinBudget("FailedTimeout", clock)
  BY DEF WithinBudget
<1>3. Finish(route.operation, "FailedTimeout", clock) = op
  BY <1>1, <1>2 DEF Finish
<1>4. terminal \in Summaries
  BY <1>1, RouteRuns DEF SessionInv, Summary, Summaries, Selection
<1> HIDE DEF terminal
<1>5. op \in Operations
  BY <1>1, <1>4 DEF Operations, Phases
<1> QED
  BY <1>3, <1>5, AbsenceAssumption

\* The deadline that ends the route keeps the invariant, whatever the database answers.
LEMMA ObserveDeadlineKeeps == ASSUME SessionInv, ObserveDeadline PROVE SessionInv'
<1> DEFINE op     == Finish(route.operation, "FailedTimeout", clock)
           active == CHOOSE o \in ActiveObjectives(
                        ObjectivePath(Selection.route), route.transitions) : TRUE
           tr     == Append(route.transitions, Fails(active))
           enc    == route.encounter
           after  == Finished("FailedTimeout", clock)
           done   == Ended(op, tr, enc, "Failed") /\ UNCHANGED clock /\ EndedElsewhere
<1>1. Routed /\ clock > Budget /\ StoreEnd(op, tr, enc, "timeout refused", done)
  BY DEF ObserveDeadline, Late
<1>2. /\ route.operation \in Operations /\ enc \in Encounters /\ route.operation.phase = "Routed"
      /\ route.transitions \in Seq(Steps) /\ clock \in 0 .. MaxClock
  BY <1>1, RouteRuns DEF SessionInv, TypeOK, Routed
<1>3. op # None
  BY <1>1, DeadlineEnds
<1>4. Ends(op, "FailedTimeout", clock)
  BY <1>2, <1>3 DEF Ends
<1>5. op.terminal.outcome = "FailedTimeout" /\ op.terminal.elapsed = clock
  BY <1>1, <1>4, EndOfOperation
<1>6. tr \in Seq(Steps)
  <2>1. active \in Objectives
    BY <1>1, ActiveObjective
  <2> HIDE DEF active
  <2>2. Fails(active) \in Steps
    BY <2>1 DEF Fails, Transition, Steps
  <2> QED
    BY <1>2, <2>2
<1> HIDE DEF op, tr, done, enc
<1>7. {"conflict", "timeout refused", "database"} \subseteq Faults
  BY DEF Faults
<1>8. \/ Abort("conflict") /\ db' = db
      \/ Abort("timeout refused") /\ db' = db
      \/ /\ op.terminal = StoredSummary("FailedTimeout", clock) /\ after # None
         /\ \/ db' = after /\ done
            \/ db' \in {db, after} /\ Abort("database")
  <2> HIDE DEF after
  <2> QED
    BY <1>1, <1>5 DEF StoreEnd, Commit, after
<1>9. CASE Abort("conflict") /\ db' = db
  BY <1>1, <1>4, <1>7, <1>9, EndAborted
<1>10. CASE Abort("timeout refused") /\ db' = db
  BY <1>1, <1>4, <1>7, <1>10, EndAborted
<1>11. CASE /\ op.terminal = StoredSummary("FailedTimeout", clock) /\ after # None
            /\ db' \in {db, after} /\ Abort("database")
  BY <1>1, <1>4, <1>7, <1>11, EndAborted
<1>12. CASE /\ op.terminal = StoredSummary("FailedTimeout", clock) /\ after # None
            /\ db' = after /\ done
  <2>1. Ended(op, tr, enc, "Failed") /\ clock' = clock /\ EndedElsewhere
    BY <1>12 DEF done
  <2>2. enc.counters = route.encounter.counters
    BY DEF enc
  <2> QED
    BY <1>1, <1>2, <1>4, <1>6, <1>12, <2>1, <2>2, EndCommitted
<1> QED
  BY <1>8, <1>9, <1>10, <1>11, <1>12

-----------------------------------------------------------------------------
(* The theorems *)

\* Whatever a player does keeps the invariant.
LEMMA ActKeeps == ASSUME SessionInv, NEW p \in Players, Act(p) PROVE SessionInv'
<1>1. CASE RequestRouteState(p)
  BY <1>1, RequestRouteStateKeeps
<1>2. CASE \E weapon \in Weapons : Equip(p, weapon)
  BY <1>2, EquipKeeps
<1>3. CASE \E choice \in Selections : ChooseRoute(p, choice)
  BY <1>3, ChooseRouteKeeps
<1>4. CASE ReachStabilizer(p) \/ ReachDoor(p)
  BY <1>4, ReachStabilizerKeeps, ReachDoorKeeps
<1>5. CASE HitDrone(p) \/ HitWarden(p)
  BY <1>5, HitDroneKeeps, HitWardenKeeps
<1>6. CASE \E elapsed \in 0 .. MaxClock : KillWarden(p, elapsed)
  BY <1>6, KillWardenKeeps
<1>7. CASE Disconnect(p)
  BY <1>7, DisconnectKeeps
<1> QED
  BY <1>1, <1>2, <1>3, <1>4, <1>5, <1>6, <1>7 DEF Act

\* So does a step that changes nothing.
LEMMA StutterKeeps == ASSUME SessionInv, UNCHANGED vars PROVE SessionInv'
<1>1. TypeOK'
  BY DEF SessionInv, vars, TypeOK
<1>2. StageInv' /\ ToldInv' /\ PathInv'
  BY DEF SessionInv, vars, StageInv, ToldInv, PathInv, Routed, Selection
<1>3. StorageInv'
  BY DEF SessionInv, vars, StorageInv, NothingStored, RewardedOnce
<1>4. WardenInv'
  BY DEF SessionInv, vars, WardenInv, Routed
<1> QED
  BY <1>1, <1>2, <1>3, <1>4 DEF SessionInv

\* The invariant holds in every session, whatever is lost, repeated or left.
THEOREM SessionInvariant == Spec => []SessionInv
<1>1. Init => SessionInv
  BY InitEstablishes
<1>2. SessionInv /\ [Next]_vars => SessionInv'
  BY ActKeeps, StutterKeeps, StartActivityKeeps, StartCooperationKeeps, ObserveDeadlineKeeps,
     TickKeeps DEF Next
<1> QED
  BY <1>1, <1>2, PTL DEF Spec

\* What players were told and what the coordinator acts on is what is stored, and an end
\* that is stored has been sent to every capable player while the leader was there.
THEOREM MemoryTold == Spec => []MemoryIsTold
<1>1. SessionInv => MemoryIsTold
  BY MemoryFollows
<1> QED
  BY <1>1, SessionInvariant, PTL

\* A session stores a route or a cooperation, never both, and rewards each participant of
\* a successful route once, those who have left included.
THEOREM OperationRewardedOnce == Spec => []OneRewardedOperation
<1>1. SessionInv => OneRewardedOperation
  BY RewardsFollow
<1> QED
  BY <1>1, SessionInvariant, PTL

\* Every transition that the coordinator collects is one that the validator accepts, the
\* stage tells the one active objective, and a dead Warden ends the activity.
THEOREM StagesInStep == Spec => []StagesStayInStep
<1>1. SessionInv => StagesStayInStep
  BY StagesFollow
<1> QED
  BY <1>1, SessionInvariant, PTL

-----------------------------------------------------------------------------
(* What a step may do to the database *)

\* A step that takes back nothing that is stored.
FinalStep ==
    db.route # None =>
        /\ db'.route # None /\ db'.route.replay = db.route.replay
        /\ db.route.terminal # None => db' = db

\* A step that stores an end on the right side of the deadline.
TimelyStep ==
    db.route # None /\ db.route.terminal = None /\ db'.route.terminal # None =>
        IF db'.route.terminal.outcome = "Succeeded" THEN clock' <= Budget ELSE clock' > Budget

\* Where there is no route yet, and where the step stores nothing.
LEMMA QuietSteps ==
    ASSUME db.route = None \/ db' = db PROVE FinalStep /\ TimelyStep
  BY DEF FinalStep, TimelyStep

\* An end is stored by a clock that tells the same as the end.
LEMMA EndSteps ==
    ASSUME SessionInv, Routed, NEW op, NEW outcome, NEW elapsed, Ends(op, outcome, elapsed),
           op.terminal = StoredSummary(outcome, elapsed), Finished(outcome, elapsed) # None,
           db' = Finished(outcome, elapsed), clock' \in Nat,
           outcome = "Succeeded" => clock' <= elapsed,
           outcome # "Succeeded" => clock' >= elapsed
    PROVE  FinalStep /\ TimelyStep
<1>1. /\ db'.route # None /\ db'.route.replay = db.route.replay
      /\ db.route.terminal = None => db'.route.terminal = op.terminal
      /\ db.route.terminal # None => db' = db
  BY FinishStores
<1>2. op.terminal.outcome = outcome /\ WithinBudget(outcome, elapsed)
  BY EndOfOperation
<1>3. IF outcome = "Succeeded" THEN clock' <= Budget ELSE clock' > Budget
  <2>1. elapsed \in Nat /\ Budget \in Nat
    BY RouteAssumption, ClockAssumption DEF Ends
  <2> QED
    BY <1>2, <2>1 DEF WithinBudget
<1>4. FinalStep
  BY <1>1 DEF FinalStep
<1>5. TimelyStep
  BY <1>1, <1>2, <1>3 DEF TimelyStep
<1> QED
  BY <1>4, <1>5

\* A choice stores a selection once, and no end.
LEMMA ChoiceSteps ==
    ASSUME SessionInv, NEW p \in Players, NEW choice \in Selections, ChooseRoute(p, choice)
    PROVE  FinalStep /\ TimelyStep
<1>1. CASE Selection = None
  <2>1. route # None
    BY DEF ChooseRoute
  <2>2. db.route = None
    BY <1>1, <2>1 DEF SessionInv, StorageInv, Selection
  <2> QED
    BY <2>2, QuietSteps
<1>2. CASE Selection # None
  <2> DEFINE row == Stored(Selection, [q \in members |-> equipped[q]])
  <2>1. route # None /\ Select(route.operation, p, choice) = route.operation
    BY <1>2 DEF ChooseRoute, Select, Selection
  <2>2. row # None /\ Commit([db EXCEPT !.route = row], Confirm(row))
    BY <2>1 DEF ChooseRoute, Selection
  <2>3. db.route # None
    BY <1>2, <2>1 DEF SessionInv, StorageInv, Selection
  <2>4. row = db.route
    BY <2>2, <2>3 DEF Stored
  <2> HIDE DEF row
  <2>5. [db EXCEPT !.route = row] = db
    BY <2>4 DEF SessionInv, TypeOK, Databases
  <2>6. db' = db
    BY <2>2, <2>5 DEF Commit
  <2> QED
    BY <2>6, QuietSteps
<1> QED
  BY <1>1, <1>2

\* The start of a cooperation touches no stored route.
LEMMA CooperationSteps == ASSUME SessionInv, StartCooperation PROVE FinalStep /\ TimelyStep
<1>1. db.route = None \/ db' = db
  BY DEF StartCooperation, AppendFails
<1> QED
  BY <1>1, QuietSteps

\* A first blow or a late one, a stored end or an aborted session.
LEMMA KillSteps ==
    ASSUME SessionInv, NEW p \in Players, NEW elapsed \in 0 .. MaxClock, KillWarden(p, elapsed)
    PROVE  FinalStep /\ TimelyStep
<1>1. stage = "Boss" /\ clock \in Nat /\ elapsed \in Nat
  BY ClockAssumption DEF KillWarden, SessionInv, TypeOK
<1>2. CASE AppendFails
  BY <1>2, QuietSteps DEF AppendFails
<1>3. CASE ~Routed
  <2>1. route # None /\ TypeOK /\ StageInv
    BY <1>1 DEF SessionInv, StageInv
  <2>2. route.operation.phase = "BaselineLocked"
    BY <1>1, <1>3, <2>1, PhaseOfStage
  <2>3. db.route = None
    BY <2>1, <2>2 DEF SessionInv, StageInv, StorageInv, Chosen
  <2> QED
    BY <2>3, QuietSteps
<1>4. CASE Routed /\ elapsed >= clock /\ CompleteRouted(HitCounted(0), elapsed)
  <2> DEFINE op    == Finish(route.operation, "Succeeded", elapsed)
             tr    == Append(route.transitions, Completes("defeat_warden"))
             enc   == HitCounted(0)
             after == Finished("Succeeded", elapsed)
             done  == /\ Ended(op, tr, enc, "Complete") /\ clock' = elapsed /\ EndedElsewhere
  <2>1. CASE op = None
    BY <1>4, <2>1, QuietSteps DEF CompleteRouted
  <2>2. CASE op # None
    <3>1. Ends(op, "Succeeded", elapsed)
      BY <2>2 DEF Ends
    <3>2. op.terminal.outcome = "Succeeded" /\ op.terminal.elapsed = elapsed
      BY <1>4, <3>1, EndOfOperation
    <3>3. StoreEnd(op, tr, enc, "completion refused", done)
      BY <1>4, <2>2 DEF CompleteRouted
    <3>4. done => clock' = elapsed
      OBVIOUS
    <3> HIDE DEF op, tr, enc, done
    <3>5. \/ db' = db
          \/ /\ op.terminal = StoredSummary("Succeeded", elapsed) /\ after # None
             /\ db' = after /\ (clock' = elapsed \/ clock' = clock)
      <4> HIDE DEF after
      <4> QED
        BY <3>2, <3>3, <3>4 DEF StoreEnd, Commit, Abort, after
    <3> HIDE DEF after
    <3>6. CASE db' = db
      BY <3>6, QuietSteps
    <3>7. CASE /\ op.terminal = StoredSummary("Succeeded", elapsed) /\ after # None
               /\ db' = after /\ (clock' = elapsed \/ clock' = clock)
      <4>1. clock' \in Nat /\ clock' <= elapsed
        BY <1>1, <1>4, <3>7
      <4> QED
        BY <1>4, <3>1, <3>7, <4>1, EndSteps DEF after
    <3> QED
      BY <3>5, <3>6, <3>7
  <2> QED
    BY <2>1, <2>2
<1> QED
  BY <1>2, <1>3, <1>4 DEF KillWarden

\* The deadline stores a failure after it has passed, where no end is stored.
LEMMA DeadlineSteps == ASSUME SessionInv, ObserveDeadline PROVE FinalStep /\ TimelyStep
<1> DEFINE op     == Finish(route.operation, "FailedTimeout", clock)
           active == CHOOSE o \in ActiveObjectives(
                        ObjectivePath(Selection.route), route.transitions) : TRUE
           tr     == Append(route.transitions, Fails(active))
           enc    == route.encounter
           after  == Finished("FailedTimeout", clock)
           done   == Ended(op, tr, enc, "Failed") /\ UNCHANGED clock /\ EndedElsewhere
<1>1. Routed /\ clock > Budget /\ StoreEnd(op, tr, enc, "timeout refused", done)
  BY DEF ObserveDeadline, Late
<1>2. clock \in Nat /\ clock \in 0 .. MaxClock
  BY ClockAssumption DEF SessionInv, TypeOK
<1>3. op # None
  BY <1>1, DeadlineEnds
<1>4. Ends(op, "FailedTimeout", clock)
  BY <1>2, <1>3 DEF Ends
<1>5. op.terminal.outcome = "FailedTimeout" /\ op.terminal.elapsed = clock
  BY <1>1, <1>4, EndOfOperation
<1>6. done => clock' = clock
  OBVIOUS
<1> HIDE DEF op, tr, done, enc
<1>7. \/ db' = db
      \/ /\ op.terminal = StoredSummary("FailedTimeout", clock) /\ after # None
         /\ db' = after /\ clock' = clock
  <2> HIDE DEF after
  <2> QED
    BY <1>1, <1>5, <1>6 DEF StoreEnd, Commit, Abort, after
<1> HIDE DEF after
<1>8. CASE db' = db
  BY <1>8, QuietSteps
<1>9. CASE /\ op.terminal = StoredSummary("FailedTimeout", clock) /\ after # None
           /\ db' = after /\ clock' = clock
  <2>1. clock' \in Nat /\ clock' >= clock
    BY <1>2, <1>9
  <2> QED
    BY <1>1, <1>4, <1>9, <2>1, EndSteps DEF after
<1> QED
  BY <1>7, <1>8, <1>9

\* A stored selection is never replaced, a stored end never changed or paid for again, and
\* what is stored as a success was stored before the deadline had passed.
THEOREM StoredEnds == Spec => StoredIsFinal /\ DeadlineDecides
<1>1. ASSUME SessionInv, [Next]_vars PROVE FinalStep /\ TimelyStep
  <2>1. ASSUME NEW p \in Players, Act(p) PROVE FinalStep /\ TimelyStep
    <3>1. CASE \E choice \in Selections : ChooseRoute(p, choice)
      BY <1>1, <3>1, ChoiceSteps
    <3>2. CASE \E elapsed \in 0 .. MaxClock : KillWarden(p, elapsed)
      BY <1>1, <3>2, KillSteps
    <3>3. CASE RequestRouteState(p) \/ (\E weapon \in Weapons : Equip(p, weapon))
               \/ ReachStabilizer(p) \/ Disconnect(p)
      <4>1. db' = db
        BY <3>3 DEF RequestRouteState, Equip, Commit, ReachStabilizer, Disconnect
      <4> QED
        BY <4>1, QuietSteps
    <3>4. CASE ReachDoor(p) \/ HitDrone(p) \/ HitWarden(p)
      <4>1. db' = db
        BY <3>4 DEF ReachDoor, HitDrone, HitWarden, AppendFails
      <4> QED
        BY <4>1, QuietSteps
    <3> QED
      BY <2>1, <3>1, <3>2, <3>3, <3>4 DEF Act
  <2>2. CASE StartActivity
    BY <2>2, QuietSteps DEF StartActivity, AppendFails
  <2>3. CASE StartCooperation
    BY <1>1, <2>3, CooperationSteps
  <2>4. CASE ObserveDeadline
    BY <1>1, <2>4, DeadlineSteps
  <2>5. CASE Tick
    BY <2>5, QuietSteps DEF Tick
  <2>6. CASE UNCHANGED vars
    BY <2>6, QuietSteps DEF vars
  <2> QED
    BY <1>1, <2>1, <2>2, <2>3, <2>4, <2>5, <2>6 DEF Next
<1>2. SessionInv /\ [Next]_vars => FinalStep
  BY <1>1
<1>3. SessionInv /\ [Next]_vars => TimelyStep
  BY <1>1
<1>4. Spec => [][FinalStep]_vars
  BY <1>2, SessionInvariant, PTL DEF Spec
<1>5. Spec => [][TimelyStep]_vars
  BY <1>3, SessionInvariant, PTL DEF Spec
<1> QED
  BY <1>4, <1>5 DEF StoredIsFinal, DeadlineDecides, FinalStep, TimelyStep

-----------------------------------------------------------------------------
(* The evidence of an encounter *)

\* A weapon that takes no more than a quarter of the Warden's health, and no less than
\* the hits that may be reported allow: for two players every weapon that can be admitted,
\* for one those with an effective damage below 60.
Moderate == \A w \in Weapons : 7 <= Damage[w] /\ 4 * Damage[w] < WardenHealth(N)

\* The evidence of a fight with the Warden: what the hits have done, between the weakest
\* and the strongest weapon, and how often it has struck back.
HitInv ==
    LET e == route.encounter
    IN  /\ e.spawned /\ e.remaining = enemy.health
        /\ e.hostile = DroneDamage + e.counters * EffectOf(Selection).counter
        /\ enemy.health > 0 =>
               /\ e.hits = enemy.accepted
               /\ e.remaining + 7 * e.hits <= e.effective
               /\ e.counters = IF e.hits >= 4 THEN 2 ELSE e.hits \div 2
               /\ \E w \in Weapons : e.effective <= e.remaining + e.hits * Damage[w]

\* The evidence of a session, from the drone to the Warden.
EvidenceInv ==
    route # None =>
        LET e == route.encounter
        IN  /\ e.drone = DroneHealth(N)
            /\ stage # "Drone" => e.droneDefeated
            /\ stage \in {"Drone", "Stabilizer", "Door"} =>
                   ~e.spawned /\ e.hits = 0 /\ e.remaining = 0 /\ e.hostile = DroneDamage
            /\ Routed => e.effective = ApplyHealthEffect(e.base, EffectOf(Selection))
            /\ Routed /\ stage = "Boss" => HitInv

\* The evidence is about the route, the stage and the enemy only.
LEMMA EvidenceStays ==
    ASSUME EvidenceInv, UNCHANGED <<route, stage, enemy>> PROVE EvidenceInv'
<1>1. /\ Routed' = Routed /\ Selection' = Selection /\ HitInv' = HitInv
      /\ route' = route /\ stage' = stage
  BY DEF Routed, Selection, HitInv
<1> QED
  BY <1>1 DEF EvidenceInv

\* Without a route there is no evidence.
LEMMA EvidenceGone == ASSUME route' = None PROVE EvidenceInv'
  BY DEF EvidenceInv

\* An aborted session has none.
LEMMA EvidenceAborted == ASSUME NEW reason, Abort(reason) PROVE EvidenceInv'
  BY EvidenceGone DEF Abort, Reset

\* Before the Warden and without a route the counters are still.
LEMMA EvidenceBefore ==
    ASSUME SessionInv, EvidenceInv, route # None, ~Routed', route' # None,
           stage \in {"Drone", "Door"}, stage' = stage,
           route'.encounter = route.encounter
    PROVE  EvidenceInv'
  BY DEF EvidenceInv

\* The evidence starts with the drone and its one attack.
LEMMA EvidenceStarts == ASSUME SessionInv, StartActivity PROVE EvidenceInv'
<1>1. CASE AppendFails
  BY <1>1, EvidenceAborted DEF AppendFails
<1>2. CASE /\ stage' = "Drone"
           /\ route' = [NewRuntime([NewOperation EXCEPT !.capable = capable])
                        EXCEPT !.encounter.hostile = DroneDamage]
  <2> DEFINE enc == [drone |-> DroneHealth(N), droneDefeated |-> FALSE, spawned |-> FALSE,
                     base |-> WardenHealth(N), effective |-> 0, remaining |-> 0,
                     hits |-> 0, counters |-> 0, hostile |-> DroneDamage]
  <2>1. /\ route'.encounter = enc
        /\ route'.operation.phase = "Drone"
    BY <1>2 DEF NewRuntime, NewOperation, NewEncounter
  <2>2. ~Routed'
    BY <2>1 DEF Routed
  <2> QED
    BY <1>2, <2>1, <2>2 DEF EvidenceInv
<1> QED
  BY <1>1, <1>2 DEF StartActivity

\* A capability that is announced leaves the evidence alone.
LEMMA EvidenceOfRequests ==
    ASSUME SessionInv, EvidenceInv, NEW p \in Players, RequestRouteState(p) PROVE EvidenceInv'
<1>1. CASE route' = None
  BY <1>1, EvidenceGone
<1>2. CASE /\ route # None /\ MarkCapable(route.operation, p) # None
           /\ route' = [route EXCEPT !.operation = MarkCapable(@, p)]
  <2>1. /\ route \in Runtimes /\ route.operation \in Operations /\ stage' = stage
        /\ route.operation.phase \in {"Drone", "ChoiceOpen"} /\ stage \in {"Drone", "Door"}
    <3>1. route.operation.phase \in {"Drone", "ChoiceOpen"}
      BY <1>2 DEF MarkCapable
    <3> QED
      BY <1>2, <3>1 DEF SessionInv, TypeOK, Runtimes, StageInv, StagesOf, RequestRouteState
  <2>2. route'.encounter = route.encounter
    BY <1>2, <2>1 DEF Runtimes
  <2>3. route'.operation.phase = route.operation.phase
    BY <1>2, <2>1 DEF Runtimes, Operations, MarkCapable
  <2>4. ~Routed'
    BY <2>1, <2>3 DEF Routed
  <2>5. CASE route' = None
    BY <2>5, EvidenceGone
  <2>6. CASE route' # None
    BY <1>2, <2>1, <2>2, <2>4, <2>6, EvidenceBefore
  <2> QED
    BY <2>5, <2>6
<1> QED
  BY <1>1, <1>2 DEF RequestRouteState

\* So does a cooperation that starts.
LEMMA EvidenceOfCooperation ==
    ASSUME SessionInv, EvidenceInv, StartCooperation PROVE EvidenceInv'
<1>1. CASE Abort("database")
  BY <1>1, EvidenceAborted
<1>2. CASE /\ route' = [route EXCEPT !.operation = LockBaseline(@)] /\ stage' = stage
  <2>0. /\ stage = "Door" /\ route # None /\ route.operation.phase = "ChoiceOpen"
        /\ route \in Runtimes /\ route.operation \in Operations
    BY DEF StartCooperation, SessionInv, TypeOK, StageInv, Runtimes
  <2>1. route.operation.selection = None
    BY <2>0 DEF SessionInv, StageInv, Chosen
  <2>2. LockBaseline(route.operation).phase = "BaselineLocked"
    BY <2>0, <2>1 DEF LockBaseline, Operations
  <2>3. route'.encounter = route.encounter /\ route'.operation.phase = "BaselineLocked"
    BY <1>2, <2>0, <2>2 DEF Runtimes
  <2>4. ~Routed'
    BY <2>3 DEF Routed
  <2>5. CASE route' = None
    BY <2>5, EvidenceGone
  <2>6. CASE route' # None
    BY <1>2, <2>0, <2>3, <2>4, <2>6, EvidenceBefore
  <2> QED
    BY <2>5, <2>6
<1> QED
  BY <1>1, <1>2 DEF StartCooperation, AppendFails, Commit

\* The chosen route gives the Warden its health, before it is spawned.
LEMMA EvidenceOfChoice ==
    ASSUME SessionInv, EvidenceInv, NEW p \in Players, NEW choice \in Selections,
           ChooseRoute(p, choice)
    PROVE  EvidenceInv'
<1> DEFINE proposed == Select(route.operation, p, choice).selection
           row      == Stored(proposed, [q \in members |-> equipped[q]])
<1>1. Commit([db EXCEPT !.route = row], Confirm(row)) /\ row # None /\ route # None
  BY DEF ChooseRoute
<1> HIDE DEF row
<1>2. CASE Abort("database")
  BY <1>2, EvidenceAborted
<1>3. CASE Confirm(row) /\ Selection # None
  BY <1>3, EvidenceStays DEF Confirm
<1>4. CASE Confirm(row) /\ Selection = None
  <2> DEFINE enc == [route.encounter EXCEPT
                       !.effective = ApplyHealthEffect(route.encounter.base, EffectOf(choice))]
  <2>1. /\ route \in Runtimes /\ route.operation \in Operations /\ route.encounter \in Encounters
    BY <1>1, RuntimeParts DEF SessionInv, TypeOK
  <2>2. /\ Select(route.operation, p, choice) # None /\ route.operation.selection = None
    BY <1>4 DEF ChooseRoute, Selection
  <2>3. /\ route.operation.phase = "ChoiceOpen" /\ p = Leader
        /\ Select(route.operation, p, choice) =
               [route.operation EXCEPT !.phase = "Routed", !.selection = choice]
    BY <2>2 DEF Select
  <2>4. proposed = choice
    BY <2>1, <2>3 DEF Operations
  <2>5. db.route = None
    BY <1>1, <2>2 DEF SessionInv, StorageInv
  <2>6. row.replay.selection = choice
    BY <2>4, <2>5 DEF row, Stored, NewRow, SelectionReplay
  <2>7. stage = "Door"
    BY <1>1, <2>3 DEF SessionInv, StageInv, StagesOf
  <2>8. /\ route' = [route EXCEPT
                       !.operation   = Select(@, Leader, choice),
                       !.replay      = row.replay,
                       !.transitions = InitialTransitions(choice.route),
                       !.encounter.effective =
                           ApplyHealthEffect(route.encounter.base, EffectOf(choice))]
        /\ stage' \in {"Door", "Stabilizer"}
    BY <1>4, <2>6 DEF Confirm
  <2>9. route'.encounter = enc /\ route'.operation = Select(route.operation, p, choice)
    BY <2>1, <2>3, <2>8 DEF Runtimes
  <2>10. Selection' = choice
    BY <2>1, <2>3, <2>9 DEF Selection, Operations
  <2>11. /\ enc.drone = route.encounter.drone /\ enc.droneDefeated = route.encounter.droneDefeated
         /\ enc.spawned = route.encounter.spawned /\ enc.hits = route.encounter.hits
         /\ enc.remaining = route.encounter.remaining /\ enc.hostile = route.encounter.hostile
         /\ enc.base = route.encounter.base
         /\ enc.effective = ApplyHealthEffect(route.encounter.base, EffectOf(choice))
    BY <2>1 DEF Encounters
  <2> HIDE DEF enc
  <2> QED
    BY <1>1, <2>7, <2>8, <2>9, <2>10, <2>11 DEF EvidenceInv
<1> QED
  BY <1>1, <1>2, <1>3, <1>4 DEF Commit

\* The stabilizer is passed without a fight.
LEMMA EvidenceOfStabilizer ==
    ASSUME SessionInv, EvidenceInv, NEW p \in Players, ReachStabilizer(p) PROVE EvidenceInv'
<1>1. /\ stage = "Stabilizer" /\ stage' = "Door"
      /\ route # None /\ route \in Runtimes
  BY DEF ReachStabilizer, SessionInv, StageInv, TypeOK
<1>2. route'.encounter = route.encounter /\ route'.operation = route.operation
  BY <1>1 DEF ReachStabilizer, Runtimes
<1>3. Routed' => Routed /\ Selection' = Selection
  BY <1>1, <1>2 DEF Routed, Selection
<1> QED
  BY <1>1, <1>2, <1>3 DEF EvidenceInv

\* The Warden that is spawned has the health the evidence tells, and no hit yet.
LEMMA EvidenceOfDoor ==
    ASSUME SessionInv, EvidenceInv, NEW p \in Players, ReachDoor(p) PROVE EvidenceInv'
<1> DEFINE base   == WardenHealth(Cardinality(members))
           health == IF Selection = None THEN base ELSE ApplyHealthEffect(base, EffectOf(Selection))
           enc    == [route.encounter EXCEPT !.spawned = TRUE, !.base = base,
                                             !.effective = health, !.remaining = health]
<1>0. /\ p \in members /\ stage = "Door" /\ ~cooperating
      /\ \/ AppendFails
         \/ /\ stage' = "Boss" /\ enemy' = Enemy(health)
            /\ route' =
                 IF Selection = None THEN [route EXCEPT !.operation = LockBaseline(@)]
                 ELSE [route EXCEPT
                     !.transitions =
                         @ \o <<Completes("reach_relay_door"), Activates("defeat_warden")>>,
                     !.encounter.spawned   = TRUE,
                     !.encounter.base      = base,
                     !.encounter.effective = health,
                     !.encounter.remaining = health]
  BY DEF ReachDoor, Present
<1>1. /\ route # None /\ route \in Runtimes /\ route.encounter \in Encounters
      /\ route.operation \in Operations /\ route.encounter.counters = 0
      /\ TypeOK /\ StageInv /\ members \subseteq Players
      /\ Routed \/ route.operation.phase = "ChoiceOpen"
  BY <1>0, PhaseOfStage, RuntimeParts DEF SessionInv, TypeOK, StageInv, WardenInv
<1>2. CASE AppendFails
  BY <1>2, EvidenceAborted DEF AppendFails
<1>3. CASE Selection = None /\ stage' = "Boss" /\ route' = [route EXCEPT !.operation = LockBaseline(@)]
  <2>1. route.operation.phase = "ChoiceOpen"
    BY <1>1, <1>3 DEF StageInv, Chosen, Routed, Selection
  <2>2. LockBaseline(route.operation).phase = "BaselineLocked"
    BY <1>1, <1>3, <2>1 DEF LockBaseline, Selection, Operations
  <2>3. route'.encounter = route.encounter /\ route'.operation.phase = "BaselineLocked"
    BY <1>1, <1>3, <2>2 DEF Runtimes
  <2>4. ~Routed'
    BY <2>3 DEF Routed
  <2> QED
    BY <1>0, <1>1, <1>3, <2>3, <2>4 DEF EvidenceInv
<1>4. CASE /\ Selection # None /\ stage' = "Boss" /\ enemy' = Enemy(health)
           /\ route' = [route EXCEPT
                     !.transitions =
                         @ \o <<Completes("reach_relay_door"), Activates("defeat_warden")>>,
                     !.encounter.spawned   = TRUE,
                     !.encounter.base      = base,
                     !.encounter.effective = health,
                     !.encounter.remaining = health]
  <2>1. /\ health = ApplyHealthEffect(base, EffectOf(Selection))
    BY <1>4
  <2>2. health \in Nat /\ health >= 240
    <3>1. members # {}
      BY <1>0
    <3>2. Cardinality(members) \in {1, 2}
      BY <1>1, <3>1, PlayersCount
    <3>3. base \in Nat /\ base >= 240
      BY <3>2, EnemiesBegin
    <3>4. Selection \in Selections
      BY <1>1, <1>4 DEF Selection, Operations
    <3> HIDE DEF base, health
    <3>5. /\ ApplyHealthEffect(base, EffectOf(Selection)) \in Nat
          /\ ApplyHealthEffect(base, EffectOf(Selection)) >= base
      BY <3>3, <3>4, EffectAdds
    <3> QED
      BY <2>1, <3>3, <3>5
  <2> HIDE DEF base, health
  <2>3. /\ enc.drone = route.encounter.drone /\ enc.droneDefeated = route.encounter.droneDefeated
        /\ enc.spawned = TRUE /\ enc.base = base /\ enc.effective = health /\ enc.remaining = health
        /\ enc.hits = route.encounter.hits /\ enc.hostile = route.encounter.hostile
        /\ enc.counters = 0
    BY <1>1 DEF Encounters
  <2>4. route'.encounter = enc /\ route'.operation = route.operation
    BY <1>1, <1>4 DEF Runtimes
  <2> HIDE DEF enc
  <2>5. Routed' /\ Selection' = Selection
    <3>1. Routed
      BY <1>1, <1>4 DEF StageInv, Chosen, Selection
    <3>2. route' # None
      <4>1. ReachDoor(p)
        OBVIOUS
      <4>2. SessionInv'
        BY <4>1, ReachDoorKeeps
      <4> QED
        BY <1>4, <4>2 DEF SessionInv, StageInv
    <3> QED
      BY <2>4, <3>1, <3>2 DEF Routed, Selection
  <2>6. /\ route.encounter.hits = 0 /\ route.encounter.hostile = DroneDamage
        /\ route.encounter.drone = DroneHealth(N) /\ route.encounter.droneDefeated
    BY <1>0, <1>1 DEF EvidenceInv
  <2>7. /\ enemy'.health = health /\ enemy'.accepted = 0
    BY <1>4 DEF Enemy
  <2>8. HitInv'
    <3>1. /\ EffectOf(Selection).counter \in Nat
      <4>1. Selection \in Selections
        BY <1>1, <1>4 DEF Selection, Operations
      <4> QED
        BY <4>1, EffectsOfEvents
    <3>2. enc.hostile = DroneDamage + enc.counters * EffectOf(Selection).counter
      BY <2>3, <2>6, <3>1 DEF DroneDamage
    <3>3. PICK w \in Weapons : w = equipped[p]
      BY <1>1 DEF TypeOK
    <3>4. enc.effective <= enc.remaining + enc.hits * Damage[w]
      BY <2>2, <2>3, <2>6, RouteAssumption
    <3>5. enc.remaining + 7 * enc.hits <= enc.effective
      BY <2>2, <2>3, <2>6
    <3>6. enc.counters = IF enc.hits >= 4 THEN 2 ELSE enc.hits \div 2
      BY <2>3, <2>6
    <3>7. enc.spawned /\ enc.remaining = enemy'.health /\ enc.hits = enemy'.accepted
      BY <2>3, <2>6, <2>7
    <3> QED
      BY <2>4, <2>5, <3>2, <3>4, <3>5, <3>6, <3>7 DEF HitInv
  <2> QED
    BY <1>4, <2>1, <2>3, <2>4, <2>5, <2>6, <2>8 DEF EvidenceInv
<1> QED
  BY <1>0, <1>2, <1>3, <1>4

\* The drone that falls is noted in the evidence.
LEMMA EvidenceOfDrone ==
    ASSUME SessionInv, EvidenceInv, NEW p \in Players, HitDrone(p) PROVE EvidenceInv'
<1>1. /\ stage = "Drone" /\ route # None /\ route \in Runtimes /\ route.operation.phase = "Drone"
      /\ route.operation \in Operations /\ route.encounter \in Encounters
  <2>1. stage = "Drone" /\ route # None /\ TypeOK /\ StageInv
    BY DEF HitDrone, SessionInv, StageInv
  <2>2. route.operation.phase = "Drone"
    BY <2>1, PhaseOfStage
  <2> QED
    BY <2>1, <2>2, RuntimeParts DEF TypeOK
<1>2. CASE UNCHANGED <<stage, route>>
  <2>1. ~Routed /\ Routed' = Routed
    BY <1>1, <1>2 DEF Routed
  <2>2. route' = route /\ stage' = stage
    BY <1>2
  <2> QED
    BY <2>1, <2>2 DEF EvidenceInv
<1>3. CASE AppendFails
  BY <1>3, EvidenceAborted DEF AppendFails
<1>4. CASE /\ stage' = "Door"
           /\ route' = [route EXCEPT !.operation = OpenChoice(@),
                                     !.encounter.droneDefeated = TRUE]
  <2>1. /\ route'.encounter = [route.encounter EXCEPT !.droneDefeated = TRUE]
        /\ route'.operation = OpenChoice(route.operation)
    BY <1>1, <1>4 DEF Runtimes
  <2>2. OpenChoice(route.operation).phase = "ChoiceOpen"
    BY <1>1 DEF OpenChoice, Operations
  <2>3. ~Routed'
    BY <2>1, <2>2 DEF Routed
  <2>4. LET e == route'.encounter
        IN  /\ e.drone = route.encounter.drone /\ e.droneDefeated
            /\ e.spawned = route.encounter.spawned /\ e.hits = route.encounter.hits
            /\ e.remaining = route.encounter.remaining /\ e.hostile = route.encounter.hostile
    BY <1>1, <2>1 DEF Encounters
  <2> QED
    BY <1>1, <1>4, <2>3, <2>4 DEF EvidenceInv
<1> QED
  BY <1>2, <1>3, <1>4 DEF HitDrone

\* What a counted hit and a counterattack change of the evidence.
SameButHits(e, f) ==
    /\ f.drone = e.drone /\ f.droneDefeated = e.droneDefeated /\ f.spawned = e.spawned
    /\ f.base = e.base /\ f.effective = e.effective

\* A hit counts itself and sets what remains.
LEMMA HitFields ==
    ASSUME route \in Runtimes, NEW health \in Nat
    PROVE  LET e == route.encounter
               f == HitCounted(health)
           IN  /\ SameButHits(e, f) /\ f.hits = e.hits + 1 /\ f.remaining = health
               /\ f.counters = e.counters /\ f.hostile = e.hostile
<1>1. route.encounter \in Encounters
  BY RuntimeParts
<1> QED
  BY <1>1 DEF HitCounted, Encounters, SameButHits

\* A counterattack counts itself and its damage.
LEMMA CounterFields ==
    ASSUME NEW e \in Encounters, Selection \in Selections
    PROVE  LET f == Countered(e)
           IN  /\ SameButHits(e, f) /\ f.hits = e.hits /\ f.remaining = e.remaining
               /\ f.counters = e.counters + 1
               /\ f.hostile = e.hostile + EffectOf(Selection).counter
<1>1. Selection # None
  BY AbsenceAssumption
<1> QED
  BY <1>1 DEF Countered, Encounters, SameButHits

\* Hits of two strengths do no more than as many of the stronger.
LEMMA StrongerHits ==
    ASSUME NEW n \in Nat, NEW a \in Nat, NEW b \in Nat
    PROVE  n * a + b <= (n + 1) * a \/ n * a + b <= (n + 1) * b
<1>1. (n + 1) * a = n * a + a /\ (n + 1) * b = n * b + b
  OBVIOUS
<1>2. CASE b <= a
  BY <1>1, <1>2
<1>3. CASE a <= b
  <2>1. n * a <= n * b
    BY <1>3
  <2>2. n * a \in Int /\ n * b \in Int /\ (n + 1) * b \in Int
    OBVIOUS
  <2> QED
    BY <1>1, <2>1, <2>2
<1> QED
  BY <1>2, <1>3

\* One blow more, struck by a weapon of the members.
Fought(n, v, w, remaining, left, effective) ==
    /\ n \in Nat /\ v \in Weapons /\ w \in Weapons
    /\ remaining \in Nat /\ left \in Nat /\ effective \in Nat
    /\ left = remaining - Damage[v]
    /\ remaining + 7 * n <= effective /\ effective <= remaining + n * Damage[w]

\* The damage stays between that of the weakest and that of the strongest weapon.
LEMMA FightGoesOn ==
    ASSUME Moderate, NEW n, NEW v, NEW w, NEW remaining, NEW left, NEW effective,
           Fought(n, v, w, remaining, left, effective)
    PROVE  /\ left + 7 * (n + 1) <= effective
           /\ \E u \in Weapons : effective <= left + (n + 1) * Damage[u]
<1> DEFINE a == Damage[w]
           b == Damage[v]
<1>0. /\ n \in Nat /\ v \in Weapons /\ w \in Weapons
      /\ remaining \in Nat /\ left \in Nat /\ effective \in Nat
      /\ left = remaining - b /\ remaining + 7 * n <= effective
      /\ effective <= remaining + n * a
  BY DEF Fought
<1>1. a \in Nat /\ b \in Nat /\ b >= 7
  BY <1>0, RouteAssumption DEF Moderate
<1> HIDE DEF a, b
<1>3. left + 7 * (n + 1) <= effective
  BY <1>0, <1>1
<1>4. effective <= left + (n * a + b)
  <2>1. n * a \in Int
    BY <1>0, <1>1
  <2> QED
    BY <1>0, <1>1, <2>1
<1>5. n * a + b <= (n + 1) * a \/ n * a + b <= (n + 1) * b
  BY <1>0, <1>1, StrongerHits
<1>6. n * a + b \in Int /\ (n + 1) * a \in Int /\ (n + 1) * b \in Int
  BY <1>0, <1>1
<1>7. effective <= left + (n + 1) * a \/ effective <= left + (n + 1) * b
  BY <1>0, <1>4, <1>5, <1>6
<1> QED
  BY <1>0, <1>3, <1>7 DEF a, b

\* The Warden strikes back at the second and the fourth blow.
Counters(n) == IF n >= 4 THEN 2 ELSE n \div 2

\* One blow more, and a counterattack at the second and the fourth.
LEMMA StrikesCount ==
    ASSUME NEW n \in Nat
    PROVE  /\ (n + 1) % 2 = 0 /\ Counters(n) < 2 => Counters(n + 1) = Counters(n) + 1
           /\ ~((n + 1) % 2 = 0 /\ Counters(n) < 2) => Counters(n + 1) = Counters(n)
<1>1. CASE n >= 4
  BY <1>1 DEF Counters
<1>2. CASE n = 0
  BY <1>2 DEF Counters
<1>3. CASE n = 1
  BY <1>3 DEF Counters
<1>4. CASE n = 2
  BY <1>4 DEF Counters
<1>5. CASE n = 3
  BY <1>5 DEF Counters
<1> QED
  BY <1>1, <1>2, <1>3, <1>4, <1>5

\* A blow that the Warden survives keeps the evidence and the enemy in step.
LEMMA EvidenceOfHits ==
    ASSUME Moderate, SessionInv, EvidenceInv, NEW p \in Players, HitWarden(p)
    PROVE  EvidenceInv'
<1> DEFINE health == Struck(enemy.health, equipped[p])
           back   == StrikesBack(enemy)
           hit    == HitCounted(health)
           enc    == IF back THEN Countered(hit) ELSE hit
           e      == route.encounter
<1>0. /\ stage = "Boss" /\ stage' = "Boss" /\ health > 0
      /\ enemy' = [health |-> health, accepted |-> enemy.accepted + 1,
                   counters |-> enemy.counters + IF back THEN 1 ELSE 0]
      /\ route' = [route EXCEPT !.encounter = enc]
  BY DEF HitWarden
<1>1. /\ route # None /\ route \in Runtimes /\ enemy \in Enemies /\ enemy.counters = e.counters
      /\ e \in Encounters /\ equipped[p] \in Weapons
  BY <1>0, RuntimeParts DEF SessionInv, StageInv, TypeOK, WardenInv
<1>2. health \in Nat /\ enemy.health \in Nat /\ enemy.health > 0
      /\ health = enemy.health - Damage[equipped[p]]
  <2>1. enemy.health \in Nat /\ health \in Nat
    BY <1>1, BlowTakes DEF Enemies
  <2>2. Damage[equipped[p]] \in Nat
    BY <1>1, RouteAssumption
  <2> QED
    BY <1>0, <2>1, <2>2 DEF Struck
<1>3. route'.encounter = enc /\ route'.operation = route.operation
  BY <1>0, <1>1 DEF Runtimes
<1> HIDE DEF health
<1>4. /\ SameButHits(e, hit) /\ hit.hits = e.hits + 1 /\ hit.remaining = health
      /\ hit.counters = e.counters /\ hit.hostile = e.hostile /\ hit \in Encounters
  BY <1>1, <1>2, HitFields, HitIsCounted
<1> HIDE DEF hit, e
<1>5. CASE ~Routed
  <2>1. ~Routed'
    BY <1>1, <1>3, <1>5 DEF Routed
  <2>2. SameButHits(e, enc)
    <3>1. CASE back
      BY <1>4, <3>1 DEF Countered, Encounters, SameButHits
    <3>2. CASE ~back
      BY <1>4, <3>2
    <3> QED
      BY <3>1, <3>2
  <2> HIDE DEF enc
  <2> QED
    BY <1>0, <1>1, <1>3, <2>1, <2>2 DEF EvidenceInv, SameButHits, e
<1>6. CASE Routed
  <2>1. Selection \in Selections /\ EffectOf(Selection).counter \in Nat
    <3>1. Selection \in Selections
      BY <1>6, RouteRuns DEF SessionInv
    <3> QED
      BY <3>1, EffectsOfEvents
  <2> DEFINE strength == EffectOf(Selection).counter
             more     == IF back THEN 1 ELSE 0
  <2> HIDE DEF strength
  <2>2. /\ SameButHits(e, enc) /\ enc.hits = e.hits + 1 /\ enc.remaining = health
        /\ enc.counters = (IF back THEN e.counters + 1 ELSE e.counters)
        /\ enc.hostile = IF back THEN e.hostile + strength ELSE e.hostile
    <3>1. CASE back
      BY <1>4, <2>1, <3>1, CounterFields DEF SameButHits, strength
    <3>2. CASE ~back
      BY <1>4, <3>2
    <3> QED
      BY <3>1, <3>2
  <2> HIDE DEF enc
  <2>3. /\ e.spawned /\ e.remaining = enemy.health
        /\ e.hostile = DroneDamage + e.counters * strength
        /\ e.hits = enemy.accepted
        /\ e.remaining + 7 * e.hits <= e.effective
        /\ e.counters = IF e.hits >= 4 THEN 2 ELSE e.hits \div 2
        /\ \E w \in Weapons : e.effective <= e.remaining + e.hits * Damage[w]
    BY <1>0, <1>1, <1>2, <1>6 DEF EvidenceInv, HitInv, e, strength
  <2>4. back <=> (e.hits + 1) % 2 = 0 /\ e.counters < 2
    BY <1>1, <2>3 DEF StrikesBack
  <2>5. /\ e.hits \in Nat /\ e.counters \in 0 .. 2 /\ e.remaining \in Nat /\ e.effective \in Nat
        /\ strength \in Nat
    BY <1>1, <2>1 DEF Encounters, strength
  <2> HIDE DEF back
  <2>6. enc.counters = IF enc.hits >= 4 THEN 2 ELSE enc.hits \div 2
    <3>1. /\ (e.hits + 1) % 2 = 0 /\ Counters(e.hits) < 2 =>
                 Counters(e.hits + 1) = Counters(e.hits) + 1
          /\ ~((e.hits + 1) % 2 = 0 /\ Counters(e.hits) < 2) =>
                 Counters(e.hits + 1) = Counters(e.hits)
      BY <2>5, StrikesCount
    <3>2. e.counters = Counters(e.hits)
      BY <2>3 DEF Counters
    <3>3. enc.counters = Counters(e.hits + 1)
      BY <2>2, <2>4, <3>1, <3>2
    <3> QED
      BY <2>2, <3>3 DEF Counters
  <2>7. /\ enc.remaining + 7 * enc.hits <= enc.effective
        /\ \E u \in Weapons : enc.effective <= enc.remaining + enc.hits * Damage[u]
    <3>1. PICK w \in Weapons : e.effective <= e.remaining + e.hits * Damage[w]
      BY <2>3
    <3>2. health = e.remaining - Damage[equipped[p]]
      BY <1>2, <2>3
    <3>a. Fought(e.hits, equipped[p], w, e.remaining, health, e.effective)
      BY <1>1, <1>2, <2>3, <2>5, <3>1, <3>2 DEF Fought
    <3>3. /\ health + 7 * (e.hits + 1) <= e.effective
          /\ \E u \in Weapons : e.effective <= health + (e.hits + 1) * Damage[u]
      BY <3>a, FightGoesOn
    <3> QED
      BY <2>2, <3>3 DEF SameButHits
  <2>8. enc.hostile = DroneDamage + enc.counters * strength
    <3>1. CASE back
      <4>1. (e.counters + 1) * strength = e.counters * strength + strength
        BY <2>5
      <4>2. e.counters * strength \in Int
        BY <2>5
      <4> QED
        BY <2>2, <2>3, <2>5, <3>1, <4>1, <4>2 DEF DroneDamage
    <3>2. CASE ~back
      BY <2>2, <2>3, <3>2
    <3> QED
      BY <3>1, <3>2
  <2>9. Selection' = Selection /\ Routed'
    <3>1. route' # None
      <4>1. SessionInv'
        BY HitWardenKeeps
      <4> QED
        BY <1>0, <4>1 DEF SessionInv, StageInv
    <3> QED
      BY <1>3, <1>6, <3>1 DEF Selection, Routed
  <2>10. enemy'.health = health /\ enemy'.accepted = enemy.accepted + 1
    BY <1>0
  <2>11. HitInv'
    BY <1>3, <2>2, <2>3, <2>6, <2>7, <2>8, <2>9, <2>10 DEF HitInv, SameButHits, strength
  <2> QED
    BY <1>0, <1>1, <1>3, <1>6, <2>2, <2>9, <2>11 DEF EvidenceInv, SameButHits, e
<1> QED
  BY <1>5, <1>6

\* A fresh coordinator has no evidence.
LEMMA EvidenceReset == ASSUME Reset PROVE EvidenceInv'
  BY EvidenceGone DEF Reset

\* The blow is counted although the operation goes on.
LEMMA EvidenceOfDeadWarden ==
    ASSUME SessionInv, EvidenceInv, Routed, stage = "Boss", stage' = stage,
           route' = [route EXCEPT !.encounter = HitCounted(0)],
           enemy' = [enemy EXCEPT !.health = 0]
    PROVE  EvidenceInv'
<1> DEFINE e   == route.encounter
           enc == HitCounted(0)
<1>1. /\ route # None /\ route \in Runtimes /\ enemy \in Enemies
  BY DEF SessionInv, StageInv, TypeOK
<1>2. /\ SameButHits(e, enc) /\ enc.remaining = 0
      /\ enc.counters = e.counters /\ enc.hostile = e.hostile
  BY <1>1, HitFields
<1>3. route'.encounter = enc /\ route'.operation = route.operation /\ enemy'.health = 0
  BY <1>1 DEF Runtimes, Enemies
<1> HIDE DEF enc, e
<1>4. Selection' = Selection /\ (Routed' => Routed)
  BY <1>3 DEF Selection, Routed
<1>5. HitInv
  BY <1>1 DEF EvidenceInv
<1>6. e.spawned /\ e.hostile = DroneDamage + e.counters * EffectOf(Selection).counter
  BY <1>5 DEF HitInv, e
<1>7. HitInv'
  <2>1. ~(enemy'.health > 0)
    BY <1>3
  <2>2. route'.encounter.spawned /\ route'.encounter.remaining = enemy'.health
    BY <1>2, <1>3, <1>6 DEF SameButHits
  <2>3. route'.encounter.hostile =
            DroneDamage + route'.encounter.counters * EffectOf(Selection').counter
    BY <1>2, <1>3, <1>4, <1>6
  <2> QED
    BY <2>1, <2>2, <2>3, Zenon DEF HitInv
<1> QED
  BY <1>1, <1>2, <1>3, <1>4, <1>7 DEF EvidenceInv, SameButHits, e

\* The end has been installed in memory.
LEMMA EvidenceOfEnd ==
    ASSUME SessionInv, EvidenceInv, Routed, NEW op, NEW outcome, NEW elapsed,
           Ends(op, outcome, elapsed), NEW tr, NEW enc, SameButHits(route.encounter, enc),
           NEW last \in {"Complete", "Failed"}, Leader \in members, Ended(op, tr, enc, last)
    PROVE  EvidenceInv'
<1>1. /\ route # None /\ route \in Runtimes /\ stage # "Drone"
  BY RouteRuns DEF SessionInv
<1>2. op.phase \in {"Succeeded", "Failed"}
  BY EndOfOperation
<1>3. route'.operation = op /\ route'.encounter = enc /\ stage' = last
  BY <1>1 DEF Ended, Runtimes
<1>4. ~Routed'
  BY <1>2, <1>3 DEF Routed
<1> QED
  BY <1>1, <1>3, <1>4 DEF EvidenceInv, SameButHits

\* The kill ends the operation, or leaves a dead Warden with its evidence.
LEMMA EvidenceOfKill ==
    ASSUME SessionInv, EvidenceInv, NEW p \in Players, NEW elapsed \in 0 .. MaxClock,
           KillWarden(p, elapsed)
    PROVE  EvidenceInv'
<1>1. stage = "Boss" /\ route # None /\ route \in Runtimes
  BY DEF KillWarden, SessionInv, StageInv, TypeOK
<1>2. SameButHits(route.encounter, HitCounted(0))
  BY <1>1, HitFields
<1>3. CASE AppendFails
  BY <1>3, EvidenceReset DEF AppendFails, Abort
<1>4. CASE ~Routed /\ CompleteBaseline(HitCounted(0))
  <2>1. CASE Reset
    BY <2>1, EvidenceReset
  <2>2. CASE stage' = "Complete" /\ route' = [route EXCEPT !.encounter = HitCounted(0)]
    <3>1. route'.encounter = HitCounted(0) /\ route'.operation = route.operation
      BY <1>1, <2>2 DEF Runtimes
    <3>2. ~Routed'
      BY <1>1, <1>4, <3>1 DEF Routed
    <3> QED
      BY <1>1, <1>2, <2>2, <3>1, <3>2 DEF EvidenceInv, SameButHits
  <2> QED
    BY <1>4, <2>1, <2>2 DEF CompleteBaseline, Commit, Abort
<1>5. CASE Routed /\ CompleteRouted(HitCounted(0), elapsed)
  <2> DEFINE op   == Finish(route.operation, "Succeeded", elapsed)
             tr   == Append(route.transitions, Completes("defeat_warden"))
             enc  == HitCounted(0)
             done == /\ Ended(op, tr, enc, "Complete") /\ clock' = elapsed /\ EndedElsewhere
  <2>1. CASE op = None
    <3>1. /\ route' = [route EXCEPT !.encounter = HitCounted(0)]
          /\ enemy' = [enemy EXCEPT !.health = 0] /\ stage' = stage
      BY <1>5, <2>1 DEF CompleteRouted
    <3> QED
      BY <1>1, <1>5, <3>1, EvidenceOfDeadWarden
  <2>2. CASE op # None
    <3>1. StoreEnd(op, tr, enc, "completion refused", done)
      BY <1>5, <2>2 DEF CompleteRouted
    <3>2. Ends(op, "Succeeded", elapsed)
      BY <2>2 DEF Ends
    <3>3. done => Ended(op, tr, enc, "Complete")
      OBVIOUS
    <3> HIDE DEF op, tr, enc, done
    <3>4. Reset \/ done
      BY <3>1 DEF StoreEnd, Commit, Abort
    <3>5. CASE Reset
      BY <3>5, EvidenceReset
    <3>6. CASE done /\ Leader \in members
      BY <1>2, <1>5, <3>2, <3>3, <3>6, EvidenceOfEnd DEF enc
    <3>7. CASE done /\ Leader \notin members
      <4>1. /\ route' = [route EXCEPT !.encounter = HitCounted(0)]
            /\ enemy' = [enemy EXCEPT !.health = 0] /\ stage' = stage
        BY <3>3, <3>7 DEF Ended, enc
      <4> QED
        BY <1>1, <1>5, <4>1, EvidenceOfDeadWarden
    <3> QED
      BY <3>4, <3>5, <3>6, <3>7
  <2> QED
    BY <2>1, <2>2
<1> QED
  BY <1>3, <1>4, <1>5 DEF KillWarden

\* The deadline ends the operation, or leaves the evidence as it was.
LEMMA EvidenceOfDeadline == ASSUME SessionInv, EvidenceInv, ObserveDeadline PROVE EvidenceInv'
<1> DEFINE op     == Finish(route.operation, "FailedTimeout", clock)
           active == CHOOSE o \in ActiveObjectives(
                        ObjectivePath(Selection.route), route.transitions) : TRUE
           tr     == Append(route.transitions, Fails(active))
           enc    == route.encounter
           done   == Ended(op, tr, enc, "Failed") /\ UNCHANGED clock /\ EndedElsewhere
<1>1. Routed /\ clock > Budget /\ StoreEnd(op, tr, enc, "timeout refused", done)
  BY DEF ObserveDeadline, Late
<1>2. Ends(op, "FailedTimeout", clock)
  BY <1>1, DeadlineEnds DEF Ends, SessionInv, TypeOK
<1>3. done => Ended(op, tr, enc, "Failed")
  OBVIOUS
<1> HIDE DEF op, tr, done
<1>4. Reset \/ done
  BY <1>1 DEF StoreEnd, Commit, Abort
<1>5. CASE Reset
  BY <1>5, EvidenceReset
<1>6. CASE done /\ Leader \in members
  <2>1. SameButHits(route.encounter, enc)
    BY DEF SameButHits
  <2> QED
    BY <1>1, <1>2, <1>3, <1>6, <2>1, EvidenceOfEnd
<1>7. CASE done /\ Leader \notin members
  <2>1. route' = [route EXCEPT !.encounter = enc] /\ enemy' = enemy /\ stage' = stage
    BY <1>3, <1>7 DEF Ended
  <2>2. route' = route
    BY <1>1, <2>1, RouteRuns DEF SessionInv, Runtimes
  <2> QED
    BY <2>1, <2>2, EvidenceStays
<1> QED
  BY <1>4, <1>5, <1>6, <1>7

\* With moderate weapons every step keeps the evidence.
LEMMA EvidenceKept ==
    ASSUME Moderate, SessionInv, EvidenceInv, [Next]_vars PROVE EvidenceInv'
<1>1. ASSUME NEW p \in Players, Act(p) PROVE EvidenceInv'
  <2>1. CASE RequestRouteState(p)
    BY <2>1, EvidenceOfRequests
  <2>2. CASE \E weapon \in Weapons : Equip(p, weapon)
    <3>1. Reset \/ UNCHANGED <<route, stage, enemy>>
      BY <2>2 DEF Equip, Commit, Abort
    <3> QED
      BY <3>1, EvidenceReset, EvidenceStays
  <2>3. CASE \E choice \in Selections : ChooseRoute(p, choice)
    BY <2>3, EvidenceOfChoice
  <2>4. CASE ReachStabilizer(p) \/ ReachDoor(p)
    BY <2>4, EvidenceOfStabilizer, EvidenceOfDoor
  <2>5. CASE HitDrone(p) \/ HitWarden(p)
    BY <2>5, EvidenceOfDrone, EvidenceOfHits
  <2>6. CASE \E elapsed \in 0 .. MaxClock : KillWarden(p, elapsed)
    BY <2>6, EvidenceOfKill
  <2>7. CASE Disconnect(p)
    <3>1. Reset \/ UNCHANGED <<route, stage, enemy>>
      BY <2>7 DEF Disconnect
    <3> QED
      BY <3>1, EvidenceReset, EvidenceStays
  <2> QED
    BY <1>1, <2>1, <2>2, <2>3, <2>4, <2>5, <2>6, <2>7 DEF Act
<1>2. CASE Tick \/ UNCHANGED vars
  BY <1>2, EvidenceStays DEF Tick, vars
<1>3. CASE StartActivity
  BY <1>3, EvidenceStarts
<1>4. CASE StartCooperation
  BY <1>4, EvidenceOfCooperation
<1>5. CASE ObserveDeadline
  BY <1>5, EvidenceOfDeadline
<1> QED
  BY <1>1, <1>2, <1>3, <1>4, <1>5 DEF Next

-----------------------------------------------------------------------------
(* The evidence is accepted *)

\* Everybody who started is named, the Warden has the health of all, and no weapon is
\* stronger than all that were selected.
Unexcused ==
    /\ DOMAIN route.replay.weapons = Players
    /\ route.encounter.base = WardenHealth(N)
    /\ \A w \in Weapons : \E p \in Players : ~(Damage[w] > Damage[route.replay.weapons[p]])

\* The players are as many as the constant says.
LEMMA PlayersAreN == Cardinality(Players) = N
<1>1. N \in {1, 2} /\ Players = 1 .. N
  BY RouteAssumption DEF Players
<1>2. 1 \in Int /\ N \in Int
  BY <1>1
<1>3. Cardinality(1 .. N) = IF 1 > N THEN 0 ELSE N - 1 + 1
  BY <1>2, FS_Interval
<1> QED
  BY <1>1, <1>3

\* The health of the Warden with the effect of a route.
LEMMA WardenBounds ==
    ASSUME NEW s \in Selections
    PROVE  LET full == ApplyHealthEffect(WardenHealth(N), EffectOf(s))
           IN  full \in Nat /\ full >= WardenHealth(N) /\ full <= 432
<1>1. WardenHealth(N) \in {240, 360}
  <2>1. WardenHealth(1) = 240 /\ WardenHealth(2) = 360
    BY DEF WardenHealth, ScaledHealth
  <2> QED
    BY <2>1, RouteAssumption
<1> DEFINE base == WardenHealth(N)
           h    == EffectOf(s).health
           full == (base * h + 5000) \div 10000
<1>2. base \in {240, 360} /\ h \in {10000, 11000, 12000}
  BY <1>1, EffectsOfEvents
<1>3. full \in Nat /\ full >= base /\ full <= 432
  <2> HIDE DEF base, h
  <2>1. ASSUME base = 240 PROVE full \in Nat /\ full >= base /\ full <= 432
    BY <1>2, <2>1
  <2>2. ASSUME base = 360 PROVE full \in Nat /\ full >= base /\ full <= 432
    BY <1>2, <2>2
  <2> HIDE DEF full
  <2> QED
    BY <1>2, <2>1, <2>2
<1> QED
  BY <1>3 DEF ApplyHealthEffect

\* What was selected is what is stored, and weapons were held by those who took part.
LEMMA SelectedWeapons ==
    ASSUME SessionInv, Routed
    PROVE  /\ route.replay = db.route.replay /\ route.replay.selection = Selection
           /\ route.replay.weapons \in [DOMAIN route.replay.weapons -> Weapons]
           /\ db.route # None
<1>1. route # None /\ Selection \in Selections /\ Selection # None
  BY RouteRuns, AbsenceAssumption DEF SessionInv
<1>2. /\ db.route # None /\ route.replay = db.route.replay
      /\ route.replay.selection = Selection
  BY <1>1 DEF SessionInv, StorageInv, Selection
<1>3. db.route \in Rows
  BY <1>2 DEF SessionInv, TypeOK, Databases
<1>4. db.route.replay \in Replays
  BY <1>3 DEF Rows
<1>5. db.route.replay.weapons \in UNION {[P -> Weapons] : P \in SUBSET Players}
  BY <1>4 DEF Replays
<1>6. PICK P \in SUBSET Players : db.route.replay.weapons \in [P -> Weapons]
  BY <1>5
<1> QED
  BY <1>2, <1>6

\* A selected weapon does in as many hits what any weapon does.
LEMMA SelectedSuffices ==
    ASSUME SessionInv, Routed, Unexcused, NEW n \in Nat, NEW u \in Weapons
    PROVE  \E p \in DOMAIN route.replay.weapons :
               n * Damage[route.replay.weapons[p]] >= n * Damage[u]
<1>1. PICK p \in Players : ~(Damage[u] > Damage[route.replay.weapons[p]])
  BY DEF Unexcused
<1>2. route.replay.weapons[p] \in Weapons
  BY <1>1, SelectedWeapons DEF Unexcused
<1> DEFINE a == Damage[u]
           b == Damage[route.replay.weapons[p]]
<1>3. a \in Nat /\ b \in Nat /\ a <= b
  BY <1>1, <1>2, RouteAssumption
<1> HIDE DEF a, b
<1>4. n * b >= n * a
  BY <1>3
<1> QED
  BY <1>1, <1>4 DEF a, b, Unexcused

\* The blow that kills the Warden of n hits.
Finishes(n, v, w, remaining, effective) ==
    /\ n \in Nat /\ v \in Weapons /\ w \in Weapons
    /\ remaining \in Nat /\ effective \in Nat /\ WardenHealth(N) \in Nat
    /\ remaining <= Damage[v] /\ remaining + 7 * n <= effective /\ effective <= 432
    /\ effective >= WardenHealth(N) /\ effective <= remaining + n * Damage[w]

\* It has struck back twice by then, and not all the hits are used up that may be reported.
LEMMA FourBlowsBefore ==
    ASSUME Moderate, NEW n, NEW v, NEW w, NEW remaining, NEW effective,
           Finishes(n, v, w, remaining, effective)
    PROVE  /\ n >= 4 /\ n + 1 <= 64
           /\ \E u \in Weapons : (n + 1) * Damage[u] >= effective
<1> DEFINE a == Damage[w]
           b == Damage[v]
<1>0. /\ n \in Nat /\ v \in Weapons /\ w \in Weapons
      /\ remaining \in Nat /\ effective \in Nat /\ WardenHealth(N) \in Nat
      /\ remaining <= b /\ remaining + 7 * n <= effective /\ effective <= 432
      /\ effective >= WardenHealth(N) /\ effective <= remaining + n * a
  BY DEF Finishes
<1>1. a \in Nat /\ b \in Nat /\ 4 * a < WardenHealth(N) /\ 4 * b < WardenHealth(N)
  BY <1>0, RouteAssumption DEF Moderate
<1> HIDE DEF a, b
<1>2. n + 1 <= 64
  BY <1>0
<1>3. n >= 4
  <2>1. CASE n = 0
    BY <1>0, <1>1, <2>1
  <2>2. CASE n = 1
    BY <1>0, <1>1, <2>2
  <2>3. CASE n = 2
    BY <1>0, <1>1, <2>3
  <2>4. CASE n = 3
    BY <1>0, <1>1, <2>4
  <2> QED
    BY <1>0, <2>1, <2>2, <2>3, <2>4
<1>4. n * a + b <= (n + 1) * a \/ n * a + b <= (n + 1) * b
  BY <1>0, <1>1, StrongerHits
<1>5. n * a \in Int /\ (n + 1) * a \in Int /\ (n + 1) * b \in Int
  BY <1>0, <1>1
<1>6. (n + 1) * a >= effective \/ (n + 1) * b >= effective
  BY <1>0, <1>1, <1>4, <1>5
<1> QED
  BY <1>0, <1>2, <1>3, <1>6 DEF a, b

\* What the validator asks of the evidence of any encounter that nothing excuses.
LEMMA EncounterFits ==
    ASSUME SessionInv, EvidenceInv, Routed, Unexcused
    PROVE  LET e == route.encounter
           IN  /\ e \in Encounters /\ e.droneDefeated
               /\ e.drone = DroneHealth(Cardinality(DOMAIN route.replay.weapons))
               /\ e.base = WardenHealth(Cardinality(DOMAIN route.replay.weapons))
               /\ e.effective = ApplyHealthEffect(e.base, EffectOf(route.replay.selection))
               /\ e.effective \in Nat /\ e.effective >= WardenHealth(N) /\ e.effective <= 432
               /\ WardenHealth(N) \in Nat
               /\ route.replay.selection = Selection
<1>1. /\ route # None /\ route.encounter \in Encounters /\ Selection \in Selections
      /\ stage \in {"Stabilizer", "Door", "Boss"}
  BY RouteRuns DEF SessionInv
<1>2. route.replay.selection = Selection
  BY SelectedWeapons
<1>3. Cardinality(DOMAIN route.replay.weapons) = N
  BY PlayersAreN DEF Unexcused
<1>4. /\ route.encounter.drone = DroneHealth(N) /\ route.encounter.droneDefeated
      /\ route.encounter.effective = ApplyHealthEffect(route.encounter.base, EffectOf(Selection))
  BY <1>1 DEF EvidenceInv
<1>5. route.encounter.base = WardenHealth(N) /\ WardenHealth(N) \in Nat
  BY <1>1 DEF Unexcused, Encounters
<1> QED
  BY <1>1, <1>2, <1>3, <1>4, <1>5, WardenBounds

\* The evidence of the blow that kills the Warden is accepted.
LEMMA KillIsAccepted ==
    ASSUME Moderate, SessionInv, EvidenceInv, Routed, Unexcused, stage = "Boss",
           enemy.health > 0, NEW v \in Weapons, Struck(enemy.health, v) = 0
    PROVE  ValidEncounter(HitCounted(0), route.replay, "Succeeded", "defeat_warden")
<1> DEFINE e == route.encounter
           f == HitCounted(0)
           n == e.hits
           c == EffectOf(Selection).counter
<1>1. /\ e \in Encounters /\ e.droneDefeated
      /\ e.drone = DroneHealth(Cardinality(DOMAIN route.replay.weapons))
      /\ e.base = WardenHealth(Cardinality(DOMAIN route.replay.weapons))
      /\ e.effective = ApplyHealthEffect(e.base, EffectOf(route.replay.selection))
      /\ e.effective \in Nat /\ e.effective >= WardenHealth(N) /\ e.effective <= 432
      /\ WardenHealth(N) \in Nat /\ route.replay.selection = Selection
  BY EncounterFits
<1>2. /\ SameButHits(e, f) /\ f.hits = n + 1 /\ f.remaining = 0
      /\ f.counters = e.counters /\ f.hostile = e.hostile
  BY RouteRuns, HitFields DEF SessionInv
<1>3. HitInv
  BY RouteRuns DEF EvidenceInv, SessionInv
<1>4. PICK w \in Weapons : e.effective <= e.remaining + n * Damage[w]
  BY <1>3 DEF HitInv
<1>5. /\ e.spawned /\ e.remaining = enemy.health /\ e.remaining + 7 * n <= e.effective
      /\ e.counters = (IF n >= 4 THEN 2 ELSE n \div 2) /\ e.hostile = DroneDamage + e.counters * c
  BY <1>3 DEF HitInv
<1>6. n \in Nat /\ e.remaining \in Nat /\ c \in {10, 15, 20}
  <2>1. Selection \in Selections
    BY RouteRuns DEF SessionInv
  <2> QED
    BY <1>1, <2>1, EffectsOfEvents DEF Encounters
<1>7. e.remaining <= Damage[v]
  <2>1. Damage[v] \in Nat /\ enemy.health \in Nat
    BY <1>5, <1>6, RouteAssumption
  <2> QED
    BY <1>5, <2>1 DEF Struck
<1>8. Finishes(n, v, w, e.remaining, e.effective)
  BY <1>1, <1>4, <1>5, <1>6, <1>7 DEF Finishes
<1>9. PICK u \in Weapons : n >= 4 /\ n + 1 <= 64 /\ (n + 1) * Damage[u] >= e.effective
  BY <1>8, FourBlowsBefore
<1>10. PICK p \in DOMAIN route.replay.weapons :
           (n + 1) * Damage[route.replay.weapons[p]] >= (n + 1) * Damage[u]
  BY <1>6, SelectedSuffices
<1>11. /\ e.counters = 2 /\ e.hostile = 10 + 2 * c
  BY <1>5, <1>6, <1>9 DEF DroneDamage
<1>12. e.effective > 0
  BY <1>1, <1>5, <1>6, <1>9
<1> HIDE DEF f, c
<1>13. ValidHitEnvelope(f, route.replay.weapons)
  <2> DEFINE d == Damage[route.replay.weapons[p]]
  <2>1. d \in Nat /\ Damage[u] \in Nat
    BY SelectedWeapons, RouteAssumption
  <2>2. (n + 1) * d >= e.effective
    <3>1. (n + 1) * d \in Int /\ (n + 1) * Damage[u] \in Int
      BY <1>6, <2>1
    <3> QED
      BY <1>1, <1>9, <1>10, <3>1
  <2>3. f.effective - f.remaining = e.effective /\ f.hits = n + 1
    BY <1>1, <1>2 DEF SameButHits
  <2> HIDE DEF e, n
  <2> QED
    BY <1>12, <2>2, <2>3 DEF ValidHitEnvelope
<1>14. /\ f.counters = 2 /\ f.hostile = 10 + 2 * c /\ f.hostile <= 50
       /\ f.hits = n + 1 /\ f.hits > 0 /\ f.hits <= 64
  BY <1>2, <1>6, <1>9, <1>11
<1>15. /\ f.drone = e.drone /\ f.droneDefeated = e.droneDefeated /\ f.spawned = e.spawned
       /\ f.base = e.base /\ f.effective = e.effective /\ f.remaining <= f.effective
  BY <1>1, <1>2 DEF SameButHits
<1>16. f.counters * EffectOf(route.replay.selection).counter = 2 * c
  BY <1>1, <1>14 DEF c
<1> HIDE DEF e, n
<1>17. ValidEncounter(f, route.replay, "Succeeded", "defeat_warden")
  BY <1>1, <1>2, <1>5, <1>6, <1>13, <1>14, <1>15, <1>16 DEF ValidEncounter, DroneDamage
<1> QED
  BY <1>17 DEF f

\* What a deadline has to find at the objective it fails.
LEMMA FailurePath ==
    ASSUME NEW e, e.droneDefeated,
           NEW s, \/ s \in {"Stabilizer", "Door"} /\ ~e.spawned
                  \/ s = "Boss" /\ e.spawned /\ e.remaining > 0
    PROVE  ValidFailure(e, Sought[s])
<1>1. CASE s = "Stabilizer"
  <2>1. Sought[s] = "reach_relay_stabilizer" /\ ~e.spawned
    BY <1>1 DEF Sought
  <2> QED
    BY <2>1, Zenon DEF ValidFailure
<1>2. CASE s = "Door"
  <2>1. Sought[s] = "reach_relay_door" /\ ~e.spawned
    BY <1>2 DEF Sought
  <2> QED
    BY <2>1, Zenon DEF ValidFailure
<1>3. CASE s = "Boss"
  <2>1. Sought[s] = "defeat_warden" /\ e.spawned /\ e.remaining > 0
    BY <1>3 DEF Sought
  <2> QED
    BY <2>1, Zenon DEF ValidFailure
<1> QED
  BY <1>1, <1>2, <1>3

\* So is that of an operation whose deadline has passed, unless the Warden was dead.
LEMMA FailureIsAccepted ==
    ASSUME SessionInv, EvidenceInv, Routed, Unexcused, ~(enemy # None /\ enemy.health = 0)
    PROVE  ValidEncounter(route.encounter, route.replay, "FailedTimeout", Sought[stage])
<1> DEFINE e == route.encounter
           n == e.hits
           c == EffectOf(Selection).counter
<1>1. /\ e \in Encounters /\ e.droneDefeated
      /\ e.drone = DroneHealth(Cardinality(DOMAIN route.replay.weapons))
      /\ e.base = WardenHealth(Cardinality(DOMAIN route.replay.weapons))
      /\ e.effective = ApplyHealthEffect(e.base, EffectOf(route.replay.selection))
      /\ e.effective \in Nat /\ e.effective <= 432 /\ route.replay.selection = Selection
  BY EncounterFits
<1>2. stage \in {"Stabilizer", "Door", "Boss"} /\ route # None /\ Selection \in Selections
  BY RouteRuns DEF SessionInv
<1>3. /\ n \in Nat /\ e.remaining \in Nat /\ e.counters \in 0 .. 2 /\ e.hostile \in Nat
      /\ c \in {10, 15, 20}
  BY <1>1, <1>2, EffectsOfEvents DEF Encounters
<1>4. /\ e.hostile = DroneDamage + e.counters * c /\ n <= 64 /\ e.remaining <= e.effective
      /\ ~e.spawned => e.remaining = 0 /\ n = 0 /\ e.counters = 0
      /\ ValidHitEnvelope(e, route.replay.weapons)
      /\ \/ stage \in {"Stabilizer", "Door"} /\ ~e.spawned
         \/ stage = "Boss" /\ e.spawned /\ e.remaining > 0
  <2>1. CASE stage \in {"Stabilizer", "Door"}
    <3>1. ~e.spawned /\ n = 0 /\ e.remaining = 0 /\ e.hostile = DroneDamage
      BY <1>2, <2>1 DEF EvidenceInv
    <3>2. e.counters = 0
      BY <1>2, <2>1 DEF SessionInv, WardenInv
    <3>3. ValidHitEnvelope(e, route.replay.weapons)
      BY <3>1 DEF ValidHitEnvelope
    <3>4. e.hostile = DroneDamage + e.counters * c
      BY <1>3, <3>1, <3>2 DEF DroneDamage
    <3> HIDE DEF e, c
    <3> QED
      BY <1>1, <1>3, <2>1, <3>1, <3>2, <3>3, <3>4
  <2>2. CASE stage = "Boss"
    <3>1. HitInv
      BY <1>2, <2>2 DEF EvidenceInv
    <3>2. e.spawned /\ e.remaining = enemy.health /\ e.hostile = DroneDamage + e.counters * c
      BY <3>1 DEF HitInv
    <3>3. enemy.health > 0
      <4>1. enemy # None
        BY <2>2 DEF SessionInv, StageInv
      <4> QED
        BY <1>3, <3>2, <4>1
    <3>4. /\ e.remaining + 7 * n <= e.effective
          /\ \E w \in Weapons : e.effective <= e.remaining + n * Damage[w]
      BY <3>1, <3>3 DEF HitInv
    <3>5. PICK w \in Weapons : e.effective <= e.remaining + n * Damage[w]
      BY <3>4
    <3>6. PICK p \in DOMAIN route.replay.weapons :
              n * Damage[route.replay.weapons[p]] >= n * Damage[w]
      BY <1>3, SelectedSuffices
    <3>7. ValidHitEnvelope(e, route.replay.weapons)
      <4> DEFINE d == Damage[route.replay.weapons[p]]
                 k == Damage[w]
      <4>1. d \in Nat /\ k \in Nat
        BY SelectedWeapons, RouteAssumption
      <4>2. n * d >= n * k /\ e.effective <= e.remaining + n * k
        BY <3>5, <3>6
      <4> HIDE DEF d, k
      <4>3. n * d \in Int /\ n * k \in Int
        BY <1>3, <4>1
      <4>4. n * d >= e.effective - e.remaining
        BY <1>1, <1>3, <4>2, <4>3
      <4>5. n = 0 \/ e.effective - e.remaining > 0
        BY <1>1, <1>3, <3>4
      <4> QED
        BY <4>4, <4>5 DEF ValidHitEnvelope, d
    <3> HIDE DEF e, c, n
    <3> QED
      BY <1>1, <1>3, <2>2, <3>2, <3>3, <3>4, <3>7
  <2> QED
    BY <1>2, <2>1, <2>2
<1>5. ValidFailure(e, Sought[stage])
  BY <1>1, <1>4, FailurePath
<1>6. /\ e.hostile <= 50 /\ e.hostile = e.counters * c + DroneDamage
      /\ EffectOf(route.replay.selection).counter = c
  <2> HIDE DEF e
  <2>1. e.counters \in {0, 1, 2}
    BY <1>3
  <2> QED
    BY <1>1, <1>3, <1>4, <2>1 DEF DroneDamage
<1> HIDE DEF e, c
<1>7. ValidEncounter(e, route.replay, "FailedTimeout", Sought[stage])
  BY <1>1, <1>3, <1>4, <1>5, <1>6 DEF ValidEncounter
<1> QED
  BY <1>7 DEF e

\* The end is what the database would store, and its evidence is accepted with it.
LEMMA EndIsAccepted ==
    ASSUME SessionInv, Routed, Unexcused, NEW op, NEW outcome, NEW elapsed,
           Ends(op, outcome, elapsed), NEW t \in Steps, NEW enc,
           NEW i \in DOMAIN ObjectivePath(Selection.route),
           Walked(ObjectivePath(Selection.route), route.transitions, i),
           Concludes(ObjectivePath(Selection.route), i, t, outcome),
           ValidEncounter(enc, route.replay, outcome, ObjectivePath(Selection.route)[i])
    PROVE  /\ op.terminal = StoredSummary(outcome, elapsed)
           /\ ValidTerminal(db.route.replay, op.terminal, Append(route.transitions, t), enc)
<1> DEFINE path == ObjectivePath(Selection.route)
           tr   == Append(route.transitions, t)
<1>1. /\ PathOf(Selection.route, path) /\ route.transitions \in Seq(Steps)
      /\ route.operation \in Operations
  BY RouteRuns DEF SessionInv
<1>2. /\ route.replay = db.route.replay /\ route.replay.selection = Selection
      /\ DOMAIN route.replay.weapons = Players
  BY SelectedWeapons DEF Unexcused
<1>3. op.terminal = Summary(Selection, Players, outcome, elapsed)
  <2> DEFINE terminal == Summary(route.operation.selection, Players, outcome, elapsed)
             phase    == IF outcome = "Succeeded" THEN "Succeeded" ELSE "Failed"
  <2>1. op = [route.operation EXCEPT !.phase = phase, !.terminal = terminal]
    BY DEF Ends, Finish
  <2> HIDE DEF terminal, phase
  <2>2. op.terminal = terminal
    BY <1>1, <2>1 DEF Operations
  <2> QED
    BY <2>2 DEF terminal, Selection
<1>4. op.terminal = StoredSummary(outcome, elapsed)
  BY <1>2, <1>3 DEF StoredSummary
<1>5. /\ op.terminal.selection = Selection /\ op.terminal.participants = Players
      /\ op.terminal.outcome = outcome /\ op.terminal.elapsed = elapsed
  BY <1>3 DEF Summary
<1>6. WithinBudget(outcome, elapsed)
  BY EndOfOperation
<1>7. ValidTransitions(path, tr, outcome) /\ tr[Len(tr)].objective = path[i]
  BY <1>1, EndedPathIsValid
<1> HIDE DEF path, tr
<1>8. ValidTerminal(db.route.replay, op.terminal, tr, enc)
  BY <1>2, <1>5, <1>6, <1>7 DEF ValidTerminal, path
<1> QED
  BY <1>4, <1>8 DEF tr

\* A step that explains why the validators refused.
ExplainedStep ==
    fault' # fault /\ fault' \in {"completion refused", "timeout refused"} =>
        \/ DOMAIN route.replay.weapons # Players
        \/ route.encounter.base # WardenHealth(N)
        \/ fault' = "timeout refused" /\ enemy # None /\ enemy.health = 0
        \/ \E w \in Weapons : \A p \in Players : Damage[w] > Damage[route.replay.weapons[p]]

\* Only the end of an operation can be refused.
LEMMA OtherFaults ==
    ASSUME fault' = fault \/ fault' \in {"database", "conflict"} PROVE ExplainedStep
  BY DEF ExplainedStep

\* A database error does not explain anything, and needs no explanation.
LEMMA AppendExplained == ASSUME AppendFails PROVE ExplainedStep
  BY OtherFaults DEF AppendFails, Abort

\* The end is refused only where its evidence is, and that has an explanation.
LEMMA EndExplained ==
    ASSUME NEW op, NEW tr, NEW enc, NEW step, NEW refusal,
           StoreEnd(op, tr, enc, refusal, step), step => fault' = fault,
           \/ ~Unexcused
           \/ refusal = "timeout refused" /\ enemy # None /\ enemy.health = 0
           \/ /\ op.terminal = StoredSummary(op.terminal.outcome, op.terminal.elapsed)
              /\ ValidTerminal(db.route.replay, op.terminal, tr, enc)
    PROVE  ExplainedStep
<1>1. \/ fault' \in {"conflict", "database"} \/ fault' = fault
      \/ /\ fault' = refusal
         /\ ~(/\ op.terminal = StoredSummary(op.terminal.outcome, op.terminal.elapsed)
              /\ ValidTerminal(db.route.replay, op.terminal, tr, enc))
  BY DEF StoreEnd, Commit, Abort
<1> QED
  BY <1>1 DEF ExplainedStep, Unexcused

\* A kill whose evidence is refused is explained.
LEMMA KillExplained ==
    ASSUME Moderate, SessionInv, EvidenceInv, NEW p \in Players,
           NEW elapsed \in 0 .. MaxClock, KillWarden(p, elapsed)
    PROVE  ExplainedStep
<1>1. /\ stage = "Boss" /\ enemy.health > 0 /\ Struck(enemy.health, equipped[p]) = 0
      /\ equipped[p] \in Weapons
  BY DEF KillWarden, SessionInv, TypeOK
<1>2. CASE AppendFails
  BY <1>2, AppendExplained
<1>3. CASE CompleteBaseline(HitCounted(0))
  BY <1>3, OtherFaults DEF CompleteBaseline, Commit, Abort, EndedElsewhere
<1>4. CASE Routed /\ CompleteRouted(HitCounted(0), elapsed)
  <2> DEFINE op   == Finish(route.operation, "Succeeded", elapsed)
             t    == Completes("defeat_warden")
             tr   == Append(route.transitions, t)
             enc  == HitCounted(0)
             done == /\ Ended(op, tr, enc, "Complete") /\ clock' = elapsed /\ EndedElsewhere
  <2>1. CASE op = None
    BY <1>4, <2>1, OtherFaults DEF CompleteRouted, EndedElsewhere
  <2>2. CASE op # None
    <3> DEFINE path == ObjectivePath(Selection.route)
    <3>1. StoreEnd(op, tr, enc, "completion refused", done)
      BY <1>4, <2>2 DEF CompleteRouted
    <3>2. Ends(op, "Succeeded", elapsed)
      BY <2>2 DEF Ends
    <3>3. done => fault' = fault
      BY DEF EndedElsewhere
    <3>4. PathOf(Selection.route, path) /\ t \in Steps
      BY <1>4, RouteRuns DEF SessionInv, Completes, Transition, Steps, Objectives
    <3>5. PICK i \in DOMAIN path :
              i > 1 /\ path[i] = Sought[stage] /\ Walked(path, route.transitions, i)
      BY <1>4 DEF SessionInv, PathInv
    <3>6. path[i] = "defeat_warden" /\ Concludes(path, i, t, "Succeeded")
      <4>1. path[i] = "defeat_warden"
        BY <1>1, <3>5 DEF Sought
      <4>2. i = Len(path)
        BY <3>4, <3>5, <4>1 DEF PathOf
      <4> QED
        BY <4>1, <4>2 DEF Concludes
    <3>7. ASSUME Unexcused
          PROVE  /\ op.terminal = StoredSummary("Succeeded", elapsed)
                 /\ ValidTerminal(db.route.replay, op.terminal, tr, enc)
      <4>1. ValidEncounter(enc, route.replay, "Succeeded", path[i])
        BY <1>1, <1>4, <3>6, <3>7, KillIsAccepted
      <4> HIDE DEF op, t, enc
      <4> QED
        BY <1>4, <3>2, <3>4, <3>5, <3>6, <3>7, <4>1, EndIsAccepted
    <3>8. op.terminal.outcome = "Succeeded" /\ op.terminal.elapsed = elapsed
      BY <1>4, <3>2, EndOfOperation
    <3> HIDE DEF op, tr, enc, done
    <3> QED
      BY <3>1, <3>3, <3>7, <3>8, EndExplained
  <2> QED
    BY <2>1, <2>2
<1> QED
  BY <1>2, <1>3, <1>4 DEF KillWarden

\* A deadline whose evidence is refused is explained.
LEMMA DeadlineExplained ==
    ASSUME SessionInv, EvidenceInv, ObserveDeadline PROVE ExplainedStep
<1> DEFINE op     == Finish(route.operation, "FailedTimeout", clock)
           path   == ObjectivePath(Selection.route)
           active == CHOOSE o \in ActiveObjectives(path, route.transitions) : TRUE
           t      == Fails(active)
           tr     == Append(route.transitions, t)
           enc    == route.encounter
           done   == Ended(op, tr, enc, "Failed") /\ UNCHANGED clock /\ EndedElsewhere
<1>1. Routed /\ clock > Budget /\ StoreEnd(op, tr, enc, "timeout refused", done)
  BY DEF ObserveDeadline, Late
<1>2. clock \in 0 .. MaxClock /\ PathOf(Selection.route, path)
  BY <1>1, RouteRuns DEF SessionInv, TypeOK
<1>3. Ends(op, "FailedTimeout", clock)
  BY <1>1, <1>2, DeadlineEnds DEF Ends
<1>4. done => fault' = fault
  BY DEF EndedElsewhere
<1>5. PICK i \in DOMAIN path :
          i > 1 /\ path[i] = Sought[stage] /\ Walked(path, route.transitions, i)
  BY <1>1 DEF SessionInv, PathInv
<1>6. active = path[i]
  <2> DEFINE actives == ActiveObjectives(path, route.transitions)
  <2>1. actives = {path[i]}
    <3> HIDE DEF path
    <3> QED
      BY <1>2, <1>5, WalkActivates
  <2> HIDE DEF actives
  <2>2. (CHOOSE o \in actives : TRUE) = path[i]
    BY <2>1
  <2> QED
    BY <2>2 DEF actives
<1> HIDE DEF active
<1>7. t \in Steps /\ Concludes(path, i, t, "FailedTimeout")
  <2>1. active \in Objectives
    BY <1>2, <1>5, <1>6 DEF PathOf
  <2> QED
    BY <1>6, <2>1 DEF Fails, Transition, Steps, Concludes
<1>8. ASSUME Unexcused, ~(enemy # None /\ enemy.health = 0)
      PROVE  /\ op.terminal = StoredSummary("FailedTimeout", clock)
             /\ ValidTerminal(db.route.replay, op.terminal, tr, enc)
  <2>1. ValidEncounter(enc, route.replay, "FailedTimeout", path[i])
    BY <1>1, <1>5, <1>8, FailureIsAccepted
  <2> HIDE DEF op, t, enc
  <2> QED
    BY <1>1, <1>3, <1>5, <1>7, <1>8, <2>1, EndIsAccepted
<1>9. op.terminal.outcome = "FailedTimeout" /\ op.terminal.elapsed = clock
  BY <1>1, <1>3, EndOfOperation
<1> HIDE DEF op, tr, enc, done
<1> QED
  BY <1>1, <1>4, <1>8, <1>9, EndExplained

\* Every step of a session with moderate weapons explains its refusals.
LEMMA StepsExplained ==
    ASSUME Moderate, SessionInv, EvidenceInv, [Next]_vars PROVE ExplainedStep
<1>1. ASSUME NEW p \in Players, Act(p) PROVE ExplainedStep
  <2>1. CASE \E elapsed \in 0 .. MaxClock : KillWarden(p, elapsed)
    BY <2>1, KillExplained
  <2>2. CASE \E choice \in Selections : ChooseRoute(p, choice)
    BY <2>2, OtherFaults DEF ChooseRoute, Commit, Confirm, Abort
  <2>3. CASE ReachDoor(p) \/ HitDrone(p)
    BY <2>3, OtherFaults, AppendExplained DEF ReachDoor, HitDrone
  <2>4. CASE RequestRouteState(p) \/ ReachStabilizer(p) \/ HitWarden(p) \/ Disconnect(p)
    BY <2>4, OtherFaults DEF RequestRouteState, ReachStabilizer, HitWarden, Disconnect
  <2>5. CASE \E weapon \in Weapons : Equip(p, weapon)
    BY <2>5, OtherFaults DEF Equip, Commit, Abort
  <2> QED
    BY <1>1, <2>1, <2>2, <2>3, <2>4, <2>5 DEF Act
<1>2. CASE StartActivity
  BY <1>2, OtherFaults, AppendExplained DEF StartActivity
<1>3. CASE StartCooperation
  BY <1>3, OtherFaults, AppendExplained DEF StartCooperation, Commit, Abort
<1>4. CASE ObserveDeadline
  BY <1>4, DeadlineExplained
<1>5. CASE Tick \/ UNCHANGED vars
  BY <1>5, OtherFaults DEF Tick, vars
<1> QED
  BY <1>1, <1>2, <1>3, <1>4, <1>5 DEF Next

\* The evidence of a fight always adds up: hits, counterattacks and the damage that the
\* coordinator reports are those of the Warden it fights.
THEOREM EvidenceAddsUp == Moderate => (Spec => []EvidenceInv)
<1> SUFFICES ASSUME Moderate PROVE Spec => []EvidenceInv
  OBVIOUS
<1>1. Init => EvidenceInv
  BY DEF Init, EvidenceInv
<1>2. SessionInv /\ EvidenceInv /\ [Next]_vars => EvidenceInv'
  BY EvidenceKept
<1> QED
  BY <1>1, <1>2, SessionInvariant, PTL DEF Spec

\* An operation ends as it should, and with moderate weapons its own evidence is refused
\* only where somebody had left before the door, where the deadline found the Warden dead,
\* or where a weapon was taken up that is stronger than all that were selected.
THEOREM EndsSound == Moderate => (Spec => EndsAreSound)
<1> SUFFICES ASSUME Moderate PROVE Spec => EndsAreSound
  OBVIOUS
<1>1. SessionInv /\ EvidenceInv /\ [Next]_vars => ExplainedStep
  BY StepsExplained
<1>2. Spec => []EvidenceInv
  BY EvidenceAddsUp
<1>3. Spec => [][ExplainedStep]_vars
  BY <1>1, <1>2, SessionInvariant, PTL DEF Spec
<1> QED
  BY <1>3, StoredEnds DEF EndsAreSound, RefusalsExplained, ExplainedStep
=============================================================================
