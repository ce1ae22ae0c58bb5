-------------------------- MODULE EncounterEvidence --------------------------
(***************************************************************************)
(* How the replay judges the stored evidence of an encounter: it runs the  *)
(* minds again over the rows in their order and refuses the stream at the  *)
(* first row they would not have produced.  The judgement is kept up to    *)
(* date row by row, `judged' after the last one.                           *)
(* The sessions are solo; identities and payload sizes are left out.  The  *)
(* signal excursion has no validator of its own.                           *)
(***************************************************************************)
EXTENDS EnemyMinds

Enemy(at, health) == [at |-> at, health |-> health, max |-> health]

Guard == Enemy(<<8, -8>>, 240)

Roster(kind) ==
    CASE kind = "lancer"        -> [foe |-> Enemy(<<9, 8>>, 200)]
      [] kind = "bulwark"       -> [foe |-> Guard]
      [] kind = "prism"         -> [foe |-> Enemy(<<8, 0>>, PrismHealth)]
      [] kind = "bastion_link"  -> [guard |-> Guard, partner |-> Enemy(<<9, -6>>, 120)]
      [] kind = "crossed_guard" -> [guard |-> Guard, partner |-> Enemy(<<9, -9>>, 200)]
      [] kind = "support"       -> [lancer |-> Enemy(<<9, 8>>, 200), mender |-> Enemy(<<7, 6>>, 120)]
      [] kind = "signal"        -> [foe |-> Enemy(<<-4, -4>>, 200)]

Elites == {"bastion_link", "crossed_guard"}

\* The encounters whose rows carry the time of the last confirmed write.
Confirmed(kind) == kind \in Elites \cup {"prism"}

Arena(kind, p) ==
    CASE kind \in {"lancer", "support"}          -> LanceContains(p)
      [] kind \in Elites \cup {"bulwark"}        -> PadContains(p)
      [] kind = "prism"                          -> CoreContains(p)
      [] OTHER                                   -> TRUE

\* Whom a charge moves and whom a repair heals.
Charger(kind) == CASE kind = "lancer" -> "foe" [] kind = "support" -> "lancer" [] OTHER -> "partner"

ApplyStep(kind, foes, step) ==
    CASE step.type = "Charged"  -> [foes EXCEPT ![Charger(kind)].at = step.target]
      [] step.type = "Repaired" -> [foes EXCEPT ![step.target].health = step.health]
      [] OTHER                  -> foes

Harmful == {"Slam", "Charged", "Struck", "Shot"}
Harm(step) == IF step.type \in Harmful THEN step.damage ELSE 0

Standing(foes, name) == name \in DOMAIN foes /\ foes[name].health > 0

\* The dead answer nothing.
FromFoe(foes, name, p, m, field) ==
    IF ~Standing(foes, name) THEN Still ELSE Adopted(p, m, m.cadence, field)

\* `part' tells the repair of the support pair from everything else.
Think(kind, part, m, foes, p, health, now) ==
    CASE kind \in Elites   -> EliteTick(kind, m, now, foes, p, health)
      [] kind = "bulwark"  -> FromFoe(foes, "foe", BulwarkTick(m.guard, now, Guard.at, p), m, "guard")
      [] kind = "lancer"   -> FromFoe(foes, "foe", LancerTick(m.lancer, now, foes.foe.at, p), m, "lancer")
      [] kind = "prism"    -> FromFoe(foes, "foe", PrismTick(m.prism, now, foes.foe.health, p), m, "prism")
      [] kind = "signal"   ->
            FromFoe(foes, "foe", SentinelTick(m.sentinel, now, foes.foe, p, health), m, "sentinel")
      [] kind = "support" /\ part = "charge" ->
            FromFoe(foes, "lancer", LancerTick(m.lancer, now, foes.lancer.at, p), m, "lancer")
      [] kind = "support" /\ part = "repair" ->
            IF ~Standing(foes, "lancer") THEN Still
            ELSE FromFoe(foes, "mender", MenderTick(m.mender, now, foes.mender, "lancer", foes.lancer),
                         m, "mender")

\* A slow write gives the player the whole interval again.
Confirm(kind, m, step, now) ==
    CASE kind \in Elites        -> ConfirmElite(kind, m, step, now)
      [] kind = "bulwark"       -> [m EXCEPT !.guard  = ConfirmBulwark(@, now)]
      [] kind = "prism"         -> [m EXCEPT !.prism  = ConfirmPrism(@, now)]
      [] kind = "signal"        -> m
      [] kind = "support" /\ step.type = "Repaired" -> [m EXCEPT !.mender = ConfirmMender(@, now)]
      [] OTHER                  -> [m EXCEPT !.lancer = ConfirmLancer(@, now)]

\* The shield hides the guard, alone or in a pair.
Shielded(m, foes, target, p) ==
    target \in {"foe", "guard"} /\ foes[target].at = Guard.at /\ Blocks(m.guard, foes[target].at, p)

-----------------------------------------------------------------------------
(* Rows *)

Spawned(health)    == [type |-> "Spawned", health |-> health]
StepRow(t, confirmed, p, step, before) ==
    [type |-> "Step", t |-> t, confirmed |-> confirmed, at |-> p, step |-> step,
     before |-> before, after |-> Less(before, Harm(step))]
AttackRow(t, confirmed, p, target, before, after, changed) ==
    [type |-> "Attack", t |-> t, confirmed |-> confirmed, at |-> p, target |-> target,
     before |-> before, after |-> after, damage |-> before - after, changed |-> changed]
AbandonRow(t, confirmed) == [type |-> "Abandoned", t |-> t, confirmed |-> confirmed]
DiedRow      == [type |-> "Died"]           \* the death of a lone lancer
BossRow      == [type |-> "Boss"]
BossDiedRow  == [type |-> "BossDied"]
ActivityRow  == [type |-> "Activity"]

-----------------------------------------------------------------------------
(* The judgement *)

NoEncounter ==
    [state |-> "None", health |-> None, foes |-> None, minds |-> None, last |-> 0,
     unconfirmed |-> None, died |-> None, progressed |-> FALSE, boss |-> None]

\* A replay that refuses a row tells nothing else of the session.
Invalid == [NoEncounter EXCEPT !.state = "Invalid"]

\* The health of the player is known from the start, or from the first hit on.
Started(kind, j, row) ==
    IF j.state # "None" \/ j.progressed \/ row.health = 0 THEN Invalid
    ELSE [j EXCEPT !.state = "Active", !.foes = Roster(kind), !.minds = NewMinds,
                   !.health = IF kind \in {"lancer", "bulwark"} THEN None ELSE row.health]

\* The minds at the time of a row: what was pending takes the confirmed time.
Recalled(kind, j, row) ==
    LET m == IF j.unconfirmed = None \/ ~Confirmed(kind) THEN j.minds
             ELSE Confirm(kind, j.minds, j.unconfirmed, row.confirmed)
    IN  IF j.died = None THEN m ELSE [m EXCEPT !.cadence = Retire(@, j.died, row.confirmed)]

\* A lone lancer may aim at any place in line with it.
LancerMayStep(j, row) ==
    LET l == j.minds.lancer
    IN  IF row.step.type = "Windup"
        THEN /\ l.locked = None /\ row.t >= l.ready
             /\ row.step.origin = j.foes.foe.at /\ LanceContains(row.step.target)
             /\ row.step.origin[1] = row.step.target[1] \/ row.step.origin[2] = row.step.target[2]
        ELSE LancerTick(l, row.t, j.foes.foe.at, row.at).step = row.step

LancerAfter(j, row) ==
    IF row.step.type = "Windup"
    THEN [j.minds EXCEPT !.lancer = [ready  |-> row.t + 18,
                                     locked |-> [origin |-> row.step.origin,
                                                 target |-> row.step.target]]]
    ELSE [j.minds EXCEPT !.lancer = [ready |-> row.t + 14, locked |-> None]]

\* What the player had left must follow from the row before.
HealthFollows(j, row) ==
    \/ row.step.type \notin Harmful
    \/ row.before > 0 /\ j.health \in {None, row.before}

ReadStep(kind, j, row) ==
    LET minds  == Recalled(kind, j, row)
        part   == IF row.step.type = "Repaired" THEN "repair" ELSE "charge"
        answer == Think(kind, part, minds, j.foes, row.at, j.health, row.t)
        known  == IF row.step.type \in Harmful THEN row.after ELSE j.health
        next   == [j EXCEPT !.health = known, !.last = row.t, !.died = None,
                            !.unconfirmed = IF Confirmed(kind) THEN row.step ELSE None,
                            !.foes  = ApplyStep(kind, @, row.step),
                            !.minds = IF kind = "lancer" THEN LancerAfter(j, row) ELSE answer.mind,
                            !.state = IF known = 0 THEN "Failed" ELSE @]
    IN  IF /\ HealthFollows(j, row)
           /\ IF kind = "lancer" THEN LancerMayStep(j, row) ELSE answer.step = row.step
        THEN next ELSE Invalid

ReadAttack(kind, j, row) ==
    LET minds   == Recalled(kind, j, row)
        hit     == PrismHit(minds.prism, row.t, row.before, row.damage)
        foes    == [j.foes EXCEPT ![row.target].health = row.after]
        allowed == /\ Arena(kind, row.at)
                   /\ j.foes[row.target].health = row.before /\ row.before > 0
                   /\ IF kind = "prism"
                      THEN /\ (row.damage = 0) # Vulnerable(minds.prism)
                           /\ Attackable(minds.prism, row.before)
                           /\ hit.damage = row.damage /\ hit.changed = row.changed
                      ELSE (row.damage = 0) = (kind # "support" /\ Shielded(minds, j.foes, row.target, row.at))
    IN  IF ~allowed THEN Invalid
        ELSE [j EXCEPT !.foes = foes, !.last = row.t,
                       !.minds = IF kind = "prism" THEN [minds EXCEPT !.prism = hit.mind] ELSE minds,
                       !.unconfirmed = IF kind = "prism" /\ hit.changed THEN [type |-> "Shifted"] ELSE None,
                       !.died = IF kind \in Elites /\ row.after = 0 THEN row.target ELSE None,
                       !.state = IF \A n \in DOMAIN foes : foes[n].health = 0
                                 THEN "Completed" ELSE @]

\* The main mission goes on only after the encounter, and not with a dead player; an
\* abandoned Prism Warden gives way to the ordinary one, which then has to die.
ReadMain(kind, j, row) ==
    LET standing == j.state = "Active" \/ j.health = 0
        refused  ==
            IF j.state = "None" THEN FALSE
            ELSE IF kind # "prism" THEN standing
            ELSE IF row = BossRow THEN j.state # "Abandoned" \/ j.boss # None
            ELSE j.state # "Completed" /\ ~(j.state = "Abandoned" /\ j.boss = "dead")
    IN  IF refused THEN Invalid
        ELSE [j EXCEPT !.progressed = TRUE, !.boss = IF row = BossRow THEN "alive" ELSE @]

\* A row of the encounter that is on, in time, is read as `next'.
InTime(kind, j, row, next) ==
    IF /\ j.state = "Active" /\ row.t >= j.last
       /\ Confirmed(kind) => row.confirmed \in j.last .. row.t
    THEN next ELSE Invalid

\* Once the encounter is over its actors do not matter to the rows that follow.
Closed(j) ==
    IF j.state = "Active" THEN j
    ELSE [j EXCEPT !.foes = None, !.minds = None, !.last = 0, !.unconfirmed = None, !.died = None]

Judge(kind, j, row) ==
    IF j.state = "Invalid" \/ kind = "signal" THEN j
    ELSE CASE row.type = "Spawned"   -> Started(kind, j, row)
           [] row.type \in {"Boss", "Activity"} -> ReadMain(kind, j, row)
           [] row.type = "BossDied"  -> IF j.boss = "alive" THEN [j EXCEPT !.boss = "dead"] ELSE j
           [] row.type = "Died"      ->
                 IF j.state = "Active" THEN [j EXCEPT !.state = "Completed"] ELSE Invalid
           [] row.type = "Step"      -> InTime(kind, j, row, ReadStep(kind, j, row))
           [] row.type = "Attack"    -> InTime(kind, j, row, ReadAttack(kind, j, row))
           [] row.type = "Abandoned" -> InTime(kind, j, row,
                 [j EXCEPT !.state = IF kind = "prism" THEN "Abandoned" ELSE "Failed", !.last = row.t])

Read(kind, j, row) == Closed(Judge(kind, j, row))
=============================================================================
