----------------------------- MODULE EnemyMinds -----------------------------
(***************************************************************************)
(* The timed state machines of the enemies of the optional encounters.     *)
(* A mind proposes at most one step for a time, the places of the actors   *)
(* and their health; the caller stores the step first and then adopts the  *)
(* proposed mind, whose interval it may extend to the time of the write.   *)
(* Times are in units of 100 ms.  A place is <<x, z>>: every actor of the  *)
(* hub stands at y = 0.                                                    *)
(* A name that ends in an underscore is a faulty variant of a definition.  *)
(***************************************************************************)
EXTENDS Integers

CONSTANT None

Later(a, b)  == IF a >= b THEN a ELSE b
Less(a, b)   == IF b < a THEN a - b ELSE 0        \* saturating subtraction
Fewer(a, b)  == IF a <= b THEN a ELSE b
Abs(n)       == IF n < 0 THEN -n ELSE n
Between(a, b, n) == (a <= n /\ n <= b) \/ (b <= n /\ n <= a)
Distance2(p, q)  == (p[1] - q[1]) * (p[1] - q[1]) + (p[2] - q[2]) * (p[2] - q[2])

\* What a mind answers: a step and the mind after it, or nothing.
Proposal(step, mind) == [step |-> step, mind |-> mind]
Still == Proposal(None, None)

-----------------------------------------------------------------------------
(* The Steel Bulwark: braces towards the player, then slams. *)

PadContains(p) == p[1] \in 5..10 /\ p[2] \in -10..-5

Facings == [North |-> <<0, -1>>, East |-> <<1, 0>>, South |-> <<0, 1>>, West |-> <<-1, 0>>]

Toward(facing, origin, target) ==
    LET dx == target[1] - origin[1]
        dz == target[2] - origin[2]
    IN  IF dx = 0 /\ dz = 0 THEN facing
        ELSE IF Abs(dx) >= Abs(dz) THEN IF dx > 0 THEN "East" ELSE "West"
        ELSE IF dz > 0 THEN "South" ELSE "North"

\* The forward sector of 90 degrees, without the place of the shield itself.
Protects(facing, origin, attacker) ==
    LET v       == Facings[facing]
        dx      == attacker[1] - origin[1]
        dz      == attacker[2] - origin[2]
        forward == v[1] * dx + v[2] * dz
    IN  forward > 0 /\ forward >= Abs(v[1] * dz + v[2] * dx)

SlamHits(facing, origin, p) ==
    PadContains(origin) /\ PadContains(p) /\ Protects(facing, origin, p) /\ Distance2(origin, p) <= 4

NewBulwark == [facing |-> "West", braced |-> TRUE, ready |-> 16]

Blocks(b, origin, attacker) == b.braced /\ Protects(b.facing, origin, attacker)

ConfirmNothing_(b, now) == b

BulwarkInterval(b) == IF b.braced THEN 16 ELSE 18

ConfirmBulwark(b, now) == [b EXCEPT !.ready = Later(@, now + BulwarkInterval(b))]

BulwarkTick(b, now, origin, p) ==
    IF now < b.ready \/ ~PadContains(origin) \/ ~PadContains(p) THEN Still
    ELSE IF b.braced
    THEN Proposal([type |-> "Slam", facing |-> b.facing,
                   damage |-> IF SlamHits(b.facing, origin, p) THEN 14 ELSE 0],
                  [b EXCEPT !.braced = FALSE, !.ready = now + 18])
    ELSE LET facing == Toward(b.facing, origin, p)
         IN  Proposal([type |-> "Braced", facing |-> facing],
                      [facing |-> facing, braced |-> TRUE, ready |-> now + 16])

-----------------------------------------------------------------------------
(* The Glass Lancer: locks a line to the player, then charges along it. *)

LanceContains(p) == p[1] \in 2..10 /\ p[2] \in 5..10

ChargeHits(origin, target, p) ==
    /\ LanceContains(origin) /\ LanceContains(target) /\ LanceContains(p)
    /\ \/ origin[1] = target[1] /\ p[1] = origin[1] /\ Between(origin[2], target[2], p[2])
       \/ origin[2] = target[2] /\ p[2] = origin[2] /\ Between(origin[1], target[1], p[1])

NewLancer == [ready |-> 7, locked |-> None]

ConfirmLancer(l, now) ==
    [l EXCEPT !.ready = Later(@, now + (IF l.locked # None THEN 18 ELSE 14))]

LockOn(origin, p) ==
    IF Abs(p[1] - origin[1]) >= Abs(p[2] - origin[2]) THEN <<p[1], origin[2]>>
    ELSE <<origin[1], p[2]>>

LancerTick(l, now, origin, p) ==
    IF now < l.ready \/ ~LanceContains(origin) \/ ~LanceContains(p) THEN Still
    ELSE IF l.locked # None
    THEN Proposal([type |-> "Charged", origin |-> l.locked.origin, target |-> l.locked.target,
                   damage |-> IF ChargeHits(l.locked.origin, l.locked.target, p) THEN 18 ELSE 0],
                  [ready |-> now + 14, locked |-> None])
    ELSE LET line == [origin |-> origin, target |-> LockOn(origin, p)]
         IN  Proposal([type |-> "Windup", origin |-> line.origin, target |-> line.target],
                      [ready |-> now + 18, locked |-> line])

\* The same charge on the pad of the Bulwark, 15 units north.
ToSouth(p) == <<p[1], p[2] + 15>>
ToNorth(p) == <<p[1], p[2] - 15>>

NorthTick(l, now, origin, p) ==
    IF ~PadContains(origin) \/ ~PadContains(p) THEN Still
    ELSE LET south == LancerTick(l, now, ToSouth(origin), ToSouth(p))
         IN  IF south = Still THEN Still
             ELSE [south EXCEPT !.step.origin = ToNorth(@), !.step.target = ToNorth(@)]

-----------------------------------------------------------------------------
(* The Relay Mender: repairs the only ally it can reach. *)

NewMender == [ready |-> 9]

ConfirmMender(m, now) == [m EXCEPT !.ready = Later(@, now + 16)]

\* dx and dz are bounded by the range as well, which the distance implies.
Eligible(source, ally) ==
    ally.health > 0 /\ ally.health < ally.max /\ Distance2(source.at, ally.at) <= 36

MenderTick(m, now, source, name, ally) ==
    IF now < m.ready \/ source.health = 0 \/ ~Eligible(source, ally) THEN Still
    ELSE Proposal([type |-> "Repaired", target |-> name,
                   health |-> ally.health + Fewer(8, ally.max - ally.health)],
                  [ready |-> now + 16])

-----------------------------------------------------------------------------
(* The Signal Sentinel: shoots what the cover does not hide. *)

NewSentinel == [ready |-> 18]

\* The segment between two places meets the barrier, x in -6..-2 and z in 0.5..1.5:
\* the boxes overlap and the corners (doubled) are not all on one side of the line.
CoverBlocks(p, q) ==
    LET Side(x, z) == (q[1] - p[1]) * (z - 2 * p[2]) - (q[2] - p[2]) * (x - 2 * p[1])
        sides == {Side(x, z) : x \in {-12, -4}, z \in {1, 3}}
    IN  /\ Fewer(p[1], q[1]) <= -2 /\ Later(p[1], q[1]) >= -6
        /\ 2 * Fewer(p[2], q[2]) <= 3 /\ 2 * Later(p[2], q[2]) >= 1
        /\ \E s \in sides : s >= 0
        /\ \E s \in sides : s <= 0

\* The shot is spent also when nothing can be hit.
SentinelTick(s, now, source, p, health) ==
    IF now < s.ready THEN Still
    ELSE Proposal([type |-> "Shot",
                   damage |-> IF /\ source.health > 0 /\ health > 0
                                 /\ Distance2(source.at, p) <= 144
                                 /\ ~CoverBlocks(source.at, p)
                              THEN 12 ELSE 0],
                  [ready |-> now + 18])

-----------------------------------------------------------------------------
(* The Prism Warden: crossing lanes above half health, then pulses. *)

CoreContains(p) == p[1] \in 5..11 /\ p[2] \in -3..3
InCenter(p)     == p[1] \in 7..9 /\ p[2] \in -1..1

Lane(shape, line) == [shape |-> shape, line |-> line]
Center    == Lane("Center", 0)
Perimeter == Lane("Perimeter", 0)
IsPulse(pattern) == pattern \in {Center, Perimeter}

PatternHits(pattern, p) ==
    /\ CoreContains(p)
    /\ CASE pattern.shape = "AcrossX"   -> p[2] = pattern.line
         [] pattern.shape = "AcrossZ"   -> p[1] = pattern.line
         [] pattern.shape = "Center"    -> InCenter(p)
         [] pattern.shape = "Perimeter" -> ~InCenter(p)

PatternDamage(pattern, p) ==
    IF ~PatternHits(pattern, p) THEN 0 ELSE IF IsPulse(pattern) THEN 20 ELSE 18

PrismHealth == 320
HalfHealth  == 160

NewPrism ==
    [phase |-> "Lanes", mode |-> "Opening", pattern |-> None, ready |-> 7, nextX |-> TRUE]

Vulnerable(b) == b.mode = "Recovery"

ValidHealth(b, health) ==
    IF b.phase = "Lanes" THEN health \in HalfHealth + 1 .. PrismHealth ELSE health \in 1..HalfHealth

PrismInterval(b) ==
    CASE b.mode = "Opening"  -> 7
      [] b.mode = "Warning"  -> IF IsPulse(b.pattern) THEN 22 ELSE 18
      [] b.mode = "PulseGap" -> 6
      [] b.mode = "Recovery" -> 18
      [] b.mode = "Shifting" -> 24

ConfirmPrism(b, now) ==
    IF b.mode = "Defeated" THEN b ELSE [b EXCEPT !.ready = Later(@, now + PrismInterval(b))]

\* What one shot does: nothing but in recovery, and never past half health at once.
PrismHit(b, now, before, requested) ==
    LET available == IF b.phase = "Lanes" THEN before - HalfHealth ELSE before
        damage    == IF Vulnerable(b) THEN Fewer(requested, available) ELSE 0
        after     == before - damage
        changed   == b.phase = "Lanes" /\ after = HalfHealth
    IN  [damage |-> damage, after |-> after, changed |-> changed,
         mind |-> CASE changed   -> [b EXCEPT !.phase = "Pulses", !.mode = "Shifting",
                                              !.pattern = None, !.ready = now + 24]
                    [] after = 0 -> [b EXCEPT !.mode = "Defeated", !.pattern = None]
                    [] OTHER     -> b]

Attackable(b, before) == ValidHealth(b, before) /\ b.mode # "Defeated"

NextPattern(b, p) ==
    CASE b.phase = "Lanes" /\ b.mode \in {"Opening", "Recovery"} ->
            IF b.nextX THEN Lane("AcrossX", p[2]) ELSE Lane("AcrossZ", p[1])
      [] b.mode = "Shifting" \/ (b.mode = "Recovery" /\ b.phase = "Pulses") -> Center
      [] b.mode = "PulseGap" -> Perimeter
      [] OTHER -> None

PrismTick(b, now, health, p) ==
    IF now < b.ready \/ ~ValidHealth(b, health) \/ ~CoreContains(p) THEN Still
    ELSE IF b.mode = "Warning"
    THEN LET after == [b EXCEPT !.mode = IF b.pattern = Center THEN "PulseGap" ELSE "Recovery",
                                !.pattern = None, !.ready = now]
         IN  Proposal([type |-> "Struck", pattern |-> b.pattern,
                       damage |-> PatternDamage(b.pattern, p)], ConfirmPrism(after, now))
    ELSE IF NextPattern(b, p) = None THEN Still
    ELSE LET pattern == NextPattern(b, p)
             warning == [b EXCEPT !.mode = "Warning", !.pattern = pattern,
                                  !.nextX = IF IsPulse(pattern) THEN @ ELSE ~@]
         IN  Proposal([type |-> "Warning", pattern |-> pattern],
                      [warning EXCEPT !.ready = now + PrismInterval(warning)])

-----------------------------------------------------------------------------
(* The cadence of an elite pair: one warning at a time, by turns. *)

NewCadence ==
    [alive |-> {"guard", "partner"}, next |-> "guard", available |-> 0, warning |-> None]

Other(name) == IF name = "guard" THEN "partner" ELSE "guard"

ReadyActor(c, now) ==
    IF c.warning # None \/ now < c.available \/ c.alive = {} THEN None
    ELSE IF c.next \in c.alive THEN c.next ELSE Other(c.next)

BeginWarning(c, name, now) ==
    LET length == IF name = "guard" THEN 16 ELSE 18
    IN  IF ReadyActor(c, now) # name THEN None
        ELSE [c EXCEPT !.warning = [name |-> name, until |-> now + length, length |-> length]]

ResolveWarning(c, name, now) ==
    IF c.warning = None \/ c.warning.name # name \/ now < c.warning.until THEN None
    ELSE [c EXCEPT !.warning = None, !.next = Other(name), !.available = now + 6]

RetireNothing_(c, name, now) == [c EXCEPT !.alive = @ \ {name}]

\* The warning of the dead does not hold the pair.
Retire(c, name, now) ==
    LET holds == c.warning # None /\ c.warning.name = name
    IN  [c EXCEPT !.alive = @ \ {name},
                  !.warning = IF holds THEN None ELSE @,
                  !.next = IF holds THEN Other(name) ELSE @,
                  !.available = IF holds THEN now + 6 ELSE @]

ConfirmCadence(c, now) ==
    IF c.warning # None
    THEN [c EXCEPT !.warning.until = Later(@, now + c.warning.length)]
    ELSE [c EXCEPT !.available = Later(@, now + 6)]
-----------------------------------------------------------------------------
(* All the minds of an encounter, and which one answers. *)

NewMinds ==
    [guard |-> NewBulwark, lancer |-> NewLancer, mender |-> NewMender, prism |-> NewPrism,
     sentinel |-> NewSentinel, cadence |-> BeginWarning(NewCadence, "guard", 0)]

LivingOnPad(foes, name) == name \in DOMAIN foes /\ foes[name].health > 0 /\ PadContains(foes[name].at)

\* The guard and its partner answer for themselves when the cadence agrees.
Adopted(p, m, cadence, field) ==
    IF p = Still \/ cadence = None THEN Still
    ELSE Proposal(p.step, [[m EXCEPT !.cadence = cadence] EXCEPT ![field] = p.mind])

CrossedTick(m, now, foes, p) ==
    LET name    == IF m.cadence.warning # None THEN m.cadence.warning.name
                   ELSE ReadyActor(m.cadence, now)
        answer  == IF name = "guard" THEN BulwarkTick(m.guard, now, foes.guard.at, p)
                   ELSE NorthTick(m.lancer, now, foes.partner.at, p)
        cadence == IF answer.step.type \in {"Braced", "Windup"}
                   THEN BeginWarning(m.cadence, name, now) ELSE ResolveWarning(m.cadence, name, now)
    IN  IF name = None \/ ~LivingOnPad(foes, name) \/ answer = Still THEN Still
        ELSE Adopted(answer, m, cadence, IF name = "guard" THEN "guard" ELSE "lancer")

\* The mender repairs only when the guard has nothing to do.
BastionTick(m, now, foes, p) ==
    LET defense == BulwarkTick(m.guard, now, foes.guard.at, p)
    IN  IF ~LivingOnPad(foes, "guard") THEN Still
        ELSE IF defense # Still THEN Adopted(defense, m, m.cadence, "guard")
        ELSE IF ~LivingOnPad(foes, "partner") THEN Still
        ELSE Adopted(MenderTick(m.mender, now, foes.partner, "guard", foes.guard),
                     m, m.cadence, "mender")

EliteTick(kind, m, now, foes, p, health) ==
    IF health = 0 \/ ~PadContains(p) THEN Still
    ELSE IF kind = "bastion_link" THEN BastionTick(m, now, foes, p) ELSE CrossedTick(m, now, foes, p)

ConfirmElite(kind, m, step, now) ==
    LET timed == CASE step.type \in {"Braced", "Slam"}    -> [m EXCEPT !.guard = ConfirmBulwark(@, now)]
                   [] step.type \in {"Windup", "Charged"} -> [m EXCEPT !.lancer = ConfirmLancer(@, now)]
                   [] step.type = "Repaired"              -> [m EXCEPT !.mender = ConfirmMender(@, now)]
    IN  IF kind = "crossed_guard" THEN [timed EXCEPT !.cadence = ConfirmCadence(@, now)] ELSE timed
=============================================================================
