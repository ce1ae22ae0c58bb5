----------------------------- MODULE Encounter -----------------------------
(***************************************************************************)
(* A solo session that meets one of the optional encounters on its way to  *)
(* the relay door: the tick of the coordinator between two commands, the   *)
(* movement that starts and abandons the encounter, the shots, and the     *)
(* stream of evidence they store.  Every change is stored before it is     *)
(* made.  An error of the database is only logged in a tick; in a command  *)
(* it aborts the session; in both, the row may have been stored, and only  *)
(* its acknowledgement lost.  A tick then leaves the stream ahead of the   *)
(* memory, which makes the step again: the replay refuses the second row.  *)
(* A tick precedes every command: it takes the time `wait' to come, and a  *)
(* tick or a command takes the time `write' to store.                      *)
(* Weapons are not bound to their cooldown and range here: only more       *)
(* shots are possible.  The counterattacks of the ordinary Warden and the  *)
(* damage it takes before its death leave the encounter alone and are left *)
(* out.                                                                    *)
(* A name that ends in an underscore is a faulty variant of a definition.  *)
(***************************************************************************)
EXTENDS EncounterEvidence

CONSTANTS
    Kinds,       \* the encounters
    Places,      \* where a player may go, for each kind
    Delays,      \* how long the session may wait for the next tick
    Writes,      \* how long a write may take
    Blows,       \* damage of a shot at the weapon's range
    Health,      \* of the player who enters
    MaxClock     \* where the clock stops, for each kind

ASSUME EncounterAssumption ==
    /\ Delays \subseteq Nat /\ Writes \subseteq Nat /\ Blows \subseteq Nat \ {0}
    /\ Health \in Nat \ {0}

VARIABLES
    kind,      \* the encounter that is taken
    session,   \* what the coordinator has in memory
    stream,    \* the judgement of what is stored
    clock,     \* time since the start of the fight, as long as it lasts
    warned,    \* when the player was told of the blow that is still to come
    impact,    \* the blow that has just come: its warning and its time, or None
    ahead      \* whether an acknowledgement of a tick was lost, and, as long as no row
               \* has followed, the memory that its step would have led to (history)

vars == <<kind, session, stream, clock, warned, impact, ahead>>

Entrance == [lancer |-> <<4, 8>>, bulwark |-> <<6, -8>>, prism |-> <<5, 2>>,
             bastion_link |-> <<5, -6>>, crossed_guard |-> <<5, -10>>,
             support |-> <<2, 6>>, signal |-> <<-4, 4>>]
Door     == <<6, 0>>
Terminal == <<-4, -3>>

Init ==
    /\ kind \in Kinds
    /\ session = [stage |-> "Door", phase |-> "None", open |-> TRUE, place |-> <<0, 0>>,
                  health |-> Health, foes |-> <<>>, minds |-> None, confirmed |-> 0,
                  fatal |-> FALSE, failed |-> None]
    /\ stream = NoEncounter
    /\ clock = 0 /\ warned = None /\ impact = None
    /\ ahead = [lost |-> FALSE, to |-> None]

Fighting == session.phase = "Fighting"

-----------------------------------------------------------------------------
(* Commands: the first error of the database ends the session. *)

Aborts(judged, row) ==
    /\ session' = [session EXCEPT !.stage = "Aborted", !.phase = "Over", !.failed = row.type,
                                  !.foes = <<>>, !.minds = None, !.confirmed = 0]
    /\ stream' = judged

\* A row, then the rest of the command with the stream it leads to.
Stored(judged, row, Then(_)) ==
    \/ Then(Read(kind, judged, row))
    \/ Aborts(judged, row)
    \/ Aborts(Read(kind, judged, row), row)

Becomes(s, judged) == session' = s /\ stream' = judged

\* A row of a command ends what is known of a lost acknowledgement.
Follows == ahead' = IF stream' = stream THEN ahead ELSE [ahead EXCEPT !.to = None]

\* The times that are left in a fight, after some of it was waited for; nothing is timed
\* outside of one.
Left(times, waited) ==
    IF Fighting THEN {t \in times : clock + waited + t <= MaxClock[kind]} ELSE {0}

\* The time of a command and of the acknowledgement of its write, in a fight; how long the
\* last write of the fight takes makes no difference.
Passes(wait, write) ==
    IF Fighting /\ session'.phase = "Fighting" THEN clock' = clock + wait + write
    ELSE write = 0 /\ clock' = 0

\* A warning that has not come true ends with the fight; the first is its start.
Forgets ==
    /\ impact' = None
    /\ warned' = CASE session'.phase # "Fighting" -> None
                   [] session.phase # "Fighting"  -> 0
                   [] OTHER                       -> warned

Remove(foes, names) == [n \in DOMAIN foes \ names |-> foes[n]]

-----------------------------------------------------------------------------
(* Movement *)

\* spawn_*_encounter: the foes appear with the row; the clock of the fight starts when
\* it is stored.
Start ==
    Stored(stream, Spawned(session.health), LAMBDA judged :
        Becomes([session EXCEPT !.phase = "Fighting", !.open = FALSE, !.place = Entrance[kind],
                                !.foes = Roster(kind), !.minds = NewMinds,
                                !.stage = IF kind = "prism" THEN "Boss" ELSE @], judged))

\* The ordinary Warden appears when the player stands at the door.
EnterDoor(s, judged) ==
    Stored(judged, BossRow, LAMBDA after :
        Becomes([s EXCEPT !.stage = "Boss", !.open = FALSE,
                          !.foes = [warden |-> Enemy(<<8, 0>>, 360)]], after))

Arrive(s, judged) ==
    IF s.stage = "Door" /\ s.place = Door THEN EnterDoor(s, judged) ELSE Becomes(s, judged)

\* Who leaves the arena loses the encounter; the Prism Warden gives the door free again.
Abandon(to) ==
    Stored(stream, AbandonRow(clock, session.confirmed), LAMBDA judged :
        Arrive([session EXCEPT !.phase = "Over", !.place = to, !.foes = <<>>, !.minds = None,
                               !.confirmed = 0, !.stage = "Door"], judged))

\* The barrier stops the player as long as the sentinel can be there.
MovementBlocked(to) ==
    kind = "signal" /\ (session.phase # "None" \/ session.open) /\ CoverBlocks(session.place, to)

SignalMove(to) ==
    CASE session.phase = "Recovery" /\ to = Terminal ->
            Becomes([session EXCEPT !.phase = "Over", !.place = to], stream)
      [] session.phase \in {"Fighting", "Recovery"} ->
            Becomes([session EXCEPT !.place = to], stream)
      [] OTHER -> Arrive([session EXCEPT !.place = to], stream)

\* move_player_at
Move(to, write) ==
    /\ session.stage \in {"Door", "Boss"} /\ to # session.place /\ ~MovementBlocked(to)
    /\ IF session.phase = "None" /\ session.open /\ session.stage = "Door" /\ to = Entrance[kind]
       THEN Start
       ELSE IF kind = "signal" THEN SignalMove(to)
       ELSE IF ~Fighting THEN Arrive([session EXCEPT !.place = to], stream)
       ELSE IF ~session.fatal /\ ~Arena(kind, to) THEN Abandon(to)
       ELSE write = 0 /\ Becomes([session EXCEPT !.place = to], stream)
    /\ Passes(0, write)
    /\ Follows /\ Forgets /\ UNCHANGED kind

-----------------------------------------------------------------------------
(* Shots *)

\* The end of an encounter whose last foe is dead.
FinishFight(s) ==
    [s EXCEPT !.phase = IF kind = "signal" THEN "Recovery" ELSE "Over", !.foes = <<>>,
              !.minds = None, !.confirmed = 0]

\* complete_activity and what follows the durable death of the Prism Warden.
FinishPrism(s, judged) ==
    Stored(judged, ActivityRow, LAMBDA after :
        Becomes([FinishFight(s) EXCEPT !.fatal = FALSE, !.stage = "Complete"], after))

\* What a shot does to a foe, shields and phases taken into account.
Shot(target, blow, t) ==
    LET before == session.foes[target].health
        hit    == PrismHit(session.minds.prism, t, before, blow)
        damage == IF Shielded(session.minds, session.foes, target, session.place)
                  THEN 0 ELSE Fewer(blow, before)
    IN  IF kind = "prism" THEN hit
        ELSE [damage |-> damage, after |-> before - damage, changed |-> FALSE, mind |-> None]

\* The memory after a shot that is stored and confirmed.
AfterShot(target, hit, confirmed) ==
    LET left  == [session.foes EXCEPT ![target].health = hit.after]
        foes  == IF hit.after = 0 /\ kind # "prism" THEN Remove(left, {target}) ELSE left
        minds == CASE kind = "prism" ->
                        [session.minds EXCEPT !.prism =
                            IF hit.changed THEN ConfirmPrism(hit.mind, confirmed) ELSE hit.mind]
                   [] kind \in Elites /\ hit.after = 0 ->
                        [session.minds EXCEPT !.cadence = Retire(@, target, confirmed)]
                   [] OTHER -> session.minds
    IN  [session EXCEPT !.foes = foes, !.minds = minds,
                        !.confirmed = IF Confirmed(kind) THEN confirmed ELSE @,
                        !.fatal = kind = "prism" /\ hit.after = 0]

\* A hit of a lone lancer or of the sentinel is stored only when it is fatal.
ShotRow(target, hit, t) ==
    IF kind \in {"lancer", "signal"}
    THEN IF hit.after = 0 THEN DiedRow ELSE None
    ELSE AttackRow(t, session.confirmed, session.place, target,
                   session.foes[target].health, hit.after, hit.changed)

Settle(s, judged) ==
    IF s.fatal THEN FinishPrism(s, judged)
    ELSE Becomes(IF DOMAIN s.foes = {} THEN FinishFight(s) ELSE s, judged)

MayShoot(target) ==
    /\ session.foes[target].health > 0
    /\ kind = "prism" => CoreContains(session.place) /\ Attackable(session.minds.prism, session.foes[target].health)
    /\ kind = "signal" => ~CoverBlocks(session.place, session.foes[target].at)

\* attack_at: a shot at a dead Prism Warden retries its completion.
Attack(target, blow, write) ==
    LET hit == Shot(target, blow, clock)
        s   == AfterShot(target, hit, clock + write)
        row == ShotRow(target, hit, clock)
    IN  /\ Fighting /\ session.stage # "Failed" /\ target \in DOMAIN session.foes
        /\ IF session.fatal THEN FinishPrism(session, stream)
           ELSE /\ MayShoot(target)
                /\ IF row = None THEN write = 0 /\ Settle(s, stream)
                   ELSE Stored(stream, row, LAMBDA judged : Settle(s, judged))
        /\ Passes(0, write)
        /\ Follows /\ Forgets /\ UNCHANGED kind

\* The fatal shot at the ordinary Warden: its death, then the completion.
KillWarden(write) ==
    /\ session.stage = "Boss" /\ ~Fighting /\ "warden" \in DOMAIN session.foes
    /\ Passes(0, write)
    /\ Stored(stream, BossDiedRow, LAMBDA judged :
          Stored(judged, ActivityRow, LAMBDA after :
              Becomes([session EXCEPT !.stage = "Complete", !.foes = <<>>], after)))
    /\ Follows /\ Forgets /\ UNCHANGED kind

-----------------------------------------------------------------------------
(* The tick *)

\* Everything a tick works on, and whether it has met an error.
\* A death of the Prism Warden that is still to be completed never waits for a tick: a
\* completion that fails aborts the session.
World == [session |-> session, stream |-> stream, warned |-> warned, impact |-> None,
          ahead |-> ahead, error |-> FALSE]

Interval(step) ==
    CASE step.type = "Slam"    -> 16
      [] step.type = "Charged" -> 18
      [] step.type = "Struck"  -> IF IsPulse(step.pattern) THEN 22 ELSE 18
      [] OTHER                 -> 0

Tells(step) == step.type \in {"Braced", "Windup", "Warning"}

ForgetFoes_(w, step, minds, judged, t, written) ==
    [w EXCEPT !.stream  = judged,
              !.session.minds  = Confirm(kind, minds, step, written),
              !.session.confirmed = IF Confirmed(kind) THEN written ELSE @,
              !.session.health = Less(@, Harm(step))]

\* A foe makes a step that is stored: the memory follows, and the player is told.
Adopt(w, step, minds, judged, t, written) ==
    LET s      == w.session
        health == Less(s.health, Harm(step))
    IN  [w EXCEPT
            !.stream  = judged,
            !.session = [s EXCEPT !.minds = Confirm(kind, minds, step, written),
                                  !.confirmed = IF Confirmed(kind) THEN written ELSE @,
                                  !.health = health,
                                  !.foes = ApplyStep(kind, @, step),
                                  !.stage = IF health = 0 THEN "Failed" ELSE @,
                                  !.phase = IF health = 0 THEN "Over" ELSE @],
            !.warned  = IF Tells(step) THEN written ELSE IF Interval(step) = 0 THEN @ ELSE None,
            !.impact  = IF Interval(step) = 0 THEN @
                        ELSE [warned |-> w.warned, at |-> t, interval |-> Interval(step)]]

\* A row that is stored while its acknowledgement is lost: the memory stays behind it.
Unheard(w, stored) ==
    [w EXCEPT !.stream = stored.stream, !.error = TRUE,
              !.ahead  = [lost |-> TRUE, to |-> IF w.ahead.lost THEN None ELSE stored.session]]

\* One mind in a tick: nothing, a step, or an error, which is only logged and leaves the
\* memory as it was, whether or not the row is stored.
Answer(w, part, t, written) ==
    LET s      == w.session
        answer == Think(kind, part, s.minds, s.foes, s.place, s.health, t)
        judged == Read(kind, w.stream, StepRow(t, s.confirmed, s.place, answer.step, s.health))
        stored == Adopt(w, answer.step, answer.mind, judged, t, written)
    IN  CASE w.error \/ s.phase # "Fighting" \/ answer = Still -> {w}
          [] kind = "signal" -> {stored}
          [] OTHER -> {[stored EXCEPT !.ahead.to = None], [w EXCEPT !.error = TRUE],
                       Unheard(w, stored)}

\* tick_* of the encounter that is on; the support pair has two minds.  A tick that has
\* nothing to store waits for no write.
TickEncounter(wait, write) ==
    LET t       == clock + wait
        written == t + write
    IN  /\ Fighting /\ session.stage # "Failed"
        /\ \E first \in Answer(World, "charge", t, written) :
           \E w \in IF kind = "support" THEN Answer(first, "repair", t, written) ELSE {first} :
              /\ w = World => write = 0
              /\ session' = w.session /\ stream' = w.stream
              /\ warned' = w.warned /\ impact' = w.impact /\ ahead' = w.ahead
        /\ Passes(wait, write)
        /\ UNCHANGED kind

Next ==
    \/ \E write \in Left(Writes, 0) :
          \/ \E to \in Places[kind] : Move(to, write)
          \/ \E target \in DOMAIN session.foes, blow \in Blows : Attack(target, blow, write)
          \/ KillWarden(write)
    \/ \E wait \in Left(Delays, 0) : \E write \in Left(Writes, wait) : TickEncounter(wait, write)

Spec == Init /\ [][Next]_vars
-----------------------------------------------------------------------------
(* Properties *)

Living(s) == {n \in DOMAIN s.foes : s.foes[n].health > 0}
Alive     == Living(session)

\* Every variable keeps its type; the health of the living stays within its bounds, and no
\* durable death waits for its completion between two commands.
TypeOK ==
    /\ kind \in Kinds /\ clock \in 0 .. MaxClock[kind]
    /\ session.stage \in {"Door", "Boss", "Complete", "Failed", "Aborted"}
    /\ session.phase \in {"None", "Fighting", "Recovery", "Over"}
    /\ session.open \in BOOLEAN /\ session.fatal = FALSE
    /\ session.health \in 0 .. Health /\ session.confirmed \in 0 .. MaxClock[kind]
    /\ \A n \in DOMAIN session.foes : session.foes[n].health \in 1 .. session.foes[n].max
    /\ stream.state \in {"None", "Active", "Completed", "Failed", "Abandoned", "Invalid"}

\* The replay accepts every prefix the session can leave behind, whatever the time of the
\* writes, their failures and the aborts, until a row follows a tick whose acknowledgement
\* was lost.
StreamIsAccepted == stream.state = "Invalid" => ahead.lost /\ ahead.to = None

\* The stream tells of a session s: who is alive, where, with which health, and how the
\* encounter ended.
Told(s) ==
    kind # "signal" /\ s.stage # "Aborted" =>
        /\ s.phase = "None" => stream.state = "None"
        /\ s.phase = "Fighting" =>
             /\ stream.state = "Active" /\ stream.health \in {None, s.health}
             /\ \A n \in DOMAIN stream.foes :
                   IF n \in Living(s)
                   THEN /\ stream.foes[n].at = s.foes[n].at
                        /\ kind # "lancer" => stream.foes[n].health = s.foes[n].health
                   ELSE stream.foes[n].health = 0
        /\ s.phase = "Over" => stream.state \in {"Completed", "Failed", "Abandoned"}
        /\ s.stage = "Failed" <=> s.health = 0
        /\ s.health = 0 => stream.state = "Failed" /\ stream.health = 0

\* What is stored tells the same fight as the memory that acts on it; after a tick whose
\* acknowledgement was lost it is ahead by the step of that tick, and by no more.
FightIsStored == IF ahead.lost THEN ahead.to # None => Told(ahead.to) ELSE Told(session)

\* Memory and stream tell one story of the fight, which the replay accepts, as long as
\* every tick learns what became of its row.
MemoryMatchesStream == TypeOK /\ StreamIsAccepted /\ FightIsStored

\* Each blow has a warning of its own, or the start of the fight, and does not fall before
\* the whole warning has passed since the player could see it, however long its write took.
WarningIsFull ==
    impact # None => /\ impact.warned # None
                     /\ impact.at >= impact.warned + impact.interval

\* A foe that can still harm the player in the arena never falls silent: late enough it
\* makes a step, after failed writes, phase changes and the death of its partner too.
Dangerous ==
    CASE kind = "bastion_link" -> "guard" \in Alive
      [] kind = "support"      -> "lancer" \in Alive
      [] OTHER                 -> Alive # {}

NeverSilent ==
    Fighting /\ Dangerous /\ Arena(kind, session.place) =>
        Think(kind, "charge", session.minds, session.foes, session.place,
              session.health, clock + 100) # Still

\* The crossed guard never threatens with the slam and the charge at the same time.
OneWarning ==
    Fighting /\ kind = "crossed_guard" /\ Alive = {"guard", "partner"} =>
        ~(session.minds.guard.braced /\ session.minds.lancer.locked # None)

\* A player can always tell what is about to hit, and when.
WarningsAreFair == WarningIsFull /\ OneWarning
=============================================================================
