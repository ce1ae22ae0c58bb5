------------------------- MODULE CooperationRuntime -------------------------
(***************************************************************************)
(* A cooperation as the coordinator of the gateway plays it (SharedSession *)
(* in runtime/gateway): the copy of the operation it keeps in memory, the  *)
(* actors and the Warden around it, and the calls it makes to the store.   *)
(*                                                                         *)
(* One thread takes the commands one by one.  A command that observes the  *)
(* clock does so when it is taken, and reads the clock again when it is    *)
(* handled, so a deadline can pass in between; a departure reads it once.  *)
(* An error of the store aborts the session; every other error ends the    *)
(* command only, at the point the handler has reached.                     *)
(*                                                                         *)
(* The session is at the door, its two seats taken and its route not yet   *)
(* chosen.  Once a route is chosen, or the door is opened without an       *)
(* operation, the session is one of `RouteSession', and "Routed" here.     *)
(* A join, a start of the activity and the commands of challenges and      *)
(* campaigns are refused by such a session, and change nothing.            *)
(* A name that ends in an underscore is a faulty variant of a definition.  *)
(***************************************************************************)
EXTENDS CooperationLedger, Sequences, SequencesExt

CONSTANTS
    Seats,          \* the two players in the order of their admission
    Owned,          \* the combat profiles each player has a weapon for
    IdsOf,          \* the identifiers that clients send with each kind of command
    Steps,          \* the places that clients ask to go to
    DroneDamage,    \* what the drone took from the first player before it died
    WardenDamage    \* what a counterattack of the Warden takes

Players == {Seats[1], Seats[2]}

\* A weapon changes the profile, but not the health its owner was admitted with.
ASSUME RuntimeAssumption ==
    /\ Seats = <<Seats[1], Seats[2]>> /\ Seats[1] # Seats[2]
    /\ Owned \in [Players -> SUBSET Profiles]
    /\ \A p \in Players : \A one, other \in Owned[p] :
          one.max_health = other.max_health /\ DroneDamage < one.max_health
    /\ IdsOf \in [{"Start", "Ping", "Revive"} -> SUBSET OperationIds]
    /\ DroneDamage \in Nat /\ WardenDamage \in Nat

VARIABLES
    members,    \* participants: a participant's role is its position
    capable,    \* participants that asked for the cooperation state
    place,      \* where each actor stands
    kit,        \* the profile of each player with the weapon it holds
    health,     \* the health of each actor
    blows,      \* accepted hits on the Warden, None once it is dead
    stage,      \* SessionStage; "Routed" or "Gone" when the operation's time is over
    runtime,    \* CooperationRuntime, or None
    summaries,  \* the operation summaries that were broadcast
    changed,    \* the modules of a participant are not those of its admission
    task,       \* the command in the coordinator's hands, or None
    online      \* players whose connection lives

world   == <<place, kit, health, blows, changed>>
session == <<members, capable, place, kit, health, blows, stage, runtime, summaries,
             changed>>
vars    == <<stored, clock, reply, members, capable, place, kit, health, blows, stage,
             runtime, summaries, changed, task, online>>

Places  == {"entrance", "anchor", "console", "door"}
Spot    == [entrance |-> <<0, 0>>, anchor |-> <<3, 3>>, console |-> <<4, 3>>,
            door |-> <<6, 0>>]

Seated(p) == Contains(members, p)
Seat(p)   == CHOOSE i \in DOMAIN members : members[i] = p
RoleAt(i) == IF i = 1 THEN "Anchor" ELSE "Runner"
RoleOf(p) == RoleAt(Seat(p))
Player(role) == members[IF role = "Anchor" THEN 1 ELSE 2]

Square(n) == n * n

\* cooperation_distance_squared, with the anchor where it stands or is about to stand.
DistanceFrom(spot) ==
    LET a == Spot[spot]
        r == Spot[place[Player("Runner")]]
    IN  Square(a[1] - r[1]) + Square(a[2] - r[2])

Distance == DistanceFrom(place[Player("Anchor")])

ASSUME StepsAssumption == Steps \subseteq Places

\* An anchor that goes to the door lets go of a runner at the console.
ASSUME ReachAssumption ==
    Square(Spot["door"][1] - Spot["console"][1])
        + Square(Spot["door"][2] - Spot["console"][2]) > MaxReviveDistance

\* What the memory keeps of a ping and of a revive, for the clients to be shown.
PingCopies   == [id : OperationIds, at : Elapsed, active : BOOLEAN]
ReviveCopies == [id : OperationIds, at : Elapsed,
                 status : {"Started", "Pending", "Cancelled", "Completed"}]

\* CooperationRuntime
Memories ==
    [start : OperationIds, state : CooperationStates, ping : PingCopies \cup {None},
     revive : ReviveCopies \cup {None}, last : Phases, endedAt : Elapsed \cup {None},
     subject : Roles \cup {None}]

Command(kind, p, arg) == [kind |-> kind, by |-> p, arg |-> arg]

\* No record of the coordinator is the absent value.
ASSUME RecordsAssumption ==
    /\ None \notin PingCopies /\ None \notin Memories
    /\ \A p \in Players : Command("Leave", p, None) # None

\* The operation is there and has not ended, as the memory knows it.
InProgress == runtime # None /\ Running(runtime.state)

Init ==
    /\ LedgerInit
    /\ members = Seats /\ capable = {}
    /\ place = [p \in Players |-> "entrance"]
    /\ kit \in [Players -> Profiles] /\ \A p \in Players : kit[p] \in Owned[p]
    /\ health = [p \in Players |->
                    IF p = Seats[1] THEN kit[p].max_health - DroneDamage
                    ELSE kit[p].max_health]
    /\ blows = 0 /\ stage = "Door" /\ runtime = None /\ summaries = <<>>
    /\ changed = FALSE /\ task = None /\ online = Players

-----------------------------------------------------------------------------
(* What follows a call to the store *)

\* A SessionPersistenceFailure; an error of the domain; an answer.
Failed   == reply' \in {"Lost", "Conflict", "EvidenceRefused"}
Refused  == reply' \in {"Rejected", "Terminal", "Expired"}
Answered == ~Failed /\ ~Refused

Ignore == UNCHANGED session

\* A step that asks nothing of the store.
NoCall == reply' = "None" /\ UNCHANGED <<stored, clock>>

\* reset: all that a session has is gone.
Reset ==
    /\ members' = <<>> /\ capable' = {} /\ stage' = "Gone" /\ runtime' = None
    /\ place' = [p \in Players |-> "entrance"] /\ health' = [p \in Players |-> 0]
    /\ blows' = 0 /\ changed' = FALSE /\ UNCHANGED <<kit, summaries>>

\* abort_after_command_failure
Abort == Reset

\* A call for another table than the operation's: it fails, or it is done.
OtherCallFails == Keep("Lost")

Remember(rt) ==
    /\ runtime' = rt
    /\ UNCHANGED <<members, capable, stage, summaries>>

Quiet(ping) == IF ping = None THEN None ELSE [ping EXCEPT !.active = FALSE]

\* The memory after a call that did not end the operation.
Updated(ping, revive) ==
    [runtime EXCEPT !.state = stored', !.last = stored'.phase,
                    !.ping = ping, !.revive = revive]

Ended(subject) ==
    [runtime EXCEPT !.last = runtime.state.phase, !.state = stored',
                    !.ping = Quiet(runtime.ping),
                    !.endedAt = clock, !.subject = subject]

\* wire_cooperation_summary, to those that are capable.
Summary(rt) ==
    [outcome |-> rt.state.terminal, last |-> rt.last, subject |-> rt.subject,
     at |-> rt.endedAt, to |-> capable]

Tell(rt) == summaries' = IF Len(members) = 2 THEN Append(summaries, Summary(rt))
                         ELSE summaries

FinishInMemory_(subject) ==
    /\ runtime' = Ended(subject)
    /\ Tell(Ended(subject))
    /\ UNCHANGED stage

\* finish_cooperation_terminal: success ends the activity elsewhere, in KillingBlow.
FinishRuntime(subject) ==
    /\ runtime' = Ended(subject)
    /\ stage' = IF stored'.terminal = "Succeeded" THEN stage ELSE "Failed"
    /\ Tell(Ended(subject))

Finish(subject) == FinishRuntime(subject) /\ UNCHANGED <<members, capable>>

\* What every handler does with the receipt of a call: `update' is its own part.
Settle(update) ==
    \/ Failed /\ Abort
    \/ Refused /\ Ignore
    \/ Answered /\ ~Running(stored') /\ Finish(None) /\ UNCHANGED world
    \/ Answered /\ Running(stored') /\ update

-----------------------------------------------------------------------------
(* Observing the clock *)

ReviveStatus == [Applied |-> "Completed", Cancelled |-> "Cancelled",
                 Pending |-> "Pending", Replayed |-> "Replayed"]

Least(a, b) == IF a <= b THEN a ELSE b

ReviveInMemory_ ==
    /\ Remember(Updated(Quiet(runtime.ping),
                        [runtime.revive EXCEPT !.status = ReviveStatus[reply']]))
    /\ UNCHANGED health

\* apply_cooperation_revive_observation: a completed revive also heals the actor.
ReviveApplied ==
    /\ Remember(Updated(Quiet(runtime.ping),
                        [runtime.revive EXCEPT !.status = ReviveStatus[reply']]))
    /\ health' = IF reply' = "Applied"
                 THEN [health EXCEPT ![Player("Runner")] =
                          Least(ReviveHealth, kit[Player("Runner")].max_health)]
                 ELSE health

ObserveChannel(distance) ==
    /\ ReviveObserved(runtime.revive.id, distance)
    /\ Settle(ReviveApplied /\ UNCHANGED <<place, kit, blows, changed>>)

DropExpired_(next, finished) ==
    \/ /\ ~InProgress
       /\ task' = next /\ Ignore /\ NoCall
    \/ /\ InProgress /\ runtime.state.phase = "ReviveChannel"
       /\ ObserveChannel(Distance)
       /\ task' = IF Answered THEN IF Running(stored') THEN next ELSE finished ELSE None
    \/ /\ InProgress /\ runtime.state.phase # "ReviveChannel"
       /\ task' = IF Expired(runtime.state, clock) THEN None ELSE next
       /\ Ignore /\ NoCall

\* What comes after a call: an error ends the command, and so does an end that nobody
\* can be told of.
After(next, finished) ==
    IF ~Answered THEN None
    ELSE IF Running(stored') THEN next
    ELSE IF Len(members) = 2 THEN finished ELSE None

\* observe_cooperation_clock_at, without a prospective position: only a channel, or a
\* deadline that the memory knows has passed, needs the store.  Then comes `next', or
\* `finished' when the operation has ended here, or nothing after an error.
ObserveClock(next, finished) ==
    \/ /\ ~InProgress
       /\ task' = next /\ Ignore /\ NoCall
    \/ /\ InProgress /\ runtime.state.phase = "ReviveChannel"
       /\ ObserveChannel(Distance)
       /\ task' = After(next, finished)
    \/ /\ InProgress /\ runtime.state.phase # "ReviveChannel"
       /\ Expired(runtime.state, clock)
       /\ TimedOut /\ Settle(Ignore)
       /\ task' = After(next, finished)
    \/ /\ InProgress /\ runtime.state.phase # "ReviveChannel"
       /\ ~Expired(runtime.state, clock)
       /\ task' = next /\ Ignore /\ NoCall

-----------------------------------------------------------------------------
(* The commands *)

StateRequest(p) ==
    /\ capable' = IF runtime # None \/ stage = "Door" THEN capable \cup {p} ELSE capable
    /\ NoCall /\ UNCHANGED <<members, world, stage, runtime, summaries>>

\* all_cooperation_capable, with the choice of a route still open.
Eligible == stage = "Door" /\ Len(members) = 2 /\ capable = {members[1], members[2]}

Fresh(id) ==
    [start |-> id, state |-> stored', ping |-> None, revive |-> None,
     last |-> "AwaitingAnchor", endedAt |-> None, subject |-> None]

Kits == [r \in Roles |-> kit[Player(r)]]

\* A start that is not about two participants, or whose profiles are not those of the
\* modules that come with them, is an error of the store, not of the domain.
Admissible == Len(members) = 2 /\ ~changed

FirstStart(id) ==
    IF Admissible THEN Start(id, Kits, [r \in Roles |-> health[Player(r)]])
    ELSE Keep("Conflict")

StartAgain(id) ==
    IF Admissible THEN RetriedStart(id, Kits, runtime.state.admitted, TRUE)
    ELSE Keep("Conflict")

\* The start of another operation than the one in memory is refused without a call.
StartCommand(p, id) ==
    \/ /\ runtime = None /\ Seat(p) = 1 /\ Eligible
       /\ FirstStart(id)
       /\ \/ Failed /\ Abort
          \/ Refused /\ Ignore
          \/ Answered /\ Remember(Fresh(id)) /\ UNCHANGED world
    \/ /\ runtime # None /\ Seat(p) = 1 /\ runtime.start = id
       /\ StartAgain(id)
       /\ \/ Failed /\ Abort
          \/ ~Failed /\ Ignore
    \/ /\ ~ (Seat(p) = 1 /\ IF runtime = None THEN Eligible ELSE runtime.start = id)
       /\ Ignore /\ NoCall

PingCommand(p, id) ==
    IF Seat(p) = 1 /\ runtime # None
    THEN /\ PingOf(id)
         /\ Settle(/\ Remember(Updated(IF reply' = "Replayed" THEN runtime.ping
                                       ELSE [id |-> id, at |-> clock, active |-> TRUE],
                                       runtime.revive))
                   /\ UNCHANGED world)
    ELSE Ignore /\ NoCall

\* Without a runner to measure the distance to, the command is an error.
ReviveCommand(p, id) ==
    IF Seat(p) = 1 /\ runtime # None /\ Len(members) = 2
    THEN /\ ReviveStart(id, Distance)
         /\ Settle(/\ Remember(Updated(runtime.ping,
                                       IF reply' = "Replayed" THEN runtime.revive
                                       ELSE [id |-> id, at |-> clock, status |-> "Started"]))
                   /\ UNCHANGED world)
    ELSE Ignore /\ NoCall

Walk(p, spot) ==
    /\ place' = [place EXCEPT ![p] = spot]
    /\ UNCHANGED <<kit, blows, changed>>

\* The Warden comes to the door; the event of its coming is appended first.
OpenDoor(p) ==
    \/ OtherCallFails /\ Abort
    \/ /\ Walk(p, "door") /\ stage' = "Boss" /\ NoCall /\ UNCHANGED health
       /\ UNCHANGED <<members, capable, runtime, summaries>>

\* An anchor that moves while it revives is measured from where it goes; its move goes
\* on unless the operation ended or the call failed.  It opens no door: see
\* ReachAssumption.
MoveInChannel(p, spot) ==
    /\ ReviveObserved(runtime.revive.id, DistanceFrom(spot))
    /\ Settle(ReviveApplied /\ Walk(p, spot))

ArriveAtAnchor(p) ==
    /\ AnchorArrival
    /\ Settle(/\ Remember(Updated(runtime.ping, runtime.revive))
              /\ Walk(p, "anchor") /\ UNCHANGED health)

FallAtConsole(p) ==
    /\ RunnerDown
    /\ Settle(/\ Remember(Updated(Quiet(runtime.ping), runtime.revive))
              /\ Walk(p, "console") /\ health' = [health EXCEPT ![p] = 0])

\* Without an operation the door locks the baseline route.
LeaveForRoute ==
    \/ OtherCallFails /\ Abort
    \/ /\ stage' = "Routed" /\ NoCall
       /\ UNCHANGED <<members, capable, world, runtime, summaries>>

\* prepare_cooperation_movement and what move_player does with its effect.
MoveCommand(p, spot) ==
    LET phase  == IF InProgress THEN runtime.state.phase ELSE "None"
        anchor == Seat(p) = 1
        over   == stage \in {"Complete", "Failed"} \/ (runtime # None /\ ~InProgress)
        fallen == InProgress /\ runtime.state.life[RoleOf(p)] # "Active"
        calls  == \/ phase = "ReviveChannel" /\ anchor
                  \/ phase = "AwaitingAnchor" /\ anchor /\ spot = "anchor"
                  \/ phase = "AwaitingRunner" /\ ~anchor /\ spot = "console"
                  \/ phase = "EncounterActive" /\ stage = "Door" /\ spot = "door"
        routes == runtime = None /\ stage = "Door" /\ spot = "door"
    IN  \/ (over \/ fallen) /\ Ignore /\ NoCall
        \/ /\ ~over /\ routes /\ LeaveForRoute
        \/ /\ ~over /\ ~fallen /\ ~calls /\ ~routes
           /\ Walk(p, spot)
           /\ NoCall /\ UNCHANGED <<members, capable, health, stage, runtime, summaries>>
        \/ /\ ~over /\ ~fallen /\ calls
           /\ \/ phase = "ReviveChannel"   /\ MoveInChannel(p, spot)
              \/ phase = "AwaitingAnchor"  /\ ArriveAtAnchor(p)
              \/ phase = "AwaitingRunner"  /\ FallAtConsole(p)
              \/ phase = "EncounterActive" /\ OpenDoor(p)

\* enemy_defeated and complete_cooperation_activity: the Warden's death is appended to
\* the replay stream, then the operation is completed at the time it is by then.  A
\* completion that comes too late leaves a dead Warden and an operation that goes on.
\* The balances that are read after a completion can be lost like its answer.
KillingBlow ==
    \/ OtherCallFails /\ Abort
    \/ /\ Completion
       /\ \/ Failed /\ Abort
          \/ /\ Refused
             /\ blows' = None
             /\ UNCHANGED <<members, capable, place, kit, health, stage, runtime,
                            summaries, changed>>
          \/ /\ Answered
             /\ blows' = None /\ stage' = "Complete"
             /\ runtime' = Ended(None) /\ Tell(Ended(None))
             /\ UNCHANGED <<members, capable, place, kit, health, changed>>

\* The Warden strikes back at every second hit it survives, twice at most; the hits
\* after that are not told apart.
StrikesBack(hits) == hits \in {2, 4}
CountedHits == Least(blows + 1, 5)

\* counterattack_after_accepted_hit: a lethal one is stored before the actor falls of it.
SurvivedBlow(p) ==
    LET hits == CountedHits
        left == IF StrikesBack(hits)
                THEN IF health[p] > WardenDamage THEN health[p] - WardenDamage ELSE 0
                ELSE health[p]
    IN  /\ UNCHANGED <<place, kit, changed>>
        /\ blows' = hits /\ health' = [health EXCEPT ![p] = left]
        /\ \/ /\ left > 0
              /\ NoCall /\ UNCHANGED <<members, capable, stage, runtime, summaries>>
           \/ /\ left = 0
              /\ Defeat(RoleOf(p)) /\ Answered
              /\ Finish(RoleOf(p))

\* The blow that could not be stored is not counted either.
LethalBlowLost(p) ==
    /\ StrikesBack(CountedHits) /\ health[p] <= WardenDamage
    /\ Defeat(RoleOf(p))
    /\ \/ Failed /\ Abort
       \/ Refused /\ Ignore

\* A shot is refused when its target is not the Warden, too far away or too soon.  The
\* damage of weapons is not modelled: any hit may be the last one.
AttackCommand(p) ==
    \/ Ignore /\ NoCall
    \/ /\ stage = "Boss" /\ blows # None
       /\ runtime.state.life[RoleOf(p)] = "Active" /\ health[p] > 0
       /\ KillingBlow \/ SurvivedBlow(p) \/ LethalBlowLost(p)

\* A weapon is locked during the operation and after it.
EquipCommand(p) ==
    IF stage \in {"Complete", "Failed"} \/ InProgress
    THEN Ignore /\ NoCall
    ELSE \/ OtherCallFails /\ Abort
         \/ \E profile \in Owned[p] :
               /\ kit' = [kit EXCEPT ![p] = profile]
               /\ NoCall /\ UNCHANGED <<members, capable, place, health, blows, stage,
                              runtime, summaries, changed>>

\* Whoever asks for its commissions has its modules read again, and finds what another
\* session of the same character has made of them.
AcquisitionCommand ==
    \/ OtherCallFails /\ Abort
    \/ /\ changed' \in {changed, TRUE}
       /\ NoCall /\ UNCHANGED <<members, capable, place, kit, health, blows, stage,
                      runtime, summaries>>

\* Modules are combined and changed after the activity only.
LoadoutCommand ==
    IF stage = "Complete" THEN AcquisitionCommand ELSE Ignore /\ NoCall

\* The choice of a route is closed by the start of an operation.
RouteCommand ==
    \/ Ignore /\ NoCall
    \/ runtime = None /\ stage = "Door" /\ LeaveForRoute

-----------------------------------------------------------------------------
(* The loop of the coordinator *)

CommandsOf(p) ==
    {Command(kind, p, None) : kind \in {"State", "Attack", "Equip", "Acquisition", "Loadout",
                                        "Route"}}
    \cup (UNION {{Command(kind, p, id) : id \in IdsOf[kind]} : kind \in DOMAIN IdsOf})
    \cup {Command("Move", p, spot) : spot \in Steps}

\* run: the clock is observed before the command is handled.
Take ==
    /\ task = None
    /\ \E p \in online : Seated(p) /\ \E c \in CommandsOf(p) : ObserveClock(c, None)
    /\ UNCHANGED online

Handle ==
    /\ task # None /\ task' = None
    /\ UNCHANGED online
    /\ \/ task.kind = "State"   /\ StateRequest(task.by)
       \/ task.kind = "Start"   /\ StartCommand(task.by, task.arg)
       \/ task.kind = "Ping"    /\ PingCommand(task.by, task.arg)
       \/ task.kind = "Revive"  /\ ReviveCommand(task.by, task.arg)
       \/ task.kind = "Move"    /\ MoveCommand(task.by, task.arg)
       \/ task.kind = "Attack"  /\ AttackCommand(task.by)
       \/ task.kind = "Equip"   /\ EquipCommand(task.by)
       \/ task.kind = "Acquisition" /\ AcquisitionCommand
       \/ task.kind = "Loadout" /\ LoadoutCommand
       \/ task.kind = "Route"   /\ RouteCommand

DepartUnobserved_(p) ==
    /\ task = None /\ p \in online /\ Seated(p)
    /\ online' = online \ {p}
    /\ task' = Command("Leave", p, None)
    /\ Ignore /\ NoCall

\* disconnect_at, first half: a connection that ends always sends its Disconnect.
Depart(p) ==
    /\ task = None /\ p \in online /\ Seated(p)
    /\ online' = online \ {p}
    /\ LET leave == Command("Leave", p, None) IN ObserveClock(leave, leave)

Without(p) ==
    /\ members' = RemoveAt(members, Seat(p))
    /\ capable' = capable \ {p}

\* disconnect_at, second half, at the same elapsed time: what still runs is abandoned in
\* the name of the one who leaves, and the last one takes the session along.  One who
\* ends an operation that nobody can be told of stays behind.
Leave ==
    /\ task # None /\ task.kind = "Leave"
    /\ task' = None /\ UNCHANGED online
    /\ LET p == task.by
       IN  \/ /\ InProgress
              /\ Abandon(RoleOf(p))
              /\ \/ Failed /\ Abort
                 \/ Refused /\ Ignore
                 \/ /\ Answered /\ FinishRuntime(RoleOf(p)) /\ UNCHANGED world
                    /\ IF Len(members) = 2 THEN Without(p)
                       ELSE UNCHANGED <<members, capable>>
           \/ /\ ~InProgress /\ Len(members) > 1
              /\ Without(p)
              /\ NoCall /\ UNCHANGED <<world, stage, runtime, summaries>>
           \/ /\ ~InProgress /\ Len(members) = 1
              /\ Reset /\ NoCall

\* A departure reads the clock once; everything else sees it move.
Tick ==
    /\ InProgress
    /\ task # None => task.kind # "Leave"
    /\ clock < MaxElapsed /\ clock' = clock + 1
    /\ reply' = "None" /\ UNCHANGED stored
    /\ Ignore /\ UNCHANGED <<task, online>>

Departure == \E p \in Players : Depart(p)

Next == Take \/ Handle \/ Departure \/ Leave \/ Tick

\* Time passes, the coordinator finishes what it has taken, and a player sends commands
\* or is disconnected when it has been idle for too long.
Fairness ==
    /\ WF_vars(Tick)
    /\ WF_vars(Handle \/ Leave)
    /\ WF_vars(Take \/ Departure)

Spec == Init /\ [][Next]_vars /\ Fairness

-----------------------------------------------------------------------------
(* Safety *)

\* What the memory holds is what is stored, whatever was retried, cancelled or answered
\* late in between: the state, the copies of the ping and of the revive that clients are
\* shown, the health of the actors, and who is there.
MemoryIsStored ==
    /\ runtime # None =>
        /\ runtime.state = stored
        /\ stored.ping = (IF runtime.ping = None THEN None
                          ELSE [id |-> runtime.ping.id, at |-> runtime.ping.at])
        /\ stored.ping # None => (runtime.ping.active <=> stored.phase = "AwaitingRunner")
        /\ stored.channel # None =>
              /\ stored.channel = [id |-> runtime.revive.id, at |-> runtime.revive.at]
              /\ runtime.revive.status \in {"Started", "Pending"}
        /\ stored.completedRevive # None =>
              /\ stored.completedRevive = runtime.revive.id
              /\ runtime.revive.status = "Completed"
    /\ InProgress =>
        /\ Len(members) = 2
        /\ \A role \in Roles : health[Player(role)] > 0 <=> stored.life[role] = "Active"
    /\ stage = "Boss" => InProgress /\ stored.phase = "EncounterActive"
    /\ \A p \in Players : Seated(p) =>
          p \in online \/ (task # None /\ task.kind = "Leave" /\ task.by = p)

\* The role that an ending is about: the one who left, or the one the Warden struck.
SubjectOf(s) ==
    CASE s.terminal = "AbandonedDisconnect" ->
            RoleAt(CHOOSE i \in {1, 2} : ~Seated(Seats[i]))
      [] s.terminal = "FailedParticipantDefeated" ->
            CHOOSE role \in Roles : s.life[role] = "Defeated"
      [] OTHER -> None

\* An operation that ends is told once, to both who played it, with its outcome, its
\* subject and its time, and the activity ends with it: also when one of them is leaving,
\* and when the deadline was found by a command that had nothing to do with it.
EndsAreTold ==
    /\ Len(summaries) <= 1
    /\ runtime # None /\ ~Running(runtime.state) =>
        /\ stage = (IF runtime.state.terminal = "Succeeded" THEN "Complete" ELSE "Failed")
        /\ Len(summaries) = 1
        /\ LET told == summaries[1]
           IN  /\ told.outcome = runtime.state.terminal
               /\ told.to = Players
               /\ told.at = clock
               /\ told.last \notin {"Succeeded", "Failed"}
               /\ told.subject = SubjectOf(runtime.state)

\* The session is thrown away only because the database failed, because the last player
\* left, because a blow killed after the deadline, or because the start came when the
\* participants or their modules were no longer those that were admitted.
\* In particular no departure and no late command does it.
AbortsAreExplained ==
    [][stage # "Gone" /\ stage' = "Gone" =>
        \/ reply' = "Lost"
        \/ /\ task # None
           /\ \/ task.kind = "Leave" /\ Len(members) = 1
              \/ /\ task.kind = "Attack" /\ reply' = "EvidenceRefused"
                 /\ Expired(stored, clock)
              \/ /\ task.kind = "Start" /\ reply' = "Conflict"
                 /\ changed \/ Len(members) = 1]_vars

-----------------------------------------------------------------------------
(* Liveness *)

\* An operation in memory comes to its end, although no deadline is watched: somebody
\* sends a command, or everybody is disconnected.
OperationsEnd == InProgress ~> ~InProgress
=============================================================================
