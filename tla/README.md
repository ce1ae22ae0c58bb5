# Revenant in TLA+

Specifications of the Revenant server (`src/runtime`): a gateway that admits one or two players
into one shared session, runs an authored activity for them, and records every accepted step in
PostgreSQL together with replay evidence and rewards. The modules are written from the Rust source
and its SQL migrations; TLC checks them on small instances, and TLAPS proves the
cooperation, from its domain to its store and its coordinator, the route operations, the challenge save
and the connections for every value of the constants.

## The system

| Part | State it keeps | Operations | How it talks to the others |
|---|---|---|---|
| Game connections (`gateway`) | a reader and a writer thread per connection, two counters, a guard per connection | accept, handshake, Join, Start, intents, departure | send `SessionCommand`s over a bounded queue; receive a verdict and messages over a bounded outbound queue |
| Shared session coordinator (`gateway`) | participants, stage, session id, actors, combat, runtimes of whatever is played | `join`, `start_if_ready`, about twenty gameplay handlers, ticks, `disconnect`, `abort_after_command_failure`, `reset` | one thread, one command at a time; calls the persistence, broadcasts to the outbound queues |
| Cooperation domain (`cooperation`) | phase, contributions, ping, downed time, revive channel, lives, outcome | ten methods of `CooperationState` | pure; run by the persistence inside a transaction, and again when a row is loaded |
| Cooperation persistence (`persistence`, `replay`, migration 0008) | operation row, participant rows, replay events, grants | one idempotent transaction for each method | called by the coordinator; a database error aborts the session |
| Cooperation runtime (`gateway`) | a copy of the operation, of its ping and its revive; places, health, blows | start, ping, revive, move, attack, departure | observes the clock before a command, then acts on the store |
| Route operations (`operations`, `persistence`, `replay`) | capable participants, selection, phase, transitions, evidence, summary | mark capable, open, select or lock, complete, time out | in memory, and one transaction for the selection and one for the end |
| Encounters and AI (`ai`, `gateway`, `replay`) | a timed mind for each enemy | tick, move, shoot | every step is stored, then adopted; the replay runs the minds again |
| Challenges | save of a character (revision, active run, records, mastery), world of the running attempt | enter, retry, confirm, end, abandon, interrupt | one transaction per command, judged by a replay of all rows of the session |
| Campaign | save (chapter, run, checkpoint, story), world | enter, resume, practise, prove a milestone, save it, choose | proof row first, then the checkpoint under the character's lock |
| Modules, acquisition | fragments, modules, loadout, mutation records, proofs, claims | combine, equip, refresh, claim | transactions with replay evidence |
| Replay reconstruction | none | validate and rebuild a session from its rows | used by the persistence before it commits and when it loads |

What is hard here: the coordinator is sequential, but what surrounds it is not. Connections come, go and
fail while their commands are queued; an abort can empty the session between two commands; a commit
can fail or lose its acknowledgement, and the caller repeats the call, possibly later; deadlines pass
between the observation of the clock and the act; two gateways may serve one character from one
database; and every row that is written is judged by a replay of all that was written before it, so
that one row too many makes a session, a save or a character unreadable.

What makes each part correct:

* domain: contributions in the fixed order, limits observed before anything else, one outcome, one revive;
* stores and journals: whatever was committed can be loaded; row, evidence and rewards agree; rewards are
  granted once; a stored end is final;
* runtimes: memory is what is stored, every end is told once to those it concerns, a session is thrown
  away only for a reason that can be named, and what is running comes to an end;
* encounters and attempts: the evidence a session collects is what the replay accepts, warnings are
  given in full, no enemy falls silent, holds are continuous;
* saves: progress, records and mastery are never lost, an honest player is never refused or stuck;
* connections: slots are given back exactly once, nobody keeps a seat without a connection or a
  connection without a seat, a full room starts.

`PROJECT.json` lists every component with its status and every hazard with the properties about it.

## Modules

| Module | Models | State and actions |
|---|---|---|
| `CooperationDomain` | `cooperation/src/lib.rs` | no variables: one operator per method, from a state and arguments to the next state and an answer |
| `Cooperation` | the same, driven by callers | `op`, `clock`, `answer`; one action per method, and `Tick` |
| `RelayContract` | (abstract) what an operation promises | `Contribute`, `Fail`, `Pass` |
| `CooperationEvidence` | `replay/src/cooperation.rs` | no variables: which stream of rows is accepted, and what it reconstructs |
| `CooperationStore` | `persistence/src/cooperation.rs`, migration 0008 | `row`, `events`, `grants`, `clock`, `reply`; every call gives the transactions it may come to, and `Settle` commits or drops one. `Rebuilt` is `reconstruct_state`, a chain of the domain's methods in the order in which a row records their calls (`UpToAnchor`, `UpToPing`, `UpToFall`, `UpToChannel`); `RowChecks` are the CHECK constraints; a commit may fail or lose its answer |
| `CooperationLedger` | (abstract) what the store promises the gateway | `stored`, `clock`, `reply`; one action per call |
| `CooperationRuntime` | the handlers of `gateway/src/lib.rs` around a cooperation (extends the ledger) | `members`, `capable`, `place`, `kit`, `health`, `blows`, `stage`, `runtime`, `summaries`, `changed`, `task`, `online`; `Take` observes the clock for a command, `Handle` handles it, `Depart` and `Leave` are the two halves of `disconnect_at` |
| `SharedSession` | admission, start, abort, reset of the coordinator | `members`, `stage`, `session`, `outbound`, and what is durable; one action per command |
| `Gateway` | the connections around it (extends `SharedSession`) | `pc`, `writer`, `cut`, `active`, `unauth`, `queue`; one action per step of a thread; `Coordinate` takes the first command |
| `RouteDomain`, `RouteSession` | `operations`, `replay/src/route.rs`, and the handlers around a route | `members`, `capable`, `equipped`, `stage`, `route`, `enemy`, `clock`, `db`, `answers`, `told`; one action per handler |
| `EnemyMinds` | the six minds of `ai` | no variables: what a mind proposes at a time |
| `EncounterEvidence` | `replay/src/{lancer,bulwark,support,prism,elite}.rs` | the judgement of the stream, row by row |
| `Encounter` | the tick and the handlers of a solo session with one of the encounters | `session` (mind and actors), `stream`, `clock`, `ahead` (what the stream holds and the session was not told); `TickEncounter`, `Move`, `Attack`, `KillWarden` |
| `ChallengeDomain` | `challenges/src` | no variables: contracts, commands, records, mastery |
| `ChallengeSave` | `persistence/src/challenges.rs`, `gateway/src/challenges` | `journal`, `lock`, `gates`, `board`; two gateways, one transaction at a time |
| `ChallengeRuns`, `ChallengeAttempt` | the controllers of the contracts, the handlers that run them and their replay | a step is planned, stored with its checkpoint, adopted; `Unheard` is a lost acknowledgement |
| `CampaignDomain`, `CampaignEvidence`, `Campaign` | `campaign`, `replay/src/campaign*.rs`, `persistence` and `gateway/src/campaign*.rs` | `logs`, `journal`, `ledger`, `gates`; `Prove` and `Save` are the two transactions of a milestone |
| `ModuleCatalog`, `Loadout` | `modules`, `persistence`, `gateway/src/acquisition.rs` and their replay | `save`, `combines`, `changes`, `grants`, `proofs`, `claims`, `log`, `gates` |
| `CooperationDomainProofs`, `CooperationProofs`, `CooperationStoreProofs`, `CooperationRuntimeProofs`, `RouteSessionProofs`, `ChallengeSaveProofs`, `LoadoutProofs`, `GatewayProofs` | theorems | see *Proofs* |
| `MC*` | instances for TLC | |

How they compose: `Gateway` extends `SharedSession`; `CooperationStore` implements `RelayContract` and
`CooperationLedger` (both by `INSTANCE ... WITH`, together the property `ImplementsLedger`), and
`CooperationRuntime` runs on `CooperationLedger`, so that what is checked of the runtime holds with the real
rows and evidence behind it.

A definition whose name ends in an underscore is a faulty variant of the definition that follows it.
No specification uses it; put in the place of the real one it shows which property notices the fault.

### What is abstracted

* Identifiers, profiles and loadouts are members of small sets. Times are small numbers with the order
  and the equality of the real limits kept; encounters and challenges use the real numbers in units of
  100 and 600 ms. The 64-bit range of elapsed time is `MaxElapsed`.
* `SharedSession`: the stages Drone, Stabilizer, Door and Boss are one stage `Active`, and every gameplay
  command is `Play`: it may go on, end the activity, close the queues of slow members, or fail in the
  database. The modules of the single games have the commands one by one.
* `CooperationStore`: identities, weapons and loadouts of the evidence are reduced to roles; every
  transaction re-reads the whole stream before it commits; world events after the start are left out.
* `CooperationRuntime`: starts at the door, where a cooperation can start, with the route still open; the
  choice of a route and the lock of the baseline are in `RouteSession`. Retrying an operation writes
  nothing anew. `reply = "None"` means that a step made no call. A ping needs no position. With the
  numbers of the catalog (damage 15, at most two counterattacks, health 90 to 100) no blow kills;
  the instance has a stronger Warden, so that the path to a defeat is checked.
  `ChallengeAbandon` and the story command of the campaign do not observe the clock and do not exist here.
* `RouteSession`: health and damage are the real numbers, because the validators compare them. Cooldowns,
  ranges and positions only decide whether an attack is accepted: any member may do the next thing
  at any time. Players do not die: a route takes at most 50 of their 100. A seed is the bit that picks
  one of a route's two events. The legacy variants without replay are left out.
* `Encounter`: solo sessions. The ticks only log their errors, and the store reconnects, so the session goes on
  when a tick's row was stored and its acknowledgement lost (`Unheard`, here and in `ChallengeAttempt`): the stream is
  ahead by that step, which `ahead` keeps, the session makes the step again, and the replay refuses its second row.
  From that row on nothing is claimed of the stream.
* `ChallengeSave`: equipment always agrees; whether a run was clean is any answer; the retry of the same
  row in the same millisecond is left out. `ChallengeAttempt`: the fights of the gauntlet are blows,
  deaths and health.
* `Campaign`: walking and fighting are reduced to a place that is reached and a foe that falls, so what an
  unacknowledged tick of a fight does to the evidence (`Encounter`) is outside its scope. The errors
  of story commands are swallowed as "unconfirmed", as in the code.
* `Loadout`: previews and rejections only read and are left out, as are the frozen participants of the
  first version and the overflow of fragments.

Every database call succeeds, fails, or commits and fails to say so. Where the code aborts the session
on both failures (`SessionPersistenceFailure`), the model does; `CooperationStore` lets its caller try again,
because the retries are what it is about.

## Runs

| Run | Instance | States | What it shows |
|---|---|---|---|
| `cooperation` | full health or none, two ids, distances around the reach, times 0..9 | 30,456 | every sequence of calls keeps the state consistent, observes every deadline, ends once, and refines `RelayContract` |
| `store` | two ids, two distances, full and reduced health, times 0..4, commits that fail or lose their answer | 69,638 | row, stream and rewards stay one fact under retries; domain, schema and replay judge alike but for one late defeat; the rows are the ledger the gateway counts on |
| `gateway` | three connections, two of one account and one with an outdated build, two seats, two slots | 667,115 | seats, slots and session stay in step while connections are cut, writers fail and the database errs |
| `gateway_live` | two connections of two accounts, fair threads | 25,691 | every leaver gives back seat, writer and slot; a full room starts |
| `route` | two players, two weapons, two ids, a deadline at 2, times 0..4 | 193,864 | memory and database agree, the deadline decides, rewards come once, a refusal of the evidence has one of four causes |
| `route_kill` | one player with the strongest weapon that can be admitted | to the violation | a kill before the second counterattack is refused (see *Disagreements*) |
| `encounter` | every kind of encounter, three places, slow, failed and unacknowledged writes | 282,482 | stored evidence is accepted and matches the memory until a tick loses its acknowledgement, and is then ahead by that step; warnings are given in full, no foe falls silent |
| `challenge_save` | two gateways, three operations, two clients, several histories, two sessions each, abandonments sent again | 229,006 | the journal stays readable, a run belongs to one session and another that is told of it adds nothing, records and mastery are kept |
| `challenge_attempt` | one attempt at each contract, delays of 0, 2 and 3 steps, failures around every write | 170,102 | what a session plans its replay accepts; holds are continuous; save and world end together |
| `campaign` | two gateways, two entries each, from several numbers of cleared chapters | 177,243 | milestones stored in two transactions, story retries, practice: an honest step is saved, progress is kept |
| `loadout` | two gateways, clients of two catalogs, two operations, two sessions each | 325,001 | the books stay sound, the evidence breaks only when two sessions overlap, nothing is taken back |
| `cooperation_runtime` | two players, two weapons for one of them, two ids per command, a Warden that can kill, times 0..3 | 456,690 | memory is what is stored, ends are told, aborts have a database cause, every operation ends |

The bounds, and why they are enough:

* Times. Limits enter the code only through `<=` and through sums of an accepted time and a limit. Every
  limit has a time before it, at it and after it, and the clock runs past the last sum. In
  `cooperation_runtime` the deadline can pass between the observation of the clock and the act in every
  phase; each of the three timeouts, a late lethal blow, a late kill, a cancelled revive, a departure
  of either role, and the repeated start after the end are reached.
* Identifiers. The code compares an identifier with one that is stored: two are enough to be the same or
  another. They are interchangeable, hence the symmetry (in runs without liveness).
* Connections. Three are the least that let a third come for the seat of one who leaves while the
  second stays. The command queue has the bound of the code. Each connection lives once; a player
  who returns is another connection of the same account.
* Gateways. Two are the least that interleave on one character; each opens as many sessions as the bound
  of the run lets it, in any order, and `MaxSessions`/`MaxEntries` of 2 let one session find what the other
  has left, whether it ended, was dropped or still runs. Three would only add sessions that wait for
  the same lock.
* Revisions. `MaxRevision` is the real limit of a save brought near: the instances start from saves with few
  revisions left, so that the limit is met, and from each chapter, so that each can be ended
  before it (only the last two chapters of the campaign are long: `Came(4, ..)` starts lower). A new character has five
  rows in `challenge_save`: enough for a run that is abandoned, a second session's run, the abandonment sent again and
  a step after it; the history with a finished gauntlet has one left, so that an admission meets the limit.
* Encounters and attempts. `MaxClock` and `MaxTime` are, for each kind, not before the time at which its longest
  cycle repeats or the attempt ends (the Prism Warden can be killed within it, in the recovery that follows its
  first pair of pulses); places are those its guards tell apart.
* Routes. Rifle and sidearm need six to eighteen blows, so a Warden survives two counterattacks; a weapon that
  kills faster is the subject of `route_kill`.

`CHECK_DEADLOCK FALSE` is set where the system really stops: connections that have all come and gone, a
session that was emptied or aborted, a save at its last revision, a clock at its bound.

## Fairness

`gateway_live` (`Fairness` in `Gateway`): the coordinator thread takes commands as long as there are any. A
reader that waits for its verdict gets it or a dropped channel; a read on a socket that was shut down
returns; a writer whose sender is dropped ends, because its writes have a timeout. `SendStart` and
`SendDisconnect` are strongly fair: they block on a bounded queue that serves its waiting senders in turn.
Nothing is assumed of clients: none must connect, play or leave.

`cooperation_runtime` (`Fairness` in `CooperationRuntime`): time passes, the coordinator finishes what it has
taken, and a command or a departure arrives. The last is no promise of the clients: a connection
that is silent for `GAMEPLAY_IDLE_TIMEOUT` (five minutes, `gateway/src/lib.rs:117`) is closed, and
the guard of the connection always sends its Disconnect. It is what `OperationsEnd` rests on, because no
timer watches the deadline of a cooperation: the code observes it only when something arrives.

## Proofs

The theorems hold for every value of the constants: any identifiers, kits, weapons, distances and damages, any
durations, budget and saturation point of the clock, any number of connections, gateways, sessions and revisions,
and any limits. They rest on the
assumptions the modules declare next to their constants, which TLC evaluates in the runs:

| Assumption | Says |
|---|---|
| `DurationsAssumption` | limits are natural numbers, the revived health is positive, and the operation's limit plus that of a phase does not reach past the saturation point of the clock |
| `ProfilesAssumption` | a profile's maximum health is not below the revived health |
| `NoneAssumption`, `RecordsAssumption`, part of `StoreAssumption` | an absent value is not a present one |
| `InputsAssumption`, `DistancesAssumption`, part of `StoreAssumption` | measured distances are integers, an offered health is a natural number |
| `RuntimeAssumption`, `StepsAssumption`, `ReachAssumption` | two different players; all weapons of a player have the same maximum health, which the drone's blow does not reach; the door is out of the console's reach for a revive |
| `RouteAssumption`, `ClockAssumption` | one or two players, a positive damage for each weapon, a budget the clock can pass |
| `AbsenceAssumption` | an absent selection, summary, row, runtime or enemy is not a present one |
| `SessionAssumption`, `LimitsAssumption` | one or two seats, positive limits |
| `SaveAssumption`, `MaxRevisionAssumption` | what is offered is a contract with a preset it allows; times are natural numbers; a save may have a positive number of revisions |
| `LoadoutAssumption` | clients negotiate catalogs that exist; a save of earlier days has natural numbers, modules that exist and a loadout of at most three owned ones |
| `HistoryAssumption` | a journal of earlier days was written by the commands of the domain, in sessions that are over: each row was accepted when those before it were there, and has the form `Written`, which `WrittenGrows` shows every further row to keep |

In every case the invariant a run checks is not inductive; what is added, and why:

**The domain** (`CooperationDomainProofs`, `CooperationProofs`). Whether `pings` may set a flag depends on which
flags the phase stands for; whether a revive leaves health and life in agreement depends on who is down; whether
an accepted time can exceed a deadline depends on the times before it. The inductive invariant is

    IInv == Consistent(op) /\ InTime(op, clock) /\ clock \in Elapsed /\ answer \in Answers

where `Consistent` gathers what phase, flags, outcome, life and revive say about each other, and `InTime` orders
the accepted times. First, each method, whatever its arguments, leaves the state alone or takes one of ten
elementary steps (`StepOf`; `ArriveAnchorSteps` to `ObserveDeadlinesSteps`). Second, each elementary step keeps
`Consistent` (`StepConsistent`) and `InTime` (`StepInTime`), records its contribution after those it needs
(`StepRecords`), and says what a terminal state does (`TerminalStutters`, `LiveStepEnds`). Third, an action is a
`StepOf` (`CallsAreSteps`). All that follows uses the second layer only.

**The ledger** (first part of `CooperationRuntimeProofs`). Every call leaves `stored` alone or takes a `StepOf`
(`CallsKeep`), hence `LedgerInv` and finality. The lemmas `AnchorArrivalTells` to `AbandonTells` say of each
call which answers go with which step; the coordinator's proof knows the ledger through them alone.

**The store** (`CooperationStoreProofs`). That a committed row loads is about the replay of the calls it
records. The replay is a chain, so the row of a call that was applied is rebuilt by the chain of the row before and that one
call (`ReplayOfPing`, `ReplayOfFall`, `ReplayOfChannel`, `ReplayOfRevive`), and the columns no call records do not
matter (`SameCallsSameReplay`). `RowInv` says: the CHECKs hold, the chain rebuilds exactly what the columns say
(`Loaded(r) = Meaning(r)`), that state is `Consistent` and `InTime`, and a row in its revive channel without its
revive rebuilds to the cancelled revive, because a cancellation rewrites the row to that. `EvidenceInv` says that the stream
tells each contribution of the row once, with its payload and in order, and, while the row runs, nothing
else. `StoreInv` joins both, ties the grants to the outcome, and lets evidence be refused only
after a deadline. Each transaction is then shown `Sound`: it writes nothing (`Leaves`), or writes the row, the stream
and the grants of one step of the domain (`Changes`), or is refused late (`RefusedLate`); what happens to its commit
is shown once for all of them. The refinements follow: a transaction that changes the row is the ledger's call with the same
answer (`MutationsAreLedgers`, `EndingsAreLedgers`, `StartsAreLedgers`), one that does not is its repetition or its
refusal, and a lost commit is the ledger's `Lost`.

**The coordinator** (`CooperationRuntimeProofs`). `RuntimeInv` is

    Types /\ MemoryAgrees /\ BothPlay /\ StagesAgree /\ EndAgrees /\ TaskInv

`MemoryAgrees` ties the copy of the operation, of its ping and of its revive to what is stored, and carries `Consistent` and
`InTime` of it. `BothPlay` says that while the operation runs both are seated and opted in and nothing
has been summarised: it gives an end its subject and its audience. `StagesAgree` ties the stage to phase and
members. `TaskInv` says that the command in hand is a member's, and that a departure of which the clock was
observed has not expired: it excludes that an abandonment is refused for its evidence, which would
leave an end that nobody is told.

**The route session** (`RouteSessionProofs`). `SessionInv` is

    TypeOK /\ StageInv /\ StorageInv /\ ToldInv /\ PathInv /\ WardenInv

`StageInv` says which stages a phase of the operation can be in and when there is an enemy. `StorageInv` says that
memory and database have the same selection and the same end, that nobody is paid before a choice, and what a session
that is empty may have left: without it a repeated start could find a row it does not expect. `ToldInv` says that an
end stored while the leader is there has ended the operation in memory too, so that no second end is ever
computed from it. `PathInv` says that the transitions are the completed and activated pairs of the path up to the
objective of the stage (`Walked`): `WalkOn`, `WalkReaches` and `WalkActivates` derive from it which objective is active,
`WalkExtends` keeps it, and `EndedPathIsValid` shows that such a path with its end passes the validator. `WardenInv`
ties the enemy's counterattacks to those of the evidence and says when a dead Warden may stand.

That refusals are explained (`RefusalsExplained`) is about the evidence of the fight, and about numbers.
`EvidenceInv` adds that hits, remaining health and counterattacks of the evidence are those of the enemy, and that the
damage done lies between seven for each hit and what the strongest weapon does in as many hits. With

    Moderate == \A w \in Weapons : 7 <= Damage[w] /\ 4 * Damage[w] < WardenHealth(N)

the Warden takes at least five blows, of which the second and the fourth are answered, and never more than the
64 that may be reported; so the evidence of a kill and of a timeout is accepted (`KillIsAccepted`,
`FailureIsAccepted`) unless one of the four listed causes is there. The code admits effective damages from 18 to 80: for
two players all of them are moderate, for one player those below 60. That the hypothesis is needed is what
`route_kill` shows: one player with a weapon of 78 kills in four blows. The other theorems about the route do not need it.

**The challenge save** (`ChallengeSaveProofs`). The proof has three layers. First, what a command does to a save
(`CommandSteps`): an admission names the run by the new revision, any other command goes on with the active run or
ends it, records only improve, and a first completion is of rules that had no record; that a timed run always meets a
timed record is in the validity of the save. Second, `Written` says what the rows of a journal have in common, and
`WrittenGrows` that a further row keeps it. Uniqueness of the first completions and the one session of each run follow
from `Written` alone (`FirstsAreTold`, `RunsStay`). Third, `SaveInv` says what sessions, board and lock add to it:

* the transaction that holds the lock has read the whole journal (`TxInv`), so that what it was judged on is what its
  row is appended to, and the row is accepted again when the journal is read back (`AddedRow`);
* a prepared session has no row, and one that plays has a last row, which is not newer than its memory (`GateInv`);
  the judgement of the session then says that a row it adds follows its own last row, with no row of
  another session between them (`SessionSteps`): this, not the lock, keeps two sessions off one run;
* a session holds its own run as it is saved and wrote the last row, or that run is over or was replaced (`Current`);
  or it holds the run of another, and then it has ended its own (`Over`, `Held`). The second case is an abandonment
  sent again after another session was admitted: it is answered with the newest save. Since the active run
  of a journal belongs to the session of its last row (`ActiveIsOwned`), `RepeatKeeps` splits on whose it is:
  a session's own run is its own last row, another's finds its abandonment among its rows;
* the board is only some valid save (`BoardInv`): a client may name any revision and any run.

That a character is never stuck (`Playable`) needs no more of `SaveInv` than that the save is valid; the work is
in the domain. `CommandsKeepValid` shows that every command that may be applied to a valid save with revisions left
makes a valid one, so that the last check of `apply`, that of its own result, refuses nothing the others
let through. It rests on three facts about the catalog: sixteen combinations of contract and preset are
available, the bound of the records (`PublishedAreFew`, `RecordsAreFew`); the objectives of a contract in stages are
three different ones, so that how many are done says which they are, and the way back of the circuit is the last of
its four (`ObjectivesCounted`). A save splits into its active run, its last result and its records
(`Sound`); a new run is younger than all of them (`Older`), and a completed one replaces no more than the record of
its own rules (`RecordedOnce`).

That mastery stays (`AchievementsStay`) is about the archive, which a recursive function makes of the whole journal. Such a
function is a `CHOOSE` of one that satisfies its equation, so the proof first shows that there is one, by induction over the
rows: the order of the numbers is well founded (`NumbersAreOrdered`), hence a set of numbers has a least one
(`LeastNumber`), hence what holds at zero and is handed on holds up to any number (`UpTo`). The same lemma gives existence
(`FoldExists`), that every proof in the archive after i rows is dated by one of them (`FoldIsDated`), and
that the fold of a journal begins with that of the rows it has grown from (`FoldsAgree`). A further row then adds
proofs and redates none (`AddsDated`), because a group that is proved is not proved again; and a last run that was not completed
shows nothing the rows do not (`ArchiveProofs`).

**Modules and acquisition** (`LoadoutProofs`). Four parts.

* The catalog. That every build resolves is a fact about 176 loadouts of ten modules and five weapons, which the
  prover cannot enumerate. `SumsAreTotals` turns the recursive sum over a loadout into a sum of ten terms, one for each module
  that is in it or not; with at most three modules the terms bound each modifier (`Limits`), a scaled value
  keeps to the interval its modifier keeps to (`ScaleKeeps`), and so the profile is within the bounds of the
  catalog (`BuildsResolve`, `ContentResolves`, `LegacyResolves`). The single modules are compared one by one
  (`NothingIsFree`).
* The replay. `Replay` is a recursive function of the rows up to an id. By the induction over numbers of the archive it
  exists (`RunExists`), takes one `Step` for each row (`ReplaySteps`), does not see later rows (`ReplayOfPrefix`)
  or those of other sessions (`ReplayOfOthers`), and once it has failed it stays failed (`ReadableBefore`).
* The books. `Sound` is `TypeInv /\ GateInv /\ SaveInv /\ LedgerInv`: `GateInv` gives each session to one gateway and
  rows to each session that was rewarded; `SaveInv` is the balance, with an operation for each module and each
  revision; `LedgerInv` says that proofs and claims stand. They go on standing because the log only grows, and a
  new proof stands because the replay of a session does not change after its last row (`CreditsStand`).
* The evidence. `EvidenceInv` adds to `EvidenceBreaksOnlyByOverlap` what makes it inductive: a session with rows has its
  snapshot; a session that is alone was admitted; and its gateway, if it is joined, has the catalog in which the replay
  arrived, and a completed mission once it may combine. A session that adds a row and is still alone had the newest row
  before (`Here`), so the row begins with what the replay arrived at and fits; a module that a client is
  offered is in the catalog of its rows and leaves it as it is (`OfferedIsListed`). Another session's row leaves the
  replay alone, and ends that it is the newest if it changes the save (`Elsewhere`).

**The connections** (`GatewayProofs`). The counters are the cardinalities of two sets, the connections
with a live reader or writer (`Busy`) and those in their handshake; exactness needs that a writer runs only for a
connection that was seated and that the guard is held exactly during the handshake (`SlotsInv`). That no
seat outlives its connection needs `AdmissionInv`: one Join per connection in the queue, one verdict for
each Join, and a seat only with the verdict. `RoomInv` says that an empty room is a fresh one.

| Theorem | Says |
|---|---|
| `Cooperation`: `Consistency`, `Safety`, `EndIsFinal`, `Timely` | `StateIsConsistent`, `AcceptedInTime`, `TerminalIsFinal`, `DeadlinesDecide` |
| `Cooperation`: `Implements` | `Spec => ImplementsContract`: each elementary step is a `Contribute`, a `Fail` or a stutter, `Tick` is `Pass` |
| `CooperationLedger`: `StoredIsConsistent`, `StoredIsFinal` | what is stored is consistent and in time; no call takes back an end or what was admitted |
| `CooperationStore`: `AlwaysLoads`, `LayersAlwaysAgree`, `AnswersAreStored`, `StreamAlwaysAgrees` | `RowAlwaysLoads`, `LayersAgree`, `StoredAsAnswered`, `RowStreamAndGrantsAgree` |
| `CooperationStore`: `StoreImplementsContract`, `StoreImplementsLedger` | `Spec => ImplementsContract`, and `Spec => ImplementsLedger`, which adds the ledger's own specification |
| `CooperationRuntime`: `MemoryIsAlwaysStored`, `EndsAreAlwaysTold`, `AbortsAreAlwaysExplained` | `MemoryIsStored`, `EndsAreTold`, `AbortsAreExplained` |
| `RouteSession`: `MemoryTold`, `OperationRewardedOnce`, `StagesInStep` | `MemoryIsTold`, `OneRewardedOperation`, `StagesStayInStep` |
| `RouteSession`: `StoredEnds` | `StoredIsFinal` and `DeadlineDecides`, for any weapons |
| `RouteSession`: `EvidenceAddsUp`, `EndsSound` | `EvidenceInv` and `EndsAreSound`, for moderate weapons |
| `ChallengeSave`: `JournalAccepted`, `OneOwner`, `Playable` | `JournalIsAccepted`, `RunsHaveOneOwner`, `AlwaysPlayable` |
| `ChallengeSave`: `AchievementsStay` | `AchievementsAreKept`: records and mastery are neither lost nor dated anew (`RecordsImprove` is the half about records) |
| `Loadout`: `BooksBalance`, `TakesNothingBack`, `EvidenceHolds` | `BooksAreSound`, `NothingIsTakenBack`, `EvidenceBreaksOnlyByOverlap` |
| `Gateway`: `LimitsAlwaysHold`, `SessionAlwaysFollowsSeats`, `SeatsAreAlwaysRightful` | `LimitsHold`, `SessionFollowsSeats`, `SeatsAreRightful` |

The store implements the ledger, and the coordinator is proved on the ledger: so the coordinator's theorems
hold with rows, evidence and rewards behind it.

Only model-checked:

* the liveness properties (`OperationsEnd`, and those of `gateway_live`): neither fairness nor `ENABLED` is in
  the prover's reach;
* the properties of encounters, challenge attempts and campaign. Their streams are judged by recursive functions over
  sequences, as the archive and the module rows are; the induction is the same, but what each of these judgements has come
  to after a row has a case for each kind of encounter, contract and chapter.

## Where the code and its documents part

`route_kill` is a run that TLC finds violated: a success needs exactly two counterattacks; an admitted
weapon that kills in four blows meets one, and the completion within the deadline is refused.

The models contain the following too, as behaviour; no property of the passing runs claims the opposite.

* A completion after the deadline is answered "expired", and the timeout that the domain committed is
  dropped with the transaction (`persistence/src/cooperation.rs:684`), although
  `docs/milestones/M28-local-cooperation-simulation.md:259` has the first observation after 60,000 ms commit it.
  (`Completion` of the ledger.)
* A defeat after the deadline becomes a timeout that still carries the fallen role; the encoder refuses it
  and the session aborts (`persistence/src/cooperation.rs:976`, `docs/operations/m28-block4-replay-contract.md:195`).
  It is the exception that `LayersAgree` and `AbortsAreExplained` state.
* Repeating the start of a cooperation after its end, when the partner has left or a loadout was changed,
  is a conflict that aborts the session (the last case of `AbortsAreExplained`).
* A participant whose loadout changed between handshake and admission is turned away after its
  `player_joined` event was stored (`gateway/src/lib.rs:3432`), against
  `docs/playtest/m24-failure-recovery-audit.md:117`. When nobody is left in it the session is reset
  (`gateway/src/lib.rs:3392`), and the row stays behind in a stream that ends there (`Join` of `Campaign` and `Loadout`).
* The last blow of a route falls after the deadline although its command was taken before: the dead
  Warden makes the failure that follows inadmissible too (`replay/src/route.rs:928`; the exceptions of `EndsAreSound`).
* The leader has left when a route ends: the end is stored and rewarded, then the summary cannot be built,
  nobody is told, and memory keeps the route running (`gateway/src/lib.rs:5773`,
  `docs/milestones/M27-routes-risks-events-replayable-operations.md:244`; the exceptions of `MemoryIsTold`).
* An error in the tick of an encounter changes nothing but the log (`gateway/src/lib.rs:3166`), although
  `docs/playtest/m24-failure-recovery-audit.md:76` has every persistence error abort the session and line 118 has
  a failure reset it. When the row was stored and only its acknowledgement lost, the session goes on, writes
  the step again, and the replay refuses the stream (the exception of `StreamIsAccepted` in `Encounter`).
* An abandonment that is sent again after another session was admitted is answered with the newest save, which the old
  session takes over (`persistence/src/challenges.rs:216`, `gateway/src/challenges/runtime.rs:86`): it then holds a run it
  was never given, as it was at that time, and can add nothing to it (`MemoryIsCurrent`, `OneSessionPerRun`).
* `attack_prism` completes the activity in the same command as the fatal shot, and a failure of the
  completion aborts the session (`gateway/src/lib.rs:3337`): the retry that `docs/protocol/README.md:152`
  describes is never reached.
* With two gateways, overlapping sessions of one character can write module rows that their own streams
  contradict; such a session cannot be read again. Sessions that do not overlap never do
  (`EvidenceBreaksOnlyByOverlap`).
* A repeated story operation returns the save as it is now, so that the memory of a session can move past
  its own rows (`gateway/src/campaign_story.rs:153`; excluded in `HonestStepsAreSaved`).
* The elite encounter is announced as completed before the checkpoint of the campaign is saved.

## Not modelled

* Frame limits (`FrameRateLimiter`, `DeadlineReader`): functions of one thread over sliding windows; `Gateway`
  lets any read fail at any time, which includes what they do.
* Message encodings and the mapping between protocol generations, identities, the world's actor counter: data
  without control. The handshake's order is in `Gateway`.
* The interpreter of authored steps (`activities`), the rendering and export of a reconstructed session, the
  arithmetic of totals: small sequential code.
* Combat's cooldowns and ranges: they only decide whether an attack is accepted, and the models allow
  every outcome.
* The security lab, the bots, labs and fake clients, the Godot client and the inspector pages: no
  authoritative state.

## What is left

What the models have not got yet is proof. In the order in which it is worth having:

1. `Campaign`: a step that an honest client proves is saved (`HonestStepsAreSaved`).
2. `Encounter`: the minds are arithmetic of intervals, which suits the prover; that warnings are given in full
   needs an invariant for each of the six kinds.
