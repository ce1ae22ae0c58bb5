--------------------------- MODULE ChallengeDomain ---------------------------
(***************************************************************************)
(* The challenge contracts, the save of a character and the commands that  *)
(* change it, and the mastery archive that is derived from its history.    *)
(* An objective of a run is a member of the set `done', where the code     *)
(* keeps a bit; a policy is the number of its publication; equipment is    *)
(* the build the goals and the firing lane tell apart.  Identities of      *)
(* revisions and seeds follow from the contract and are left out.          *)
(* A name that ends in an underscore is a faulty variant of a definition.  *)
(***************************************************************************)
EXTENDS Integers, Sequences, FiniteSets

CONSTANTS
    None,
    MaxRevision     \* the last revision a save may have

ASSUME MaxRevisionAssumption == MaxRevision \in Nat \ {0}

-----------------------------------------------------------------------------
(* The catalog *)

\* The policy that published a contract; the last one published the presets.
PublishedBy ==
    [CloseQuarters |-> 1, MeridianCircuit |-> 1, CoolantRecovery |-> 2, BastionLink |-> 3,
     PrismDiscipline |-> 4, DistantSignal |-> 5, LastReserve |-> 6, RelayGauntlet |-> 7]

Contracts == DOMAIN PublishedBy
Policies  == 1 .. 8
Modified  == 8

Modifiers ==
    [Baseline |-> {}, WestApproach |-> {"WestApproach"}, BastionFirst |-> {"BastionFirst"},
     SingleReserve |-> {"SingleReserve"}, Pace |-> {"Pace"},
     WestApproachPace |-> {"WestApproach", "Pace"},
     BastionFirstSingleReserve |-> {"BastionFirst", "SingleReserve"},
     SingleReservePace |-> {"SingleReserve", "Pace"}]

Presets == DOMAIN Modifiers

AllowedModifiers(contract) ==
    CASE contract = "MeridianCircuit" -> {"WestApproach", "Pace"}
      [] contract = "RelayGauntlet"   -> {"BastionFirst", "SingleReserve", "Pace"}
      [] OTHER                        -> {}

AvailableFor(preset, contract) == Modifiers[preset] \subseteq AllowedModifiers(contract)

Rules(contract, preset) == [contract |-> contract, preset |-> preset]

Has(rules, modifier) == modifier \in Modifiers[rules.preset]

AvailableIn(rules, policy) ==
    PublishedBy[rules.contract] <= policy /\ (rules.preset = "Baseline" \/ policy = Modified)

\* The goal of a timed preset is an optional distinction, never a deadline.
Timed(rules) == Has(rules, "Pace")

GauntletStages(rules) ==
    IF Has(rules, "BastionFirst") THEN <<"Bastion", "Support", "Prism">>
                                  ELSE <<"Support", "Bastion", "Prism">>

Objectives(rules) ==
    CASE rules.contract = "CloseQuarters"   -> <<"LancerCleared", "MenderCleared">>
      [] rules.contract = "BastionLink"     -> <<"BulwarkCleared", "MenderCleared">>
      [] rules.contract = "MeridianCircuit" -> <<"LensRead", "GalleryRead", "LogRead", "Returned">>
      [] rules.contract = "CoolantRecovery" ->
            <<"CoolantRetrieved", "CoolantTransferred", "CoolantDelivered">>
      [] rules.contract = "PrismDiscipline" -> <<"PrismCleared">>
      [] rules.contract = "DistantSignal"   -> <<"SentinelCleared">>
      [] rules.contract = "LastReserve"     ->
            <<"WestRelayCharged", "EastRelayCharged", "ReserveReturned">>
      [] rules.contract = "RelayGauntlet"   -> GauntletStages(rules)

ObjectiveSet(rules) == {Objectives(rules)[i] : i \in DOMAIN Objectives(rules)}

AllRules      == [contract : Contracts, preset : Presets]
AllObjectives == UNION {ObjectiveSet(rules) : rules \in AllRules}

Prefix(rules, n) == {Objectives(rules)[i] : i \in 1 .. n}

Ordered(rules) == rules.contract \in {"CoolantRecovery", "LastReserve", "RelayGauntlet"}

-----------------------------------------------------------------------------
(* A save *)

EmptySave == [revision |-> 0, active |-> None, last |-> None, records |-> {}]

RunsOf(s) ==
    (IF s.active = None THEN {} ELSE {s.active}) \cup
    (IF s.last = None THEN {} ELSE {s.last.run}) \cup s.records

\* The scatter build does not reach across the firing lane.
ReachesSentinel(equipment) == equipment # "Breacher"

Equips(equipment, contract) == contract = "DistantSignal" => ReachesSentinel(equipment)

ValidRun(run, revision, completed) ==
    /\ run.id \in 1 .. revision
    /\ Cardinality(run.done) <= revision - run.id
    /\ AvailableFor(run.rules.preset, run.rules.contract)
    /\ run.done \subseteq ObjectiveSet(run.rules)
    /\ (run.elapsed # None) = (completed /\ Timed(run.rules))
    /\ (run.done = ObjectiveSet(run.rules)) = completed
    /\ Ordered(run.rules) => \E n \in 0 .. 3 : run.done = Prefix(run.rules, n)
    /\ "Returned" \in run.done => completed
    /\ Equips(run.equipment, run.rules.contract)

ValidSave(s) ==
    /\ s.revision \in 0 .. MaxRevision /\ Cardinality(s.records) <= 16
    /\ s.revision > 0 => s.active # None \/ s.last # None
    /\ s.active # None => ValidRun(s.active, s.revision, FALSE)
    /\ s.last # None =>
         /\ ValidRun(s.last.run, s.revision, s.last.outcome = "Completed")
         /\ s.active # None => s.active.id > s.last.run.id
         /\ s.last.outcome = "Completed" => \E r \in s.records : r.rules = s.last.run.rules
    /\ \A r \in s.records :
         /\ ValidRun(r, s.revision, TRUE)
         /\ \A q \in s.records \ {r} : q.rules # r.rules /\ q.id # r.id
         /\ s.active # None => s.active.id > r.id
         /\ s.last # None /\ s.last.run.id >= r.id
         /\ s.last.run.id = r.id => s.last.run = r

Supports(s, policy) == \A run \in RunsOf(s) : AvailableIn(run.rules, policy)

-----------------------------------------------------------------------------
(* Commands *)

StartOf(contract, preset, equipment) ==
    [kind |-> IF preset = "Baseline" THEN "Start" ELSE "StartModified",
     contract |-> contract, preset |-> preset, equipment |-> equipment]
RetryOf(run, equipment)         == [kind |-> "Retry", run |-> run, equipment |-> equipment]
ConfirmOf(run, objective, time) == [kind |-> "Confirm", run |-> run, objective |-> objective,
                                    elapsed |-> time]
EndOf(run, reason)              == [kind |-> "End", run |-> run, reason |-> reason]

NewRun(s, rules, equipment) ==
    [s EXCEPT !.active = [id |-> s.revision, rules |-> rules, equipment |-> equipment,
                          done |-> {}, elapsed |-> None]]

EndRun(s, outcome) ==
    [s EXCEPT !.active = None, !.last = [run |-> s.active, outcome |-> outcome]]

\* What a retry repeats: the active run, or else the last one.
Latest(s) == IF s.active # None THEN s.active ELSE IF s.last # None THEN s.last.run ELSE None

Completes(run, objective) == run.done \cup {objective} = ObjectiveSet(run.rules)

MayConfirm(s, c) ==
    /\ s.active # None /\ s.active.id = c.run
    /\ c.objective \in ObjectiveSet(s.active.rules) \ s.active.done
    /\ c.objective = "Returned" => s.active.done = Prefix(s.active.rules, 3)
    /\ Ordered(s.active.rules) =>
         c.objective = Objectives(s.active.rules)[Cardinality(s.active.done) + 1]
    /\ (c.elapsed # None) = (Completes(s.active, c.objective) /\ Timed(s.active.rules))

Recorded(s, rules) == \E r \in s.records : r.rules = rules

RecordLatest_(s, run) ==
    [s EXCEPT !.records = {r \in @ : r.rules # run.rules} \cup {run}]

\* One record for each rules: a faster timed run replaces it.
Record(s, run) ==
    LET faster == {r \in s.records : r.rules = run.rules /\ run.elapsed # None
                                        /\ run.elapsed < r.elapsed}
    IN  IF Recorded(s, run.rules) /\ faster = {} THEN s
        ELSE [s EXCEPT !.records = (@ \ faster) \cup {run}]

ConfirmRun(s, c) ==
    LET run == [s.active EXCEPT !.done = @ \cup {c.objective}, !.elapsed = c.elapsed]
    IN  IF ~Completes(s.active, c.objective) THEN [s EXCEPT !.active = run]
        ELSE EndRun([Record(s, run) EXCEPT !.active = run], "Completed")

RetryKeepsId_(s, c) ==
    [NewRun(EndRun(s, "Interrupted"), Latest(s).rules, c.equipment) EXCEPT !.active.id = c.run]

\* A retry of a run that is still active ends it as interrupted.
RetryRun(s, c) ==
    LET ended == IF s.active = None THEN s ELSE EndRun(s, "Interrupted")
    IN  NewRun(ended, Latest(s).rules, c.equipment)

After(s, c) ==
    LET next == [s EXCEPT !.revision = @ + 1]
    IN  CASE c.kind \in {"Start", "StartModified"} ->
                NewRun(next, Rules(c.contract, c.preset), c.equipment)
          [] c.kind = "Retry"   -> RetryRun(next, c)
          [] c.kind = "Confirm" -> ConfirmRun(next, c)
          [] c.kind = "End"     -> EndRun(next, c.reason)

MayApply(policy, s, c) ==
    CASE c.kind \in {"Start", "StartModified"} ->
            /\ AvailableIn(Rules(c.contract, c.preset), policy)
            /\ AvailableFor(c.preset, c.contract)
            /\ s.active = None /\ Equips(c.equipment, c.contract)
      [] c.kind = "Retry" ->
            /\ Latest(s) # None /\ Latest(s).id = c.run
            /\ Equips(c.equipment, Latest(s).rules.contract)
      [] c.kind = "Confirm" -> MayConfirm(s, c)
      [] c.kind = "End"     -> s.active # None /\ s.active.id = c.run

\* apply: everything it refuses, the result that would not validate included.
Accepts(policy, s, expected, c) ==
    /\ Supports(s, policy) /\ ValidSave(s)
    /\ s.revision = expected /\ expected < MaxRevision
    /\ MayApply(policy, s, c)
    /\ ValidSave(After(s, c))

FirstCompletion(s, c) ==
    IF c.kind = "Confirm" /\ Completes(s.active, c.objective) /\ ~Recorded(s, s.active.rules)
    THEN s.active.rules ELSE None

\* policy_for: the first publication the save and the command need.
PolicyFor(s, c) ==
    LET fits(p) == /\ Supports(s, p)
                   /\ c.kind = "StartModified" => p = Modified
                   /\ c.kind = "Start" => PublishedBy[c.contract] <= p
    IN  IF \E p \in Policies : fits(p)
        THEN CHOOSE p \in Policies : fits(p) /\ \A q \in 1 .. (p - 1) : ~fits(q)
        ELSE Modified

-----------------------------------------------------------------------------
(* Mastery *)

GoalOf ==
    [Breacher |-> "CloseQuarters", Marksman |-> "DistantSignal", Guard |-> "LastReserve",
     RoutePlanner |-> "MeridianCircuit", TargetPriority |-> "BastionLink",
     PrismExecution |-> "PrismDiscipline"]

Goals == DOMAIN GoalOf

Badges ==
    [ArsenalAdept |-> {"Breacher", "Marksman", "Guard"},
     FieldTactician |-> {"RoutePlanner", "TargetPriority"}, PrismAdept |-> {"PrismExecution"}]

AcceptsEquipment(goal, equipment) ==
    goal \in {"Breacher", "Marksman", "Guard"} => equipment = goal

\* `clean': the evidence of the session shows what the goal asks for: an unused reserve, a
\* short west route, the mender first, or no damage of the Prism Warden.
Achieved(goal, result, clean) ==
    /\ GoalOf[goal] = result.run.rules.contract /\ result.outcome = "Completed"
    /\ AcceptsEquipment(goal, result.run.equipment)
    /\ goal \in {"Breacher", "Marksman"} \/ clean

NoArchive == [proofs |-> [g \in {} |-> 0], last |-> 0]

\* Idempotent, whatever the order: the earliest run that qualifies is the proof.
Observe(archive, result, clean) ==
    LET id     == result.run.id
        earned == {g \in Goals : Achieved(g, result, clean)}
        known  == DOMAIN archive.proofs
    IN  [proofs |-> [g \in known \cup earned |->
                        IF g \notin known THEN id
                        ELSE IF g \in earned /\ id < archive.proofs[g] THEN id
                        ELSE archive.proofs[g]],
         last |-> IF id > archive.last THEN id ELSE archive.last]

\* A badge is dated by the last of the runs that prove its goals.
BadgeProof(archive, badge) ==
    IF ~(Badges[badge] \subseteq DOMAIN archive.proofs) THEN None
    ELSE CHOOSE id \in {archive.proofs[g] : g \in Badges[badge]} :
            \A g \in Badges[badge] : archive.proofs[g] <= id
=============================================================================
