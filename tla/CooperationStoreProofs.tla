----------------------- MODULE CooperationStoreProofs -----------------------
(***************************************************************************)
(* What holds of the stored cooperation for all identifiers, profiles,     *)
(* distances and durations: a committed row is always rebuilt to what its  *)
(* columns say, row, evidence and grants are one fact, and the store       *)
(* implements both its ledger and the contract of the relay.               *)
(*                                                                         *)
(* The replay is a chain of the domain's methods, and a call appends one   *)
(* more link to it: this is why the rebuilt state of a row is again what   *)
(* the call computed.                                                      *)
(***************************************************************************)
EXTENDS CooperationStore, CooperationDomainProofs, SequenceTheorems, FiniteSetTheorems

-----------------------------------------------------------------------------
(* Rows that can be stored                                                  *)

\* A row that was committed by the time e: its CHECKs hold, it is rebuilt to what its
\* columns say, and a running channel, taken away again, leaves a cancelled revive.
RowInv(r, e) ==
    /\ r \in Rows /\ RowChecks(r)
    /\ Loads(r) /\ Loaded(r) = Meaning(r)
    /\ Consistent(Meaning(r)) /\ InTime(Meaning(r), e)
    /\ \A at \in AcceptedTimes(r) : at <= e
    /\ r.outcome = "None" /\ r.phase = "ReviveChannel" =>
          LET before == Rebuilt([r EXCEPT !.revive = None])
          IN  Taken(before) /\ before.state = CancelRevive(Meaning(r))

\* A column can be written over with a value of its type.
LEMMA RowUpdates ==
    ASSUME NEW r \in Rows
    PROVE  /\ \A phase \in Phases \ {"Succeeded", "Failed"} : [r EXCEPT !.phase = phase] \in Rows
           /\ \A flags \in SUBSET Contributions : [r EXCEPT !.flags = flags] \in Rows
           /\ \A e \in Elapsed : /\ [r EXCEPT !.anchorAt = e] \in Rows
                                 /\ [r EXCEPT !.runnerAt = e] \in Rows
                                 /\ [r EXCEPT !.downedAt = e] \in Rows
                                 /\ [r EXCEPT !.revivedAt = e] \in Rows
                                 /\ [r EXCEPT !.wardenAt = e] \in Rows
                                 /\ [r EXCEPT !.terminalAt = e] \in Rows
           /\ \A op \in OperationRecords \cup {None} : /\ [r EXCEPT !.ping = op] \in Rows
                                                       /\ [r EXCEPT !.revive = op] \in Rows
           /\ [r EXCEPT !.reviveCount = 1] \in Rows
           /\ \A outcome \in Outcomes : [r EXCEPT !.outcome = outcome] \in Rows
           /\ \A health \in [Roles -> Nat] : [r EXCEPT !.health = health] \in Rows
           /\ \A life \in [Roles -> LifeStates] : [r EXCEPT !.life = life] \in Rows
<1>1. \A phase \in Phases \ {"Succeeded", "Failed"} : [r EXCEPT !.phase = phase] \in Rows
  BY DEF Rows
<1>2. \A flags \in SUBSET Contributions : [r EXCEPT !.flags = flags] \in Rows
  BY DEF Rows
<1>3. \A e \in Elapsed : [r EXCEPT !.anchorAt = e] \in Rows /\ [r EXCEPT !.runnerAt = e] \in Rows
  BY DEF Rows
<1>4. \A e \in Elapsed : [r EXCEPT !.downedAt = e] \in Rows /\ [r EXCEPT !.revivedAt = e] \in Rows
  BY DEF Rows
<1>5. \A e \in Elapsed : [r EXCEPT !.wardenAt = e] \in Rows /\ [r EXCEPT !.terminalAt = e] \in Rows
  BY DEF Rows
<1>6. \A op \in OperationRecords \cup {None} :
         [r EXCEPT !.ping = op] \in Rows /\ [r EXCEPT !.revive = op] \in Rows
  BY DEF Rows
<1>7. [r EXCEPT !.reviveCount = 1] \in Rows
  BY DEF Rows
<1>8. \A outcome \in Outcomes : [r EXCEPT !.outcome = outcome] \in Rows
  BY DEF Rows
<1>9. \A health \in [Roles -> Nat] : [r EXCEPT !.health = health] \in Rows
  BY DEF Rows
<1>10. \A life \in [Roles -> LifeStates] : [r EXCEPT !.life = life] \in Rows
  BY DEF Rows
<1> QED
  BY <1>1, <1>2, <1>3, <1>4, <1>5, <1>6, <1>7, <1>8, <1>9, <1>10

\* What a row that passes the checks says is a state of the domain.
LEMMA MeaningTypes ==
    ASSUME NEW r \in Rows, RowChecks(r)
    PROVE  Meaning(r) \in CooperationStates
<1>1. "revived" \in r.flags => r.revive.id \in OperationIds
  <2>1. "revived" \in r.flags => r.phase = "EncounterActive"
    BY DEF RowChecks, RecordedIn, Rows, Phases
  <2> QED
    BY <2>1 DEF RowChecks, Rows, OperationRecords
<1> QED
  BY <1>1 DEF Meaning, CooperationStates, Rows, Phases

\* What the columns of a row say of a state.
Says(r, s) ==
    /\ s.start = r.start /\ s.profile = r.profile /\ s.admitted = r.admitted
    /\ s.health = r.health /\ s.life = r.life /\ s.contributions = r.flags
    /\ s.phase = (IF r.outcome = "None" THEN r.phase
                  ELSE IF r.outcome = "Succeeded" THEN "Succeeded" ELSE "Failed")
    /\ s.ping = r.ping /\ s.downedAt = r.downedAt
    /\ s.channel = (IF r.phase = "ReviveChannel" /\ r.outcome = "None" THEN r.revive ELSE None)
    /\ s.completedRevive = (IF "revived" \in r.flags THEN r.revive.id ELSE None)
    /\ s.reviveCount = r.reviveCount /\ s.terminal = r.outcome

\* Column by column, what a row says of the state.
LEMMA MeaningFields == ASSUME NEW r PROVE Says(r, Meaning(r))
  BY DEF Meaning, Says

\* It says no more than that.
LEMMA SaysAll ==
    ASSUME NEW r \in Rows, RowChecks(r), NEW s \in CooperationStates, Says(r, s)
    PROVE  Meaning(r) = s
<1> DEFINE m == Meaning(r)
<1>1. m \in CooperationStates /\ Says(r, m)
  BY MeaningTypes, MeaningFields
<1> HIDE DEF m
<1>2. /\ m.start = s.start /\ m.phase = s.phase /\ m.profile = s.profile
      /\ m.admitted = s.admitted /\ m.health = s.health /\ m.life = s.life
      /\ m.contributions = s.contributions /\ m.ping = s.ping /\ m.downedAt = s.downedAt
      /\ m.channel = s.channel /\ m.completedRevive = s.completedRevive
      /\ m.reviveCount = s.reviveCount /\ m.terminal = s.terminal
  BY <1>1 DEF Says
<1>3. m = s
  BY <1>1, <1>2 DEF CooperationStates
<1> QED
  BY <1>3 DEF m

\* A running row is its own replay.
LEMMA LiveRow ==
    ASSUME NEW r, NEW e, RowInv(r, e), r.outcome = "None"
    PROVE  /\ Taken(Rebuilt(r)) /\ Rebuilt(r).state = Meaning(r)
           /\ Running(Meaning(r)) /\ Meaning(r) \in CooperationStates
           /\ r.terminalAt = None /\ r.wardenAt = None
  BY DEF RowInv, Loads, Loaded, Meaning, Running, Consistent, RowChecks

-----------------------------------------------------------------------------
(* The replay, one link at a time                                           *)

\* What the replay reads of a row.
SameCalls(r, q) ==
    /\ q.start = r.start /\ q.profile = r.profile /\ q.admitted = r.admitted
    /\ q.anchorAt = r.anchorAt /\ q.ping = r.ping /\ q.runnerAt = r.runnerAt
    /\ q.revive = r.revive /\ q.revivedAt = r.revivedAt

\* The replay sees nothing of a row but the calls it records.
LEMMA SameCallsSameReplay ==
    ASSUME NEW r, NEW q, SameCalls(r, q)
    PROVE  Rebuilt(q) = Rebuilt(r)
<1>1. UpToAnchor(q) = UpToAnchor(r)
  BY DEF SameCalls, UpToAnchor, Admitted, Then
<1>2. UpToPing(q) = UpToPing(r)
  BY <1>1 DEF SameCalls, UpToPing, Then
<1>3. UpToFall(q) = UpToFall(r)
  BY <1>2 DEF SameCalls, UpToFall, Then
<1>4. UpToChannel(q) = UpToChannel(r)
  BY <1>3 DEF SameCalls, UpToChannel, Then
<1> QED
  BY <1>4 DEF SameCalls, Rebuilt, Then

\* A call that was not recorded is no link.
LEMMA SkippedLinks ==
    ASSUME NEW r
    PROVE  /\ r.anchorAt = None => UpToAnchor(r) = Admitted(r)
           /\ r.ping = None => UpToPing(r) = UpToAnchor(r)
           /\ r.runnerAt = None => UpToFall(r) = UpToPing(r)
           /\ r.revive = None => UpToChannel(r) = UpToFall(r)
           /\ r.revive = None \/ r.revivedAt = None => Rebuilt(r) = UpToChannel(r)
<1>1. r.anchorAt = None => UpToAnchor(r) = Admitted(r)
  BY DEF UpToAnchor, Then
<1>2. r.ping = None => UpToPing(r) = UpToAnchor(r)
  BY DEF UpToPing, Then
<1>3. r.runnerAt = None => UpToFall(r) = UpToPing(r)
  BY DEF UpToFall, Then
<1>4. r.revive = None => UpToChannel(r) = UpToFall(r)
  BY DEF UpToChannel, Then
<1>5. r.revive = None \/ r.revivedAt = None => Rebuilt(r) = UpToChannel(r)
  BY DEF Rebuilt, Then
<1> QED
  BY <1>1, <1>2, <1>3, <1>4, <1>5

\* What a newly recorded call adds to the replay: one link, on what was rebuilt before.
LEMMA ReplayOfAnchor ==
    ASSUME NEW r, NEW q, q.anchorAt # None,
           r.anchorAt = None, r.ping = None, r.runnerAt = None, r.revive = None,
           q.start = r.start, q.profile = r.profile, q.admitted = r.admitted,
           q.ping = None, q.runnerAt = None, q.revive = None,
           Taken(Rebuilt(r)), NEW result, result.answer = "Applied",
           result = ArriveAnchor(Rebuilt(r).state, "Anchor", "RelayAnchor", q.anchorAt)
    PROVE  Rebuilt(q) = result
<1>1. Admitted(q) = Admitted(r)
  BY DEF Admitted
<1>2. Rebuilt(r) = Admitted(r)
  BY SkippedLinks
<1>3. Rebuilt(q) = UpToAnchor(q)
  BY SkippedLinks
<1> QED
  BY <1>1, <1>2, <1>3 DEF UpToAnchor, Then, Taken

\* A ping that is recorded extends the replay by that ping.
LEMMA ReplayOfPing ==
    ASSUME NEW r, NEW q, q.ping # None,
           r.ping = None, r.runnerAt = None, r.revive = None,
           q.start = r.start, q.profile = r.profile, q.admitted = r.admitted,
           q.anchorAt = r.anchorAt, q.runnerAt = None, q.revive = None,
           Taken(Rebuilt(r)), NEW result, result.answer = "Applied",
           result = Ping(Rebuilt(r).state, "Anchor", "RelayConsole",
                         q.ping.id, q.ping.at)
    PROVE  Rebuilt(q) = result
<1>1. UpToAnchor(q) = UpToAnchor(r)
  BY DEF UpToAnchor, Admitted
<1>2. Rebuilt(r) = UpToAnchor(r)
  BY SkippedLinks
<1>3. Rebuilt(q) = UpToPing(q)
  BY SkippedLinks
<1> QED
  BY <1>1, <1>2, <1>3 DEF UpToPing, Then, Taken

\* The Runner's arrival, when recorded, extends the replay by it.
LEMMA ReplayOfFall ==
    ASSUME NEW r, NEW q, q.runnerAt # None, r.runnerAt = None, r.revive = None,
           q.start = r.start, q.profile = r.profile, q.admitted = r.admitted,
           q.anchorAt = r.anchorAt, q.ping = r.ping, q.revive = None,
           Taken(Rebuilt(r)), NEW result, result.answer = "Applied",
           result = ArriveRunner(Rebuilt(r).state, "Runner", "RelayConsole", q.runnerAt)
    PROVE  Rebuilt(q) = result
<1>1. UpToPing(q) = UpToPing(r)
  BY DEF UpToPing, UpToAnchor, Admitted
<1>2. Rebuilt(r) = UpToPing(r)
  BY SkippedLinks
<1>3. Rebuilt(q) = UpToFall(q)
  BY SkippedLinks
<1> QED
  BY <1>1, <1>2, <1>3 DEF UpToFall, Then, Taken

\* An opened revive, when recorded, extends the replay by it.
LEMMA ReplayOfChannel ==
    ASSUME NEW r, NEW q, q.revive # None, q.revivedAt = None, r.revive = None,
           q.start = r.start, q.profile = r.profile, q.admitted = r.admitted,
           q.anchorAt = r.anchorAt, q.ping = r.ping, q.runnerAt = r.runnerAt,
           Taken(Rebuilt(r)), NEW result, result.answer = "Applied",
           result = StartRevive(Rebuilt(r).state, "Anchor", "Runner", MaxReviveDistance,
                              q.revive.id, q.revive.at)
    PROVE  Rebuilt(q) = result
<1>1. UpToFall(q) = UpToFall(r)
  BY DEF UpToFall, UpToPing, UpToAnchor, Admitted
<1>2. Rebuilt(r) = UpToFall(r)
  BY SkippedLinks
<1>3. Rebuilt(q) = UpToChannel(q)
  BY SkippedLinks
<1> QED
  BY <1>1, <1>2, <1>3 DEF UpToChannel, Then, Taken

\* A completed revive, when recorded, extends the replay by it.
LEMMA ReplayOfRevive ==
    ASSUME NEW r, NEW q, r.revive # None, r.revivedAt = None, q.revivedAt # None,
           q.start = r.start, q.profile = r.profile, q.admitted = r.admitted,
           q.anchorAt = r.anchorAt, q.ping = r.ping, q.runnerAt = r.runnerAt,
           q.revive = r.revive,
           Taken(Rebuilt(r)), NEW result, result.answer = "Applied",
           result = ObserveRevive(Rebuilt(r).state, "Anchor", "Runner", MaxReviveDistance,
                              q.revive.id, q.revivedAt)
    PROVE  Rebuilt(q) = result
<1>1. UpToChannel(q) = UpToChannel(r)
  BY DEF UpToChannel, UpToFall, UpToPing, UpToAnchor, Admitted
<1>2. Rebuilt(r) = UpToChannel(r)
  BY SkippedLinks
<1>3. Taken(UpToChannel(q)) /\ result = ObserveRevive(UpToChannel(q).state, "Anchor", "Runner",
                                                     MaxReviveDistance, q.revive.id, q.revivedAt)
  BY <1>1, <1>2
<1> QED
  BY <1>3 DEF Rebuilt, Then, Taken

-----------------------------------------------------------------------------
(* A call that goes on with the operation                                   *)

\* The columns that a call writes are again a row, when they say what it computed.
LEMMA RowGrows ==
    ASSUME NEW r, NEW q \in Rows, NEW e \in Elapsed, RowInv(r, e), r.outcome = "None",
           NEW t, StepOf(Meaning(r), t, e),
           Taken(Rebuilt(q)), Rebuilt(q).state = t,
           q.outcome = "None", RowChecks(q), Says(q, t),
           AcceptedTimes(q) \subseteq AcceptedTimes(r) \cup {e},
           q.phase = "ReviveChannel" =>
              LET before == Rebuilt([q EXCEPT !.revive = None])
              IN  Taken(before) /\ before.state = CancelRevive(t)
    PROVE  RowInv(q, e) /\ Meaning(q) = t
<1>0. Consistent(t) /\ InTime(t, e)
  BY StepConsistent, StepInTime DEF RowInv
<1>1. Loaded(q) = Meaning(q) /\ Meaning(q) = t
  BY <1>0, SaysAll DEF Loaded, Consistent
<1>3. Loads(q)
  <2>1. q.runnerAt = q.downedAt /\ (q.wardenAt # None <=> "warden_completed" \in q.flags)
    BY DEF RowChecks
  <2> QED
    BY <1>1, <2>1, MeaningFields DEF Loads, Parity, Says
<1>4. \A at \in AcceptedTimes(q) : at <= e
  BY DEF RowInv, Elapsed
<1> QED
  BY <1>0, <1>1, <1>3, <1>4 DEF RowInv

\* What the columns of a running row say of its phase.
LEMMA LiveColumns ==
    ASSUME NEW r, NEW e, RowInv(r, e), r.outcome = "None"
    PROVE  /\ r \in Rows /\ RowChecks(r) /\ r.flags = RecordedIn[r.phase]
           /\ r.terminalAt = None /\ r.wardenAt = None
           /\ r.anchorAt # None <=> "anchor_arrived" \in RecordedIn[r.phase]
           /\ r.ping # None <=> "pinged" \in RecordedIn[r.phase]
           /\ r.runnerAt # None <=> "runner_arrived" \in RecordedIn[r.phase]
           /\ r.downedAt = r.runnerAt
           /\ r.revive # None <=> r.phase \in {"ReviveChannel", "EncounterActive"}
           /\ r.revivedAt # None <=> "revived" \in RecordedIn[r.phase]
           /\ r.reviveCount = (IF "revived" \in RecordedIn[r.phase] THEN 1 ELSE 0)
<1>1. r \in Rows /\ RowChecks(r)
  BY DEF RowInv
<1>2. "warden_completed" \notin r.flags
  BY <1>1 DEF RowChecks
<1>3. r.flags = RecordedIn[r.phase]
  BY <1>1, <1>2 DEF RowChecks
<1> QED
  BY <1>1, <1>2, <1>3 DEF RowChecks, Rows

AnchorRow(r, e) ==
    [r EXCEPT !.phase = "AwaitingPing", !.anchorAt = e, !.flags = @ \cup {"anchor_arrived"}]

\* The anchor arrives.
LEMMA AnchorGrows ==
    ASSUME NEW r, NEW e \in Elapsed, RowInv(r, e), r.outcome = "None",
           NEW result, result.answer = "Applied",
           result = ArriveAnchor(Meaning(r), "Anchor", "RelayAnchor", e)
    PROVE  RowInv(AnchorRow(r, e), e) /\ Meaning(AnchorRow(r, e)) = result.state
<1> DEFINE s == Meaning(r)
           q == AnchorRow(r, e)
           t == AnchorArrives(s)
<1>1. /\ s \in CooperationStates /\ Running(s)
      /\ Taken(Rebuilt(r)) /\ Rebuilt(r).state = s
  BY LiveRow
<1>2. s.phase = "AwaitingAnchor" /\ ~Expired(s, e) /\ result.state = t
  BY DEF ArriveAnchor, Observe, Result
<1>3. e <= OperationDuration
  BY <1>2, DurationsAssumption DEF Expired, Elapsed
<1>4. r.phase = "AwaitingAnchor"
  BY <1>2, MeaningFields DEF Says
<1>5. /\ r \in Rows /\ RowChecks(r) /\ r.flags = {}
      /\ r.terminalAt = None /\ r.wardenAt = None /\ r.anchorAt = None /\ r.ping = None
      /\ r.runnerAt = None /\ r.downedAt = None /\ r.revive = None /\ r.revivedAt = None
      /\ r.reviveCount = 0
  BY <1>4, LiveColumns DEF RecordedIn
<1>6. q \in Rows
  <2>1. "AwaitingPing" \in Phases \ {"Succeeded", "Failed"}
    BY DEF Phases
  <2>2. r.flags \cup {"anchor_arrived"} \in SUBSET Contributions
    BY <1>5 DEF Contributions
  <2> QED
    BY <1>5, <2>1, <2>2, RowUpdates DEF AnchorRow
<1>7. /\ q.start = r.start /\ q.profile = r.profile /\ q.admitted = r.admitted
      /\ q.health = r.health /\ q.life = r.life /\ q.phase = "AwaitingPing"
      /\ q.flags = {"anchor_arrived"} /\ q.anchorAt = e /\ q.ping = None
      /\ q.runnerAt = None /\ q.downedAt = None /\ q.revive = None /\ q.revivedAt = None
      /\ q.reviveCount = 0 /\ q.wardenAt = None /\ q.outcome = "None" /\ q.terminalAt = None
  BY <1>5 DEF AnchorRow, Rows
<1> HIDE DEF q, t
<1>8. Rebuilt(q) = result
  BY <1>1, <1>5, <1>7, NoneAssumption, ReplayOfAnchor
<1>9. AcceptedTimes(q) = {e}
  BY <1>7, NoneAssumption DEF AcceptedTimes
<1>10. RowChecks(q)
  <2>1. \A x \in Roles : (q.life[x] = "Active") <=> q.health[x] > 0
    BY <1>5, <1>7 DEF RowChecks
  <2> QED
    BY <1>3, <1>7, <1>9, <2>1, NoneAssumption DEF RowChecks, RecordedIn
<1>11. Says(q, t)
  <2>1. /\ t.contributions = s.contributions \cup {"anchor_arrived"}
        /\ t.phase = "AwaitingPing"
        /\ t.start = s.start /\ t.profile = s.profile /\ t.admitted = s.admitted
        /\ t.health = s.health /\ t.life = s.life /\ t.ping = s.ping
        /\ t.downedAt = s.downedAt /\ t.channel = s.channel
        /\ t.completedRevive = s.completedRevive /\ t.reviveCount = s.reviveCount
        /\ t.terminal = s.terminal
    BY <1>1 DEF t, AnchorArrives, CooperationStates
  <2>2. Says(r, s)
    BY MeaningFields
  <2> HIDE DEF s
  <2> QED
    BY <1>4, <1>5, <1>7, <2>1, <2>2 DEF Says
<1>12. StepOf(s, t, e)
  BY <1>2, ArriveAnchorSteps
<1>13. Taken(Rebuilt(q)) /\ Rebuilt(q).state = t
  BY <1>2, <1>8 DEF Taken
<1>14. q.phase # "ReviveChannel" /\ AcceptedTimes(q) \subseteq AcceptedTimes(r) \cup {e}
  BY <1>7, <1>9
<1>15. RowInv(q, e) /\ Meaning(q) = t
  BY <1>6, <1>7, <1>10, <1>11, <1>12, <1>13, <1>14, RowGrows
<1> QED
  BY <1>2, <1>15 DEF q

PingRow(r, id, e) ==
    [r EXCEPT !.phase = "AwaitingRunner", !.ping = [id |-> id, at |-> e],
              !.flags = @ \cup {"pinged"}]

\* The ping is recorded.
LEMMA PingGrows ==
    ASSUME NEW r, NEW e \in Elapsed, RowInv(r, e), r.outcome = "None",
           NEW id \in OperationIds, NEW result, result.answer = "Applied",
           result = Ping(Meaning(r), "Anchor", "RelayConsole", id, e)
    PROVE  RowInv(PingRow(r, id, e), e) /\ Meaning(PingRow(r, id, e)) = result.state
<1> DEFINE s == Meaning(r)
           q == PingRow(r, id, e)
           t == Pings(s, id, e)
           op == [id |-> id, at |-> e]
<1>1. /\ s \in CooperationStates /\ Running(s)
      /\ Taken(Rebuilt(r)) /\ Rebuilt(r).state = s
  BY LiveRow
<1>2. s.phase = "AwaitingPing" /\ ~Expired(s, e) /\ result.state = t
  BY DEF Ping, Observe, Result
<1>3. e <= OperationDuration
  BY <1>2, DurationsAssumption DEF Expired, Elapsed
<1>4. r.phase = "AwaitingPing"
  BY <1>2, MeaningFields DEF Says
<1>5. /\ r \in Rows /\ RowChecks(r) /\ r.flags = {"anchor_arrived"}
      /\ r.terminalAt = None /\ r.wardenAt = None /\ r.anchorAt # None /\ r.ping = None
      /\ r.runnerAt = None /\ r.downedAt = None /\ r.revive = None /\ r.revivedAt = None
      /\ r.reviveCount = 0
  BY <1>4, LiveColumns DEF RecordedIn
<1>6. q \in Rows
  <2>1. "AwaitingRunner" \in Phases \ {"Succeeded", "Failed"} /\ op \in OperationRecords
    BY DEF Phases, OperationRecords
  <2>2. r.flags \cup {"pinged"} \in SUBSET Contributions
    BY <1>5 DEF Contributions
  <2> HIDE DEF op
  <2>3. [r EXCEPT !.phase = "AwaitingRunner", !.ping = op, !.flags = r.flags \cup {"pinged"}]
           \in Rows
    BY <1>5, <2>1, <2>2, RowUpdates
  <2> QED
    BY <2>3 DEF PingRow, op
<1>7. /\ q.start = r.start /\ q.profile = r.profile /\ q.admitted = r.admitted
      /\ q.health = r.health /\ q.life = r.life /\ q.phase = "AwaitingRunner"
      /\ q.flags = {"anchor_arrived", "pinged"} /\ q.anchorAt = r.anchorAt /\ q.ping = op
      /\ q.runnerAt = None /\ q.downedAt = None /\ q.revive = None /\ q.revivedAt = None
      /\ q.reviveCount = 0 /\ q.wardenAt = None /\ q.outcome = "None" /\ q.terminalAt = None
  BY <1>5 DEF PingRow, Rows
<1>8. op \in OperationRecords /\ op # None /\ op.id = id /\ op.at = e
  BY NoneAssumption DEF OperationRecords
<1> HIDE DEF q, t, op
<1>9. Rebuilt(q) = result
  BY <1>1, <1>5, <1>7, <1>8, ReplayOfPing
<1>10. AcceptedTimes(q) = {r.anchorAt, e} /\ r.anchorAt \in AcceptedTimes(r)
  BY <1>5, <1>7, <1>8, NoneAssumption DEF AcceptedTimes
<1>11. r.anchorAt \in Elapsed /\ r.anchorAt <= e
  BY <1>5, <1>10 DEF Rows, RowInv
<1>12. RowChecks(q)
  <2>1. \A x \in Roles : (q.life[x] = "Active") <=> q.health[x] > 0
    BY <1>5, <1>7 DEF RowChecks
  <2>2. \A at \in AcceptedTimes(q) : at <= OperationDuration
    BY <1>3, <1>10, <1>11, DurationsAssumption DEF Elapsed
  <2> QED
    BY <1>3, <1>5, <1>7, <1>8, <1>11, <2>1, <2>2 DEF RowChecks, RecordedIn
<1>13. Says(q, t)
  <2>1. /\ t.contributions = s.contributions \cup {"pinged"}
        /\ t.phase = "AwaitingRunner" /\ t.ping = op
        /\ t.start = s.start /\ t.profile = s.profile /\ t.admitted = s.admitted
        /\ t.health = s.health /\ t.life = s.life
        /\ t.downedAt = s.downedAt /\ t.channel = s.channel
        /\ t.completedRevive = s.completedRevive /\ t.reviveCount = s.reviveCount
        /\ t.terminal = s.terminal
    BY <1>1 DEF t, op, Pings, CooperationStates
  <2>2. Says(r, s)
    BY MeaningFields
  <2> HIDE DEF s
  <2> QED
    BY <1>4, <1>5, <1>7, <2>1, <2>2 DEF Says
<1>14. StepOf(s, t, e)
  BY <1>2, PingSteps
<1> HIDE DEF s
<1>15. Taken(Rebuilt(q)) /\ Rebuilt(q).state = t
  BY <1>2, <1>9 DEF Taken
<1>16. q.phase # "ReviveChannel" /\ AcceptedTimes(q) \subseteq AcceptedTimes(r) \cup {e}
  BY <1>7, <1>10
<1>17. RowInv(q, e) /\ Meaning(q) = t
  <2>1. StepOf(Meaning(r), t, e)
    BY <1>14 DEF s
  <2> QED
    BY <1>6, <1>7, <1>12, <1>13, <1>15, <1>16, <2>1, RowGrows
<1> QED
  BY <1>2, <1>17 DEF q

FallRow(r, e) ==
    [r EXCEPT !.phase = "RunnerDowned", !.runnerAt = e, !.downedAt = e,
              !.flags = @ \cup {"runner_arrived"},
              !.health["Runner"] = 0, !.life["Runner"] = "Downed"]

\* The runner arrives, and falls.
LEMMA FallGrows ==
    ASSUME NEW r, NEW e \in Elapsed, RowInv(r, e), r.outcome = "None",
           NEW result, result.answer = "Applied",
           result = ArriveRunner(Meaning(r), "Runner", "RelayConsole", e)
    PROVE  RowInv(FallRow(r, e), e) /\ Meaning(FallRow(r, e)) = result.state
<1> DEFINE s == Meaning(r)
           q == FallRow(r, e)
           t == RunnerFalls(s, e)
           h == [r.health EXCEPT !["Runner"] = 0]
           l == [r.life EXCEPT !["Runner"] = "Downed"]
<1>1. /\ s \in CooperationStates /\ Running(s)
      /\ Taken(Rebuilt(r)) /\ Rebuilt(r).state = s
  BY LiveRow
<1>2. s.phase = "AwaitingRunner" /\ ~Expired(s, e) /\ result.state = t
  BY DEF ArriveRunner, Observe, Result
<1>3. e <= OperationDuration
  BY <1>2, DurationsAssumption DEF Expired, Elapsed
<1>4. r.phase = "AwaitingRunner"
  BY <1>2, MeaningFields DEF Says
<1>5. /\ r \in Rows /\ RowChecks(r) /\ r.flags = {"anchor_arrived", "pinged"}
      /\ r.terminalAt = None /\ r.wardenAt = None /\ r.anchorAt # None /\ r.ping # None
      /\ r.runnerAt = None /\ r.downedAt = None /\ r.revive = None /\ r.revivedAt = None
      /\ r.reviveCount = 0
  BY <1>4, LiveColumns DEF RecordedIn
<1>6. h \in [Roles -> Nat] /\ l \in [Roles -> LifeStates]
  BY <1>5 DEF Rows, LifeStates
<1>7. q \in Rows
  <2>1. "RunnerDowned" \in Phases \ {"Succeeded", "Failed"}
    BY DEF Phases
  <2>2. r.flags \cup {"runner_arrived"} \in SUBSET Contributions
    BY <1>5 DEF Contributions
  <2> HIDE DEF h, l
  <2>3. [r EXCEPT !.phase = "RunnerDowned", !.runnerAt = e, !.downedAt = e,
                  !.flags = r.flags \cup {"runner_arrived"}, !.health = h, !.life = l]
           \in Rows
    BY <1>5, <1>6, <2>1, <2>2, RowUpdates
  <2> QED
    BY <2>3 DEF FallRow, h, l
<1>8. /\ q.start = r.start /\ q.profile = r.profile /\ q.admitted = r.admitted
      /\ q.health = h /\ q.life = l /\ q.phase = "RunnerDowned"
      /\ q.flags = {"anchor_arrived", "pinged", "runner_arrived"}
      /\ q.anchorAt = r.anchorAt /\ q.ping = r.ping
      /\ q.runnerAt = e /\ q.downedAt = e /\ q.revive = None /\ q.revivedAt = None
      /\ q.reviveCount = 0 /\ q.wardenAt = None /\ q.outcome = "None" /\ q.terminalAt = None
  BY <1>5 DEF FallRow, Rows
<1>9. \A x \in Roles : (l[x] = "Active") <=> h[x] > 0
  BY <1>5 DEF RowChecks, Rows
<1>10. e <= r.ping.at + PingTTL
  <2>1. s.ping = r.ping /\ s.ping.at \in Nat
    BY <1>1, <1>5 DEF Meaning, Rows, OperationRecords, Elapsed
  <2> QED
    BY <1>2, <2>1, DurationsAssumption DEF Expired, PingExpired, StrictlyAfter, Elapsed
<1> HIDE DEF q, t, h, l
<1>11. Rebuilt(q) = result
  BY <1>1, <1>5, <1>8, NoneAssumption, ReplayOfFall
<1>12. /\ AcceptedTimes(q) = {r.anchorAt, r.ping.at, e}
       /\ r.anchorAt \in AcceptedTimes(r) /\ r.ping.at \in AcceptedTimes(r)
  <2>1. r.ping \in OperationRecords /\ r.ping.at # None
    BY <1>5, NoneAssumption DEF Rows, OperationRecords
  <2> QED
    BY <1>5, <1>8, <2>1, NoneAssumption DEF AcceptedTimes
<1>13. /\ r.anchorAt \in Elapsed /\ r.anchorAt <= e
       /\ r.ping.at \in Elapsed /\ r.ping.at <= e
  BY <1>5, <1>12 DEF Rows, RowInv, OperationRecords
<1>14. RowChecks(q)
  <2>1. \A at \in AcceptedTimes(q) : at <= OperationDuration
    BY <1>3, <1>12, <1>13, DurationsAssumption DEF Elapsed
  <2>2. r.anchorAt <= r.ping.at
    BY <1>5 DEF RowChecks
  <2> QED
    BY <1>3, <1>5, <1>8, <1>9, <1>10, <1>13, <2>1, <2>2, NoneAssumption
    DEF RowChecks, RecordedIn
<1>15. Says(q, t)
  <2>1. Says(r, s)
    BY MeaningFields
  <2>2. /\ t.contributions = s.contributions \cup {"runner_arrived"}
        /\ t.phase = "RunnerDowned" /\ t.ping = s.ping
        /\ t.start = s.start /\ t.profile = s.profile /\ t.admitted = s.admitted
        /\ t.health = h /\ t.life = l
        /\ t.downedAt = e /\ t.channel = s.channel
        /\ t.completedRevive = s.completedRevive /\ t.reviveCount = s.reviveCount
        /\ t.terminal = s.terminal
    BY <1>1, <2>1 DEF t, h, l, Says, RunnerFalls, CooperationStates
  <2> HIDE DEF s
  <2> QED
    BY <1>4, <1>5, <1>8, <2>1, <2>2 DEF Says
<1>16. StepOf(s, t, e)
  BY <1>2, ArriveRunnerSteps
<1> HIDE DEF s
<1>17. Taken(Rebuilt(q)) /\ Rebuilt(q).state = t
  BY <1>2, <1>11 DEF Taken
<1>18. q.phase # "ReviveChannel" /\ AcceptedTimes(q) \subseteq AcceptedTimes(r) \cup {e}
  BY <1>8, <1>12
<1>19. RowInv(q, e) /\ Meaning(q) = t
  <2>1. StepOf(Meaning(r), t, e)
    BY <1>16 DEF s
  <2> QED
    BY <1>7, <1>8, <1>14, <1>15, <1>17, <1>18, <2>1, RowGrows
<1> QED
  BY <1>2, <1>19 DEF q

ChannelRow(r, id, e) == [r EXCEPT !.phase = "ReviveChannel", !.revive = [id |-> id, at |-> e]]

\* A revive begins; the replay begins it at the largest distance that is allowed.
LEMMA ChannelGrows ==
    ASSUME NEW r, NEW e \in Elapsed, RowInv(r, e), r.outcome = "None",
           NEW id \in OperationIds, NEW distance, NEW result, result.answer = "Applied",
           result = StartRevive(Meaning(r), "Anchor", "Runner", distance, id, e)
    PROVE  RowInv(ChannelRow(r, id, e), e) /\ Meaning(ChannelRow(r, id, e)) = result.state
<1> DEFINE s == Meaning(r)
           q == ChannelRow(r, id, e)
           t == OpenChannel(s, id, e)
           op == [id |-> id, at |-> e]
<1>1. /\ s \in CooperationStates /\ Running(s)
      /\ Taken(Rebuilt(r)) /\ Rebuilt(r).state = s
  BY LiveRow
<1>2. /\ s.phase = "RunnerDowned" /\ ~Expired(s, e) /\ result.state = t
      /\ result = StartRevive(s, "Anchor", "Runner", MaxReviveDistance, id, e)
  <2>1. InReach(MaxReviveDistance)
    BY DurationsAssumption DEF InReach
  <2> QED
    BY <2>1 DEF StartRevive, Observe, Result
<1>3. e <= OperationDuration
  BY <1>2, DurationsAssumption DEF Expired, Elapsed
<1>4. r.phase = "RunnerDowned"
  BY <1>2, MeaningFields DEF Says
<1>5. /\ r \in Rows /\ RowChecks(r) /\ r.flags = {"anchor_arrived", "pinged", "runner_arrived"}
      /\ r.terminalAt = None /\ r.wardenAt = None /\ r.anchorAt # None /\ r.ping # None
      /\ r.runnerAt # None /\ r.downedAt = r.runnerAt /\ r.revive = None /\ r.revivedAt = None
      /\ r.reviveCount = 0
  BY <1>4, LiveColumns DEF RecordedIn
<1>6. op \in OperationRecords /\ op # None /\ op.id = id /\ op.at = e
  BY NoneAssumption DEF OperationRecords
<1>7. q \in Rows
  <2>1. "ReviveChannel" \in Phases \ {"Succeeded", "Failed"}
    BY DEF Phases
  <2> HIDE DEF op
  <2>2. [r EXCEPT !.phase = "ReviveChannel", !.revive = op] \in Rows
    BY <1>5, <1>6, <2>1, RowUpdates
  <2> QED
    BY <2>2 DEF ChannelRow, op
<1>8. /\ q.start = r.start /\ q.profile = r.profile /\ q.admitted = r.admitted
      /\ q.health = r.health /\ q.life = r.life /\ q.phase = "ReviveChannel"
      /\ q.flags = r.flags /\ q.anchorAt = r.anchorAt /\ q.ping = r.ping
      /\ q.runnerAt = r.runnerAt /\ q.downedAt = r.downedAt
      /\ q.revive = op /\ q.revivedAt = None
      /\ q.reviveCount = 0 /\ q.wardenAt = None /\ q.outcome = "None" /\ q.terminalAt = None
  BY <1>5 DEF ChannelRow, Rows
<1>9. e <= r.downedAt + ReviveWindow
  <2>1. s.downedAt = r.downedAt /\ r.downedAt \in Nat
    BY <1>1, <1>5 DEF Meaning, Rows, Elapsed
  <2> QED
    BY <1>2, <2>1, DurationsAssumption DEF Expired, ReviveExpired, StrictlyAfter, Elapsed
<1>10. LET before == Rebuilt([q EXCEPT !.revive = None])
       IN  Taken(before) /\ before.state = CancelRevive(t)
  <2>1. SameCalls(r, [q EXCEPT !.revive = None])
    BY <1>5, <1>7, <1>8 DEF SameCalls, Rows
  <2>2. Rebuilt([q EXCEPT !.revive = None]) = Rebuilt(r)
    BY <2>1, SameCallsSameReplay
  <2>3. s.channel = None
    BY <1>4, MeaningFields DEF Says
  <2>4. CancelRevive(t) = s
    BY <1>1, <1>2, <2>3 DEF CancelRevive, OpenChannel, CooperationStates
  <2> QED
    BY <1>1, <2>2, <2>4
<1> HIDE DEF q, t, op
<1>11. Rebuilt(q) = result
  BY <1>1, <1>2, <1>5, <1>6, <1>8, ReplayOfChannel
<1>12. /\ AcceptedTimes(q) = AcceptedTimes(r) \cup {e}
       /\ r.downedAt \in AcceptedTimes(r)
  <2>1. e # None
    BY NoneAssumption
  <2> QED
    BY <1>5, <1>6, <1>8, <2>1 DEF AcceptedTimes
<1>13. r.downedAt \in Elapsed /\ r.downedAt <= e
  BY <1>5, <1>12 DEF Rows, RowInv
<1>14. RowChecks(q)
  <2>1. \A at \in AcceptedTimes(q) : at <= OperationDuration
    BY <1>3, <1>5, <1>12 DEF RowChecks
  <2> QED
    BY <1>3, <1>5, <1>6, <1>8, <1>9, <1>13, <2>1 DEF RowChecks, RecordedIn
<1>15. Says(q, t)
  <2>1. /\ t.contributions = s.contributions
        /\ t.phase = "ReviveChannel" /\ t.ping = s.ping
        /\ t.start = s.start /\ t.profile = s.profile /\ t.admitted = s.admitted
        /\ t.health = s.health /\ t.life = s.life
        /\ t.downedAt = s.downedAt /\ t.channel = op
        /\ t.completedRevive = s.completedRevive /\ t.reviveCount = s.reviveCount
        /\ t.terminal = s.terminal
    BY <1>1 DEF t, op, OpenChannel, CooperationStates
  <2>2. Says(r, s)
    BY MeaningFields
  <2> HIDE DEF s
  <2> QED
    BY <1>4, <1>5, <1>8, <2>1, <2>2 DEF Says
<1>16. StepOf(s, t, e)
  BY <1>2, StartReviveSteps
<1> HIDE DEF s
<1>17. Taken(Rebuilt(q)) /\ Rebuilt(q).state = t
  BY <1>2, <1>11 DEF Taken
<1>18. RowInv(q, e) /\ Meaning(q) = t
  <2>1. StepOf(Meaning(r), t, e)
    BY <1>16 DEF s
  <2> QED
    BY <1>7, <1>8, <1>10, <1>12, <1>14, <1>15, <1>17, <2>1, RowGrows
<1> QED
  BY <1>2, <1>18 DEF q

CancelRow(r) == [r EXCEPT !.phase = "RunnerDowned", !.revive = None]

\* A revive is cancelled: the row is again the one before it began.
LEMMA CancelGrows ==
    ASSUME NEW r, NEW e \in Elapsed, RowInv(r, e), r.outcome = "None",
           NEW id \in OperationIds, NEW distance \in Int,
           NEW result, result.answer = "Cancelled",
           result = ObserveRevive(Meaning(r), "Anchor", "Runner", distance, id, e)
    PROVE  RowInv(CancelRow(r), e) /\ Meaning(CancelRow(r)) = result.state
<1> DEFINE s == Meaning(r)
           q == CancelRow(r)
           t == CancelRevive(s)
<1>1. /\ s \in CooperationStates /\ Running(s)
      /\ Taken(Rebuilt(r)) /\ Rebuilt(r).state = s
  BY LiveRow
<1>2. s.phase = "ReviveChannel" /\ ~Expired(s, e) /\ result.state = t
  BY DEF ObserveRevive, Observe, Result
<1>4. r.phase = "ReviveChannel"
  BY <1>2, MeaningFields DEF Says
<1>5. /\ r \in Rows /\ RowChecks(r) /\ r.flags = {"anchor_arrived", "pinged", "runner_arrived"}
      /\ r.terminalAt = None /\ r.wardenAt = None /\ r.anchorAt # None /\ r.ping # None
      /\ r.runnerAt # None /\ r.downedAt = r.runnerAt /\ r.revive # None /\ r.revivedAt = None
      /\ r.reviveCount = 0
  BY <1>4, LiveColumns DEF RecordedIn
<1>7. q \in Rows
  <2>1. "RunnerDowned" \in Phases \ {"Succeeded", "Failed"}
    BY DEF Phases
  <2> QED
    BY <1>5, <2>1, RowUpdates DEF CancelRow
<1>8. /\ q.start = r.start /\ q.profile = r.profile /\ q.admitted = r.admitted
      /\ q.health = r.health /\ q.life = r.life /\ q.phase = "RunnerDowned"
      /\ q.flags = r.flags /\ q.anchorAt = r.anchorAt /\ q.ping = r.ping
      /\ q.runnerAt = r.runnerAt /\ q.downedAt = r.downedAt
      /\ q.revive = None /\ q.revivedAt = None
      /\ q.reviveCount = 0 /\ q.wardenAt = None /\ q.outcome = "None" /\ q.terminalAt = None
  BY <1>5 DEF CancelRow, Rows
<1>9. Taken(Rebuilt(q)) /\ Rebuilt(q).state = t
  <2>1. SameCalls([r EXCEPT !.revive = None], q)
    BY <1>5, <1>8 DEF SameCalls, Rows
  <2>2. Rebuilt(q) = Rebuilt([r EXCEPT !.revive = None])
    BY <2>1, SameCallsSameReplay
  <2> QED
    BY <1>4, <2>2 DEF RowInv
<1> HIDE DEF q, t
<1>12. AcceptedTimes(q) \subseteq AcceptedTimes(r) \cup {e}
  BY <1>5, <1>8 DEF AcceptedTimes
<1>14. RowChecks(q)
  <2>1. \A at \in AcceptedTimes(q) : at <= OperationDuration
    <3>1. AcceptedTimes(q) \subseteq AcceptedTimes(r)
      BY <1>5, <1>8 DEF AcceptedTimes
    <3> QED
      BY <3>1, <1>5 DEF RowChecks
  <2> QED
    BY <1>5, <1>8, <2>1 DEF RowChecks, RecordedIn
<1>15. Says(q, t)
  <2>1. /\ t.contributions = s.contributions
        /\ t.phase = "RunnerDowned" /\ t.ping = s.ping
        /\ t.start = s.start /\ t.profile = s.profile /\ t.admitted = s.admitted
        /\ t.health = s.health /\ t.life = s.life
        /\ t.downedAt = s.downedAt /\ t.channel = None
        /\ t.completedRevive = s.completedRevive /\ t.reviveCount = s.reviveCount
        /\ t.terminal = s.terminal
    BY <1>1 DEF t, CancelRevive, CooperationStates
  <2>2. Says(r, s)
    BY MeaningFields
  <2> HIDE DEF s
  <2> QED
    BY <1>4, <1>5, <1>8, <2>1, <2>2 DEF Says
<1>16. StepOf(s, t, e)
  BY <1>1, <1>2, ObserveReviveSteps
<1> HIDE DEF s
<1>18. RowInv(q, e) /\ Meaning(q) = t
  <2>1. StepOf(Meaning(r), t, e)
    BY <1>16 DEF s
  <2> QED
    BY <1>7, <1>8, <1>9, <1>12, <1>14, <1>15, <2>1, RowGrows
<1> QED
  BY <1>2, <1>18 DEF q

RevivedRow(r, e) ==
    [r EXCEPT !.phase = "EncounterActive", !.revivedAt = e, !.reviveCount = 1,
              !.flags = @ \cup {"revived"},
              !.health["Runner"] = ReviveHealth, !.life["Runner"] = "Active"]

\* A revive is completed, with the health that every profile has room for.
LEMMA ReviveGrows ==
    ASSUME NEW r, NEW e \in Elapsed, RowInv(r, e), r.outcome = "None",
           NEW id \in OperationIds, NEW distance \in Int,
           NEW result, result.answer = "Applied",
           result = ObserveRevive(Meaning(r), "Anchor", "Runner", distance, id, e)
    PROVE  RowInv(RevivedRow(r, e), e) /\ Meaning(RevivedRow(r, e)) = result.state
<1> DEFINE s == Meaning(r)
           q == RevivedRow(r, e)
           t == FinishRevive(s)
           h == [r.health EXCEPT !["Runner"] = ReviveHealth]
           l == [r.life EXCEPT !["Runner"] = "Active"]
<1>1. /\ s \in CooperationStates /\ Running(s)
      /\ Taken(Rebuilt(r)) /\ Rebuilt(r).state = s
  BY LiveRow
<1>2. /\ s.phase = "ReviveChannel" /\ s.channel # None /\ s.channel.id = id
      /\ ~Expired(s, e) /\ result.state = t
      /\ s.channel.at + ReviveChannelTime <= e
      /\ result = ObserveRevive(s, "Anchor", "Runner", MaxReviveDistance, id, e)
  <2>0. s.channel # None => s.channel.at \in Nat
    BY <1>1 DEF CooperationStates, OperationRecords, Elapsed
  <2>1. /\ s.phase = "ReviveChannel" /\ s.channel # None /\ s.channel.id = id
        /\ ~Expired(s, e) /\ result.state = t
        /\ 0 <= distance /\ ~(distance > MaxReviveDistance)
        /\ e - s.channel.at >= 0 /\ ~(e - s.channel.at < ReviveChannelTime)
        /\ s.completedRevive # id
    BY DEF ObserveRevive, Observe, Result
  <2>2. MaxReviveDistance \in Nat /\ MaxReviveDistance >= 0
    BY DurationsAssumption
  <2>3. result = ObserveRevive(s, "Anchor", "Runner", MaxReviveDistance, id, e)
    BY <1>1, <2>1, <2>2 DEF ObserveRevive, Observe
  <2> QED
    BY <2>0, <2>1, <2>3, DurationsAssumption DEF Elapsed
<1>3. e <= OperationDuration
  BY <1>2, DurationsAssumption DEF Expired, Elapsed
<1>4. r.phase = "ReviveChannel"
  BY <1>2, MeaningFields DEF Says
<1>5. /\ r \in Rows /\ RowChecks(r) /\ r.flags = {"anchor_arrived", "pinged", "runner_arrived"}
      /\ r.terminalAt = None /\ r.wardenAt = None /\ r.anchorAt # None /\ r.ping # None
      /\ r.runnerAt # None /\ r.downedAt = r.runnerAt /\ r.revive # None /\ r.revivedAt = None
      /\ r.reviveCount = 0
  BY <1>4, LiveColumns DEF RecordedIn
<1>6. h \in [Roles -> Nat] /\ l \in [Roles -> LifeStates]
  BY <1>5, DurationsAssumption DEF Rows, LifeStates
<1>7. q \in Rows
  <2>1. "EncounterActive" \in Phases \ {"Succeeded", "Failed"}
    BY DEF Phases
  <2>2. r.flags \cup {"revived"} \in SUBSET Contributions
    BY <1>5 DEF Contributions
  <2> HIDE DEF h, l
  <2>3. [r EXCEPT !.phase = "EncounterActive", !.revivedAt = e, !.reviveCount = 1,
                  !.flags = r.flags \cup {"revived"}, !.health = h, !.life = l]
           \in Rows
    BY <1>5, <1>6, <2>1, <2>2, RowUpdates
  <2> QED
    BY <2>3 DEF RevivedRow, h, l
<1>8. /\ q.start = r.start /\ q.profile = r.profile /\ q.admitted = r.admitted
      /\ q.health = h /\ q.life = l /\ q.phase = "EncounterActive"
      /\ q.flags = {"anchor_arrived", "pinged", "runner_arrived", "revived"}
      /\ q.anchorAt = r.anchorAt /\ q.ping = r.ping
      /\ q.runnerAt = r.runnerAt /\ q.downedAt = r.downedAt
      /\ q.revive = r.revive /\ q.revivedAt = e
      /\ q.reviveCount = 1 /\ q.wardenAt = None /\ q.outcome = "None" /\ q.terminalAt = None
  BY <1>5 DEF RevivedRow, Rows
<1>9. \A x \in Roles : (l[x] = "Active") <=> h[x] > 0
  BY <1>5, DurationsAssumption DEF RowChecks, Rows
<1>10. s.channel = r.revive /\ s.downedAt = r.downedAt /\ s.health = r.health /\ s.life = r.life
  BY <1>4 DEF Meaning
<1>11. e <= r.downedAt + ReviveWindow
  <2>1. r.downedAt \in Nat
    BY <1>5 DEF Rows, Elapsed
  <2> QED
    BY <1>2, <1>10, <2>1, DurationsAssumption DEF Expired, ReviveExpired, StrictlyAfter, Elapsed
<1>12. s.profile["Runner"] \in Profiles /\ ReviveHealth <= s.profile["Runner"].max_health
  BY <1>1, ProfilesAssumption, DurationsAssumption DEF CooperationStates, Roles
<1> HIDE DEF q, h, l
<1>13. Rebuilt(q) = result
  <2>1. e # None
    BY NoneAssumption
  <2> QED
    BY <1>1, <1>2, <1>5, <1>8, <1>10, <2>1, ReplayOfRevive
<1>14. /\ AcceptedTimes(q) = AcceptedTimes(r) \cup {e}
       /\ r.revive.at \in AcceptedTimes(r)
  <2>1. e # None /\ r.revive.at # None
    BY <1>5, NoneAssumption DEF Rows, OperationRecords
  <2> QED
    BY <1>5, <1>8, <2>1 DEF AcceptedTimes
<1>15. RowChecks(q)
  <2>1. \A at \in AcceptedTimes(q) : at <= OperationDuration
    BY <1>3, <1>5, <1>14 DEF RowChecks
  <2>2. r.revive.at + ReviveChannelTime <= e
    BY <1>2, <1>10
  <2>3. /\ r.anchorAt <= r.ping.at /\ r.ping.at <= r.runnerAt
        /\ r.runnerAt <= r.ping.at + PingTTL
        /\ r.downedAt <= r.revive.at /\ r.revive.at <= r.downedAt + ReviveWindow
    BY <1>5 DEF RowChecks
  <2>4. q.revivedAt # None
    BY <1>8, NoneAssumption
  <2> QED
    BY <1>5, <1>8, <1>9, <1>11, <2>1, <2>2, <2>3, <2>4 DEF RowChecks, RecordedIn
<1>16. Says(q, t)
  <2>1. Says(r, s)
    BY MeaningFields
  <2>2. /\ t.contributions = s.contributions \cup {"revived"}
        /\ t.phase = "EncounterActive" /\ t.ping = s.ping
        /\ t.start = s.start /\ t.profile = s.profile /\ t.admitted = s.admitted
        /\ t.health = h /\ t.life = l
        /\ t.downedAt = s.downedAt /\ t.channel = None
        /\ t.completedRevive = s.channel.id /\ t.reviveCount = s.reviveCount + 1
        /\ t.terminal = s.terminal
    BY <1>1, <1>10, <1>12 DEF t, h, l, FinishRevive, CooperationStates
  <2> HIDE DEF s, t
  <2> QED
    BY <1>4, <1>5, <1>8, <1>10, <2>1, <2>2 DEF Says
<1>17. StepOf(s, t, e)
  BY <1>1, <1>2, ObserveReviveSteps
<1> HIDE DEF s, t
<1>18. Taken(Rebuilt(q)) /\ Rebuilt(q).state = t
  BY <1>2, <1>13 DEF Taken
<1>19. RowInv(q, e) /\ Meaning(q) = t
  <2>1. StepOf(Meaning(r), t, e)
    BY <1>17 DEF s
  <2>2. q.phase # "ReviveChannel"
    BY <1>8
  <2> QED
    BY <1>7, <1>8, <1>14, <1>15, <1>16, <1>18, <2>1, <2>2, RowGrows
<1> QED
  BY <1>2, <1>19 DEF q

\* A row that was just started.
LEMMA StartedRow ==
    ASSUME NEW id \in OperationIds, NEW profile \in [Roles -> Profiles],
           NEW health \in [Roles -> Nat], CanStart(profile, health), NEW e \in Elapsed
    PROVE  LET started == StartRow(id, profile, health)
           IN  /\ RowInv(started, e)
               /\ Meaning(started) = StartWithHealth(id, profile, health)
<1> DEFINE q == StartRow(id, profile, health)
           t == StartWithHealth(id, profile, health)
<1>1. \A x \in Roles : health[x] > 0
  BY DEF CanStart
<1>2. health \in [Roles -> Nat] /\ CanStart(profile, health)
  OBVIOUS
<1>3. q \in Rows
  BY <1>2 DEF StartRow, Rows, LifeStates, Phases
<1>4. Consistent(t)
  BY <1>2, StartConsistent
<1>5. InTime(t, e)
  BY DEF InTime, StartWithHealth
<1>6. Rebuilt(q) = Admitted(q)
  BY SkippedLinks DEF StartRow
<1>7. Taken(Rebuilt(q)) /\ Rebuilt(q).state = t
  BY <1>2, <1>6 DEF Admitted, StartRow, Result, Taken
<1>8. AcceptedTimes(q) = {}
  BY DEF AcceptedTimes, StartRow
<1>9. RowChecks(q)
  <2>1. /\ q.health = health /\ q.life = [x \in Roles |-> "Active"]
        /\ q.phase = "AwaitingAnchor" /\ q.flags = {} /\ q.anchorAt = None /\ q.ping = None
        /\ q.runnerAt = None /\ q.downedAt = None /\ q.revive = None /\ q.revivedAt = None
        /\ q.reviveCount = 0 /\ q.wardenAt = None /\ q.outcome = "None" /\ q.terminalAt = None
    BY DEF StartRow
  <2>2. \A x \in Roles : (q.life[x] = "Active") <=> q.health[x] > 0
    BY <1>1, <2>1
  <2> HIDE DEF q
  <2> QED
    BY <1>8, <2>1, <2>2 DEF RowChecks, RecordedIn
<1>10. Says(q, t)
  BY DEF Says, StartRow, StartWithHealth
<1>11. Meaning(q) = t
  BY <1>3, <1>4, <1>9, <1>10, SaysAll DEF Consistent
<1>12. q.outcome = "None" /\ q.phase = "AwaitingAnchor"
  BY DEF StartRow
<1>13. Loaded(q) = t
  BY <1>7, <1>12 DEF Loaded
<1>14. Loads(q)
  <2>1. q.runnerAt = q.downedAt /\ q.wardenAt = None /\ q.flags = {}
    BY DEF StartRow
  <2>2. t.phase = "AwaitingAnchor"
    BY DEF StartWithHealth
  <2> QED
    BY <1>7, <1>10, <1>12, <1>13, <2>1, <2>2 DEF Loads, Parity, Says
<1> QED
  BY <1>2, <1>3, <1>4, <1>5, <1>8, <1>9, <1>11, <1>12, <1>13, <1>14 DEF RowInv

\* A row stays a good row as the clock goes on.
LEMMA RowLater ==
    ASSUME NEW r, NEW e \in Elapsed, NEW f \in Elapsed, e <= f, RowInv(r, e)
    PROVE  RowInv(r, f)
<1>1. r \in Rows /\ InTime(Meaning(r), f)
  BY InTimeLater DEF RowInv, Consistent
<1>2. AcceptedTimes(r) \subseteq Elapsed
  BY <1>1 DEF AcceptedTimes, Rows, OperationRecords
<1>3. \A at \in AcceptedTimes(r) : at <= f
  BY <1>2 DEF RowInv, Elapsed
<1> QED
  BY <1>1, <1>3 DEF RowInv

-----------------------------------------------------------------------------
(* A call that ends the operation                                           *)

EndedRow(r, outcome, e) == [r EXCEPT !.outcome = outcome, !.terminalAt = e]

\* An end writes its two columns and no other.
LEMMA EndedColumns ==
    ASSUME NEW r \in Rows, NEW outcome \in Outcomes, NEW e \in Elapsed
    PROVE  LET q == EndedRow(r, outcome, e)
           IN  /\ q \in Rows
               /\ q.start = r.start /\ q.profile = r.profile /\ q.admitted = r.admitted
               /\ q.health = r.health /\ q.life = r.life /\ q.phase = r.phase
               /\ q.flags = r.flags /\ q.anchorAt = r.anchorAt /\ q.ping = r.ping
               /\ q.runnerAt = r.runnerAt /\ q.downedAt = r.downedAt
               /\ q.revive = r.revive /\ q.revivedAt = r.revivedAt
               /\ q.reviveCount = r.reviveCount /\ q.wardenAt = r.wardenAt
               /\ q.outcome = outcome /\ q.terminalAt = e
               /\ AcceptedTimes(q) = AcceptedTimes(r)
<1> DEFINE q == EndedRow(r, outcome, e)
<1>1. q \in Rows
  BY RowUpdates DEF EndedRow
<1>2. /\ q.start = r.start /\ q.profile = r.profile /\ q.admitted = r.admitted
      /\ q.health = r.health /\ q.life = r.life /\ q.phase = r.phase
      /\ q.flags = r.flags /\ q.anchorAt = r.anchorAt /\ q.ping = r.ping
      /\ q.runnerAt = r.runnerAt /\ q.downedAt = r.downedAt
      /\ q.revive = r.revive /\ q.revivedAt = r.revivedAt
      /\ q.reviveCount = r.reviveCount /\ q.wardenAt = r.wardenAt
      /\ q.outcome = outcome /\ q.terminalAt = e
  BY DEF EndedRow, Rows
<1> HIDE DEF q
<1>3. AcceptedTimes(q) = AcceptedTimes(r)
  BY <1>2 DEF AcceptedTimes
<1>4. q = EndedRow(r, outcome, e)
  BY DEF q
<1> QED
  BY <1>1, <1>2, <1>3 DEF q

\* The ended row says what the committed end is.
LEMMA EndedSays ==
    ASSUME NEW r \in Rows, NEW u \in CooperationStates, Says(r, u), r.outcome = "None",
           NEW outcome \in Outcomes, NEW e \in Elapsed
    PROVE  Says(EndedRow(r, outcome, e), CommitTerminal(u, outcome))
<1> DEFINE q == EndedRow(r, outcome, e)
           t == CommitTerminal(u, outcome)
<1>1. /\ q.start = r.start /\ q.profile = r.profile /\ q.admitted = r.admitted
      /\ q.health = r.health /\ q.life = r.life /\ q.phase = r.phase
      /\ q.flags = r.flags /\ q.ping = r.ping /\ q.downedAt = r.downedAt
      /\ q.revive = r.revive /\ q.reviveCount = r.reviveCount /\ q.outcome = outcome
  BY EndedColumns
<1>2. /\ t.start = u.start /\ t.profile = u.profile /\ t.admitted = u.admitted
      /\ t.health = u.health /\ t.life = u.life /\ t.contributions = u.contributions
      /\ t.phase = (IF outcome = "Succeeded" THEN "Succeeded" ELSE "Failed")
      /\ t.ping = u.ping /\ t.downedAt = u.downedAt /\ t.channel = None
      /\ t.completedRevive = u.completedRevive /\ t.reviveCount = u.reviveCount
      /\ t.terminal = outcome
  BY DEF CommitTerminal, CooperationStates
<1>3. outcome # "None"
  BY DEF Outcomes, Failures, Timeouts
<1> HIDE DEF q, t
<1>4. Says(q, t)
  BY <1>1, <1>2, <1>3 DEF Says
<1> QED
  BY <1>4 DEF q, t

\* The columns of an end are again a row, when they say what it computed.
LEMMA RowEnds ==
    ASSUME NEW r, NEW q \in Rows, NEW e \in Elapsed, RowInv(r, e), r.outcome = "None",
           q.outcome \in Outcomes, q.terminalAt = e, q.phase = r.phase, SameCalls(r, q),
           NEW t, StepOf(Meaning(r), t, e), t.terminal = q.outcome,
           t = Ending(q.outcome, Fallen(q), Meaning(r), e).state,
           q.outcome = "FailedParticipantDefeated" =>
               \E role \in Roles : {x \in Roles : q.life[x] = "Defeated"} = {role},
           RowChecks(q), Says(q, t),
           AcceptedTimes(q) \subseteq AcceptedTimes(r) \cup {e}
    PROVE  RowInv(q, e) /\ Meaning(q) = t /\ Rebuilt(q) = Rebuilt(r)
<1>0. Consistent(t) /\ InTime(t, e)
  BY StepConsistent, StepInTime DEF RowInv
<1>1. Meaning(q) = t
  BY <1>0, SaysAll DEF Consistent
<1>2. /\ Taken(Rebuilt(r)) /\ Rebuilt(r).state = Meaning(r) /\ Meaning(r).phase = r.phase
  BY LiveRow DEF Meaning
<1>3. Rebuilt(q) = Rebuilt(r)
  BY SameCallsSameReplay
<1>4. q.outcome # "None"
  BY DEF Outcomes, Failures, Timeouts
<1>5. Loaded(q) = t
  BY <1>2, <1>3, <1>4 DEF Loaded
<1>6. Loads(q)
  <2>1. q.runnerAt = q.downedAt /\ (q.wardenAt # None <=> "warden_completed" \in q.flags)
    BY DEF RowChecks
  <2>2. Parity(q, t)
    BY <2>1 DEF Parity, Says
  <2> QED
    BY <1>2, <1>3, <1>5, <2>2 DEF Loads
<1>7. \A at \in AcceptedTimes(q) : at <= e
  BY DEF RowInv, Elapsed
<1> QED
  BY <1>0, <1>1, <1>3, <1>4, <1>5, <1>6, <1>7 DEF RowInv

\* The row q is r after an end at the time e, which the subject brought about.
EndsAs(r, q, subject, e) ==
    /\ RowInv(q, e) /\ SameCalls(r, q) /\ q.phase = r.phase
    /\ q.outcome \in Outcomes /\ q.terminalAt = e
    /\ StepOf(Meaning(r), Meaning(q), e)
    /\ Ending(q.outcome, subject, Meaning(r), e) =
          Result(Meaning(q), IF q.outcome \in Timeouts THEN "Expired" ELSE "Applied")
    /\ subject # None <=> q.outcome \in {"FailedParticipantDefeated", "AbandonedDisconnect"}
    /\ q.outcome = "AbandonedDisconnect" \/ subject = Fallen(q)

\* The times of a running row are within the limits.
LEMMA LiveTimes ==
    ASSUME NEW r, NEW e \in Elapsed, RowInv(r, e), r.outcome = "None"
    PROVE  /\ \A at \in AcceptedTimes(r) : at \in Nat /\ at <= e /\ at <= OperationDuration
           /\ r.phase = "AwaitingRunner" => r.ping # None /\ r.ping.at \in AcceptedTimes(r)
           /\ r.phase \in {"RunnerDowned", "ReviveChannel"} =>
                 r.downedAt # None /\ r.downedAt \in AcceptedTimes(r)
<1>1. r \in Rows /\ RowChecks(r)
  BY DEF RowInv
<1>2. AcceptedTimes(r) \subseteq Elapsed
  BY <1>1 DEF AcceptedTimes, Rows, OperationRecords
<1>3. \A at \in AcceptedTimes(r) : at <= e /\ at <= OperationDuration
  BY <1>1 DEF RowInv, RowChecks
<1>4. r.phase = "AwaitingRunner" => r.ping # None
  BY LiveColumns DEF RecordedIn
<1>5. r.phase \in {"RunnerDowned", "ReviveChannel"} => r.downedAt # None
  BY LiveColumns DEF RecordedIn
<1>6. r.ping # None => r.ping.at # None /\ r.ping.at \in AcceptedTimes(r)
  BY <1>1, NoneAssumption DEF Rows, OperationRecords, AcceptedTimes
<1>7. r.downedAt = r.runnerAt /\ (r.runnerAt # None => r.runnerAt \in AcceptedTimes(r))
  BY <1>1 DEF RowChecks, AcceptedTimes
<1> QED
  BY <1>2, <1>3, <1>4, <1>5, <1>6, <1>7 DEF Elapsed

\* The deadlines of a row, as its columns have them.
LEMMA RowDeadlines ==
    ASSUME NEW r, NEW e \in Elapsed, RowInv(r, e), r.outcome = "None"
    PROVE  /\ PingExpired(Meaning(r), e) <=>
                 r.phase = "AwaitingRunner" /\ e > r.ping.at + PingTTL
           /\ ReviveExpired(Meaning(r), e) <=>
                 r.phase \in {"RunnerDowned", "ReviveChannel"} /\ e > r.downedAt + ReviveWindow
<1> DEFINE s == Meaning(r)
<1>1. s.phase = r.phase /\ s.ping = r.ping /\ s.downedAt = r.downedAt
  BY DEF Meaning
<1>2. r.phase = "AwaitingRunner" => r.ping.at \in Nat /\ r.ping.at <= OperationDuration
  BY LiveTimes
<1>3. r.phase \in {"RunnerDowned", "ReviveChannel"} =>
         r.downedAt \in Nat /\ r.downedAt <= OperationDuration
  BY LiveTimes
<1> HIDE DEF s
<1>4. PingExpired(s, e) <=> r.phase = "AwaitingRunner" /\ e > r.ping.at + PingTTL
  BY <1>1, <1>2, DurationsAssumption DEF PingExpired, StrictlyAfter, Elapsed
<1>5. ReviveExpired(s, e) <=>
         r.phase \in {"RunnerDowned", "ReviveChannel"} /\ e > r.downedAt + ReviveWindow
  BY <1>1, <1>3, DurationsAssumption DEF ReviveExpired, StrictlyAfter, Elapsed
<1> QED
  BY <1>4, <1>5 DEF s

\* A deadline that has passed.
LEMMA TimeoutEnds ==
    ASSUME NEW r, NEW e \in Elapsed, RowInv(r, e), r.outcome = "None",
           Expired(Meaning(r), e)
    PROVE  LET outcome == TimeoutAt(Meaning(r), e)
               q == EndedRow(r, outcome, e)
           IN  EndsAs(r, q, None, e) /\ Meaning(q) = CommitTerminal(Meaning(r), outcome)
<1> DEFINE s == Meaning(r)
           outcome == TimeoutAt(s, e)
           q == EndedRow(r, outcome, e)
           t == CommitTerminal(s, outcome)
<1>1. s \in CooperationStates /\ Running(s)
  BY LiveRow
<1>2. /\ r \in Rows /\ RowChecks(r) /\ r.terminalAt = None /\ r.wardenAt = None
      /\ "warden_completed" \notin r.flags
  BY LiveColumns DEF RowChecks
<1>3. outcome \in Timeouts
  BY DEF TimeoutAt, Timeouts
<1>4. outcome \in Outcomes /\ outcome \notin {"None", "Succeeded", "FailedParticipantDefeated",
                                             "AbandonedDisconnect"}
  BY <1>3 DEF Outcomes, Failures, Timeouts
<1>5. Says(r, s)
  BY MeaningFields
<1>6. Says(q, t)
  BY <1>1, <1>2, <1>4, <1>5, EndedSays
<1>7. /\ outcome = "FailedPingTimeout" => PingExpired(s, e)
      /\ outcome = "FailedReviveTimeout" => ReviveExpired(s, e)
      /\ outcome = "FailedOperationTimeout" =>
            e > OperationDuration /\ ~PingExpired(s, e) /\ ~ReviveExpired(s, e)
  BY DEF TimeoutAt, Expired
<1>8. ObserveDeadlines(s, e) = Result(t, "Expired")
  BY <1>1 DEF ObserveDeadlines, Observe
<1>9. StepOf(s, t, e) /\ t.terminal = outcome
  BY <1>1, CommitTerminalSets DEF StepOf
<1>10. /\ r.phase = "AwaitingRunner" => r.ping.at \in Nat
       /\ r.phase \in {"RunnerDowned", "ReviveChannel"} => r.downedAt \in Nat
  BY LiveTimes
<1>11. /\ outcome = "FailedPingTimeout" =>
              r.phase = "AwaitingRunner" /\ e > r.ping.at + PingTTL
       /\ outcome = "FailedReviveTimeout" =>
              r.phase \in {"RunnerDowned", "ReviveChannel"} /\ e > r.downedAt + ReviveWindow
       /\ outcome = "FailedOperationTimeout" =>
              /\ e > OperationDuration
              /\ r.phase = "AwaitingRunner" => ~(e > r.ping.at + PingTTL)
              /\ r.phase \in {"RunnerDowned", "ReviveChannel"} =>
                    ~(e > r.downedAt + ReviveWindow)
  BY <1>7, RowDeadlines
<1>12. /\ q \in Rows
       /\ q.health = r.health /\ q.life = r.life /\ q.phase = r.phase
       /\ q.flags = r.flags /\ q.anchorAt = r.anchorAt /\ q.ping = r.ping
       /\ q.runnerAt = r.runnerAt /\ q.downedAt = r.downedAt
       /\ q.revive = r.revive /\ q.revivedAt = r.revivedAt
       /\ q.reviveCount = r.reviveCount /\ q.wardenAt = r.wardenAt
       /\ q.outcome = outcome /\ q.terminalAt = e
       /\ AcceptedTimes(q) = AcceptedTimes(r) /\ SameCalls(r, q)
  BY <1>2, <1>4, EndedColumns DEF SameCalls
<1> HIDE DEF q, t, outcome
<1>13. RowChecks(q)
  <2>1. \A at \in AcceptedTimes(q) : at <= e /\ at <= OperationDuration
    BY <1>12, LiveTimes
  <2>2. e # None /\ e \in Nat
    BY NoneAssumption DEF Elapsed
  <2>3. /\ r.phase = "AwaitingRunner" =>
              (~(e > r.ping.at + PingTTL) => e <= r.ping.at + PingTTL)
        /\ r.phase \in {"RunnerDowned", "ReviveChannel"} =>
              (~(e > r.downedAt + ReviveWindow) => e <= r.downedAt + ReviveWindow)
    BY <1>10, <2>2, DurationsAssumption
  <2> QED
    BY <1>2, <1>4, <1>11, <1>12, <2>1, <2>2, <2>3 DEF RowChecks
<1>14. Fallen(q) = None
  BY <1>4, <1>12 DEF Fallen
<1>15. Ending(outcome, None, s, e) = Result(t, "Expired")
  BY <1>3, <1>4, <1>8 DEF Ending
<1> HIDE DEF s
<1>16. RowInv(q, e) /\ Meaning(q) = t
  <2>1. StepOf(Meaning(r), t, e) /\ t = Ending(q.outcome, Fallen(q), Meaning(r), e).state
    BY <1>9, <1>12, <1>14, <1>15 DEF s, Result
  <2> QED
    BY <1>4, <1>6, <1>9, <1>12, <1>13, <2>1, RowEnds
<1> QED
  BY <1>3, <1>4, <1>9, <1>12, <1>14, <1>15, <1>16 DEF EndsAs, s, q, t, outcome

\* A departure before any deadline.
LEMMA AbandonEnds ==
    ASSUME NEW r, NEW e \in Elapsed, RowInv(r, e), r.outcome = "None",
           ~Expired(Meaning(r), e), NEW role \in Roles
    PROVE  LET q == EndedRow(r, "AbandonedDisconnect", e)
           IN  /\ EndsAs(r, q, role, e)
               /\ Meaning(q) = CommitTerminal(Meaning(r), "AbandonedDisconnect")
<1> DEFINE s == Meaning(r)
           outcome == "AbandonedDisconnect"
           q == EndedRow(r, outcome, e)
           t == CommitTerminal(s, outcome)
<1>1. s \in CooperationStates /\ Running(s)
  BY LiveRow
<1>2. /\ r \in Rows /\ RowChecks(r) /\ r.terminalAt = None /\ r.wardenAt = None
      /\ "warden_completed" \notin r.flags
  BY LiveColumns DEF RowChecks
<1>3. outcome \in Outcomes /\ outcome \notin Timeouts
  BY DEF Outcomes, Failures, Timeouts
<1>4. Says(q, t)
  BY <1>1, <1>2, <1>3, MeaningFields, EndedSays
<1>5. /\ r.phase = "AwaitingRunner" => ~(e > r.ping.at + PingTTL)
      /\ r.phase \in {"RunnerDowned", "ReviveChannel"} => ~(e > r.downedAt + ReviveWindow)
      /\ e <= OperationDuration
  BY RowDeadlines, DurationsAssumption DEF Expired, Elapsed
<1>6. Disconnect(s, e) = Result(t, "Applied")
  BY <1>1 DEF Disconnect, Observe, Running
<1>7. StepOf(s, t, e) /\ t.terminal = outcome
  BY <1>1, CommitTerminalSets DEF StepOf, LiveStepOf
<1>8. /\ r.phase = "AwaitingRunner" => r.ping.at \in Nat
      /\ r.phase \in {"RunnerDowned", "ReviveChannel"} => r.downedAt \in Nat
  BY LiveTimes
<1>9. /\ q \in Rows
      /\ q.health = r.health /\ q.life = r.life /\ q.phase = r.phase
      /\ q.flags = r.flags /\ q.anchorAt = r.anchorAt /\ q.ping = r.ping
      /\ q.runnerAt = r.runnerAt /\ q.downedAt = r.downedAt
      /\ q.revive = r.revive /\ q.revivedAt = r.revivedAt
      /\ q.reviveCount = r.reviveCount /\ q.wardenAt = r.wardenAt
      /\ q.outcome = outcome /\ q.terminalAt = e
      /\ AcceptedTimes(q) = AcceptedTimes(r) /\ SameCalls(r, q)
  BY <1>2, <1>3, EndedColumns DEF SameCalls
<1> HIDE DEF q, t
<1>10. RowChecks(q)
  <2>1. \A at \in AcceptedTimes(q) : at <= e /\ at <= OperationDuration
    BY <1>9, LiveTimes
  <2>2. e # None /\ e \in Nat
    BY NoneAssumption DEF Elapsed
  <2>3. /\ r.phase = "AwaitingRunner" => e <= r.ping.at + PingTTL
        /\ r.phase \in {"RunnerDowned", "ReviveChannel"} => e <= r.downedAt + ReviveWindow
    BY <1>5, <1>8, <2>2, DurationsAssumption
  <2> QED
    BY <1>2, <1>5, <1>9, <2>1, <2>2, <2>3 DEF RowChecks
<1>11. Fallen(q) = None
  BY <1>9 DEF Fallen
<1>12. \A x : Ending(outcome, x, s, e) = Result(t, "Applied")
  BY <1>3, <1>6 DEF Ending
<1> HIDE DEF s
<1>13. RowInv(q, e) /\ Meaning(q) = t
  <2>1. StepOf(Meaning(r), t, e) /\ t = Ending(q.outcome, Fallen(q), Meaning(r), e).state
    BY <1>7, <1>9, <1>12 DEF s, Result
  <2> QED
    BY <1>3, <1>4, <1>7, <1>9, <1>10, <2>1, RowEnds
<1>14. role # None
  BY NoneAssumption
<1> QED
  BY <1>3, <1>7, <1>9, <1>12, <1>13, <1>14 DEF EndsAs, s, q, t

StruckRow(r, role) ==
    [r EXCEPT !.health = [r.health EXCEPT ![role] = 0],
              !.life = [r.life EXCEPT ![role] = "Defeated"]]

\* A defeat before any deadline: the row tells who fell.
LEMMA DefeatEnds ==
    ASSUME NEW r, NEW e \in Elapsed, RowInv(r, e), r.outcome = "None",
           ~Expired(Meaning(r), e), NEW role \in Roles, r.phase = "EncounterActive"
    PROVE  LET q == EndedRow(StruckRow(r, role), "FailedParticipantDefeated", e)
           IN  /\ EndsAs(r, q, role, e)
               /\ Meaning(q) = CommitTerminal(Strike(Meaning(r), role),
                                              "FailedParticipantDefeated")
<1> DEFINE s == Meaning(r)
           u == Strike(s, role)
           outcome == "FailedParticipantDefeated"
           w == StruckRow(r, role)
           q == EndedRow(w, outcome, e)
           t == CommitTerminal(u, outcome)
           h == [r.health EXCEPT ![role] = 0]
           l == [r.life EXCEPT ![role] = "Defeated"]
<1>1. s \in CooperationStates /\ Running(s) /\ s.phase = "EncounterActive" /\ Says(r, s)
  BY LiveRow, MeaningFields DEF Says
<1>2. /\ r \in Rows /\ RowChecks(r) /\ r.terminalAt = None /\ r.wardenAt = None
      /\ "warden_completed" \notin r.flags
  BY LiveColumns DEF RowChecks
<1>3. outcome \in Outcomes /\ outcome \notin Timeouts
  BY DEF Outcomes, Failures, Timeouts
<1>4. h \in [Roles -> Nat] /\ l \in [Roles -> LifeStates]
  BY <1>2 DEF Rows, LifeStates
<1>5. \A x \in Roles : r.life[x] # "Defeated"
  BY <1>1 DEF RowInv, Consistent, LifeAgrees, Running, Says
<1>6. /\ \A x \in Roles : (l[x] = "Active") <=> h[x] > 0
      /\ \A x \in Roles : l[x] = "Defeated" <=> x = role
  BY <1>2, <1>5 DEF RowChecks, Rows
<1>7. /\ w \in Rows /\ w.health = h /\ w.life = l
      /\ w.start = r.start /\ w.profile = r.profile /\ w.admitted = r.admitted
      /\ w.phase = r.phase /\ w.outcome = "None" /\ w.terminalAt = None
      /\ w.flags = r.flags /\ w.anchorAt = r.anchorAt /\ w.ping = r.ping
      /\ w.runnerAt = r.runnerAt /\ w.downedAt = r.downedAt
      /\ w.revive = r.revive /\ w.revivedAt = r.revivedAt
      /\ w.reviveCount = r.reviveCount /\ w.wardenAt = r.wardenAt
  <2> HIDE DEF h, l
  <2>1. [r EXCEPT !.health = h, !.life = l] \in Rows
    BY <1>2, <1>4, RowUpdates
  <2>2. w = [r EXCEPT !.health = h, !.life = l]
    BY DEF StruckRow, h, l
  <2> QED
    BY <1>2, <2>1, <2>2 DEF Rows
<1>8. u \in CooperationStates /\ Says(w, u)
  <2>1. u = [s EXCEPT !.health = h, !.life = l]
    BY <1>1 DEF Strike, Says
  <2>2. s \in CooperationStates /\ Says(r, s)
    BY <1>1
  <2> HIDE DEF h, l, u, w, s
  <2>3. u \in CooperationStates
    BY <1>4, <2>1, <2>2 DEF CooperationStates
  <2>4. /\ u.start = s.start /\ u.profile = s.profile /\ u.admitted = s.admitted
        /\ u.health = h /\ u.life = l /\ u.contributions = s.contributions
        /\ u.phase = s.phase /\ u.ping = s.ping /\ u.downedAt = s.downedAt
        /\ u.channel = s.channel /\ u.completedRevive = s.completedRevive
        /\ u.reviveCount = s.reviveCount /\ u.terminal = s.terminal
    BY <2>1, <2>2 DEF CooperationStates
  <2> QED
    BY <1>7, <2>2, <2>3, <2>4 DEF Says
<1>9. Says(q, t)
  BY <1>3, <1>7, <1>8, EndedSays
<1>10. e <= OperationDuration
  BY DurationsAssumption DEF Expired, Elapsed
<1>11. DefeatParticipant(s, role, e) = Result(t, "Applied")
  BY <1>1 DEF DefeatParticipant, Observe
<1>12. StepOf(s, t, e) /\ t.terminal = outcome
  BY <1>1, <1>8, CommitTerminalSets DEF StepOf, LiveStepOf
<1>13. AcceptedTimes(w) = AcceptedTimes(r)
  <2> HIDE DEF w
  <2> QED
    BY <1>7 DEF AcceptedTimes
<1>14. /\ q \in Rows
       /\ q.health = h /\ q.life = l /\ q.phase = r.phase
       /\ q.flags = r.flags /\ q.anchorAt = r.anchorAt /\ q.ping = r.ping
       /\ q.runnerAt = r.runnerAt /\ q.downedAt = r.downedAt
       /\ q.revive = r.revive /\ q.revivedAt = r.revivedAt
       /\ q.reviveCount = r.reviveCount /\ q.wardenAt = r.wardenAt
       /\ q.outcome = outcome /\ q.terminalAt = e
       /\ AcceptedTimes(q) = AcceptedTimes(r) /\ SameCalls(r, q)
  <2> HIDE DEF w, h, l
  <2> QED
    BY <1>3, <1>7, <1>13, EndedColumns DEF SameCalls
<1> HIDE DEF q, t, w, u, h, l
<1>15. RowChecks(q)
  <2>1. \A at \in AcceptedTimes(q) : at <= e /\ at <= OperationDuration
    BY <1>14, LiveTimes
  <2>2. e # None /\ e \in Nat
    BY NoneAssumption DEF Elapsed
  <2> QED
    BY <1>2, <1>6, <1>10, <1>14, <2>1, <2>2 DEF RowChecks
<1>16. {x \in Roles : q.life[x] = "Defeated"} = {role} /\ Fallen(q) = role
  BY <1>6, <1>14 DEF Fallen
<1>17. Ending(outcome, role, s, e) = Result(t, "Applied")
  BY <1>3, <1>11 DEF Ending
<1> HIDE DEF s
<1>18. RowInv(q, e) /\ Meaning(q) = t
  <2>1. StepOf(Meaning(r), t, e) /\ t = Ending(q.outcome, Fallen(q), Meaning(r), e).state
    BY <1>12, <1>14, <1>16, <1>17 DEF s, Result
  <2> QED
    BY <1>3, <1>9, <1>12, <1>14, <1>15, <1>16, <2>1, RowEnds
<1>19. role # None
  BY NoneAssumption
<1> QED
  BY <1>3, <1>12, <1>14, <1>16, <1>17, <1>18, <1>19 DEF EndsAs, s, q, t, u, w

CountedRow(r, e) == [r EXCEPT !.wardenAt = e, !.flags = @ \cup {"warden_completed"}]

\* The Warden is completed in time.
LEMMA SuccessEnds ==
    ASSUME NEW r, NEW e \in Elapsed, RowInv(r, e), r.outcome = "None",
           ~Expired(Meaning(r), e), r.phase = "EncounterActive"
    PROVE  LET q == EndedRow(CountedRow(r, e), "Succeeded", e)
           IN  /\ EndsAs(r, q, None, e)
               /\ Meaning(q) = CommitTerminal(CountWarden(Meaning(r)), "Succeeded")
<1> DEFINE s == Meaning(r)
           u == CountWarden(s)
           outcome == "Succeeded"
           w == CountedRow(r, e)
           q == EndedRow(w, outcome, e)
           t == CommitTerminal(u, outcome)
           c == r.flags \cup {"warden_completed"}
<1>1. s \in CooperationStates /\ Running(s) /\ s.phase = "EncounterActive" /\ Says(r, s)
  BY LiveRow, MeaningFields DEF Says
<1>2. /\ r \in Rows /\ RowChecks(r) /\ r.terminalAt = None /\ r.wardenAt = None
      /\ r.flags = RecordedIn["EncounterActive"] /\ r.revivedAt # None
  BY <1>1, LiveColumns DEF Says, RecordedIn
<1>3. outcome \in Outcomes /\ outcome \notin Timeouts
  BY DEF Outcomes, Failures, Timeouts
<1>4. c = Contributions
  BY <1>2 DEF RecordedIn, Contributions
<1>5. /\ w \in Rows /\ w.health = r.health /\ w.life = r.life
      /\ w.start = r.start /\ w.profile = r.profile /\ w.admitted = r.admitted
      /\ w.phase = r.phase /\ w.outcome = "None" /\ w.terminalAt = None
      /\ w.flags = c /\ w.anchorAt = r.anchorAt /\ w.ping = r.ping
      /\ w.runnerAt = r.runnerAt /\ w.downedAt = r.downedAt
      /\ w.revive = r.revive /\ w.revivedAt = r.revivedAt
      /\ w.reviveCount = r.reviveCount /\ w.wardenAt = e
  <2>1. w = [r EXCEPT !.wardenAt = e, !.flags = c]
    BY DEF CountedRow
  <2>2. c \in SUBSET Contributions
    BY <1>4
  <2> HIDE DEF c
  <2>3. [r EXCEPT !.wardenAt = e, !.flags = c] \in Rows
    BY <1>2, <2>2, RowUpdates
  <2> HIDE DEF w
  <2> QED
    BY <1>2, <2>1, <2>3 DEF Rows
<1>6. u \in CooperationStates /\ Says(w, u)
  <2>1. u = [s EXCEPT !.contributions = c]
    BY <1>1 DEF CountWarden, Says
  <2>2. s \in CooperationStates /\ Says(r, s) /\ c \in SUBSET Contributions
    BY <1>1, <1>4
  <2>3. "revived" \in r.flags <=> "revived" \in c
    OBVIOUS
  <2> HIDE DEF c, u, w, s
  <2>4. u \in CooperationStates
    BY <2>1, <2>2 DEF CooperationStates
  <2>5. /\ u.start = s.start /\ u.profile = s.profile /\ u.admitted = s.admitted
        /\ u.health = s.health /\ u.life = s.life /\ u.contributions = c
        /\ u.phase = s.phase /\ u.ping = s.ping /\ u.downedAt = s.downedAt
        /\ u.channel = s.channel /\ u.completedRevive = s.completedRevive
        /\ u.reviveCount = s.reviveCount /\ u.terminal = s.terminal
    BY <2>1, <2>2 DEF CooperationStates
  <2> QED
    BY <1>5, <2>2, <2>3, <2>4, <2>5 DEF Says
<1>7. Says(q, t)
  BY <1>3, <1>5, <1>6, EndedSays
<1>8. e <= OperationDuration
  BY DurationsAssumption DEF Expired, Elapsed
<1>9. CompleteWarden(s, e) = Result(t, "Applied")
  <2>1. u.contributions = Contributions
    BY <1>1, <1>4 DEF CountWarden, Says, CooperationStates
  <2>2. s.terminal # "Succeeded"
    BY <1>1 DEF Running
  <2> QED
    BY <1>1, <2>1, <2>2 DEF CompleteWarden, Observe
<1>10. StepOf(s, t, e) /\ t.terminal = outcome
  BY <1>1, <1>6, CommitTerminalSets DEF StepOf, LiveStepOf
<1>11. AcceptedTimes(w) = AcceptedTimes(r) \cup {e}
  <2>1. e # None
    BY NoneAssumption
  <2> HIDE DEF w
  <2> QED
    BY <1>2, <1>5, <2>1 DEF AcceptedTimes
<1>12. /\ q \in Rows
       /\ q.health = r.health /\ q.life = r.life /\ q.phase = r.phase
       /\ q.flags = c /\ q.anchorAt = r.anchorAt /\ q.ping = r.ping
       /\ q.runnerAt = r.runnerAt /\ q.downedAt = r.downedAt
       /\ q.revive = r.revive /\ q.revivedAt = r.revivedAt
       /\ q.reviveCount = r.reviveCount /\ q.wardenAt = e
       /\ q.outcome = outcome /\ q.terminalAt = e
       /\ AcceptedTimes(q) = AcceptedTimes(r) \cup {e} /\ SameCalls(r, q)
  <2> HIDE DEF w, c
  <2> QED
    BY <1>3, <1>5, <1>11, EndedColumns DEF SameCalls
<1> HIDE DEF q, t, w, u
<1>13. RowChecks(q)
  <2>1. e # None /\ e \in Nat
    BY NoneAssumption DEF Elapsed
  <2>2. \A at \in AcceptedTimes(q) : at <= e /\ at <= OperationDuration
    BY <1>8, <1>12, <2>1, LiveTimes
  <2>3. r.revivedAt <= e
    BY <1>2, LiveTimes DEF AcceptedTimes
  <2>4. \A x \in Contributions \ {"warden_completed"} : x \in c <=> x \in r.flags
    BY DEF Contributions
  <2>5. c \ {"warden_completed"} = RecordedIn["EncounterActive"] /\ "warden_completed" \in c
    BY <1>4 DEF Contributions, RecordedIn
  <2>6. r.phase = "EncounterActive"
    BY <1>1 DEF Says
  <2> HIDE DEF c
  <2> QED
    BY <1>2, <1>12, <2>1, <2>2, <2>3, <2>4, <2>5, <2>6 DEF RowChecks, Contributions
<1>14. Fallen(q) = None
  BY <1>12 DEF Fallen
<1>15. Ending(outcome, None, s, e) = Result(t, "Applied")
  BY <1>3, <1>9 DEF Ending
<1> HIDE DEF s, c
<1>16. RowInv(q, e) /\ Meaning(q) = t
  <2>1. StepOf(Meaning(r), t, e) /\ t = Ending(q.outcome, Fallen(q), Meaning(r), e).state
    BY <1>10, <1>12, <1>14, <1>15 DEF s, Result
  <2> QED
    BY <1>3, <1>7, <1>10, <1>12, <1>13, <2>1, RowEnds
<1> QED
  BY <1>3, <1>10, <1>12, <1>14, <1>15, <1>16 DEF EndsAs, s, q, t, u, w

-----------------------------------------------------------------------------
(* The evidence: what is read of a stream does not depend on what follows   *)

Agree(log, more, n) == n \in Nat /\ \A j \in 1 .. n : more[j] = log[j]

\* Two streams that agree up to an event are read alike up to it.
LEMMA ReadAlike ==
    ASSUME NEW log, NEW more, NEW n, Agree(log, more, n)
    PROVE  \A m \in 0 .. n :
              /\ \A kinds : /\ OfKinds(more, m, kinds) = OfKinds(log, m, kinds)
                            /\ Rewards(more, m, kinds) = Rewards(log, m, kinds)
              /\ \A kind : /\ Said(more, m, kind) = Said(log, m, kind)
                           /\ The(more, m, kind) = The(log, m, kind)
                           /\ Has(more, m, kind) <=> Has(log, m, kind)
                           /\ ByRole(more, m, kind) = ByRole(log, m, kind)
                           /\ Granted(more, m, kind) = Granted(log, m, kind)
<1> USE DEF Agree
<1>1. ASSUME NEW m \in 0 .. n, NEW kinds
      PROVE  OfKinds(more, m, kinds) = OfKinds(log, m, kinds)
  <2>1. \A j \in 1 .. m : j \in 1 .. n
    OBVIOUS
  <2> QED
    BY <2>1 DEF OfKinds
<1>2. ASSUME NEW m \in 0 .. n, NEW kinds
      PROVE  \A j \in OfKinds(log, m, kinds) : j \in 1 .. n /\ j - 1 \in 0 .. n
  BY DEF OfKinds
<1>3. ASSUME NEW m \in 0 .. n, NEW kind
      PROVE  /\ Said(more, m, kind) = Said(log, m, kind)
             /\ Has(more, m, kind) <=> Has(log, m, kind)
             /\ ByRole(more, m, kind) = ByRole(log, m, kind)
  BY <1>1, <1>2 DEF Said, Has, ByRole
<1>4. ASSUME NEW m \in 0 .. n, NEW kind
      PROVE  The(more, m, kind) = The(log, m, kind)
  BY <1>3 DEF The
<1>5. ASSUME NEW m \in 0 .. n, NEW kinds
      PROVE  Rewards(more, m, kinds) = Rewards(log, m, kinds)
  <2>1. \A j \in OfKinds(log, m, kinds) :
           Has(more, j - 1, "cooperation_started") <=> Has(log, j - 1, "cooperation_started")
    BY <1>2, <1>3
  <2> QED
    BY <1>1, <2>1 DEF Rewards
<1>6. ASSUME NEW m \in 0 .. n, NEW kind
      PROVE  Granted(more, m, kind) = Granted(log, m, kind)
  <2>1. \A j \in Rewards(log, m, {kind}) : j \in 1 .. n
    BY <1>2 DEF Rewards
  <2> QED
    BY <1>5, <2>1 DEF Granted
<1> QED
  BY <1>1, <1>3, <1>4, <1>5, <1>6

\* An event that fits a stream fits it still when the stream goes on.
LEMMA FitsStill ==
    ASSUME NEW log, NEW more, NEW n, Agree(log, more, n),
           NEW i \in 1 .. n, Fits(log, i)
    PROVE  Fits(more, i)
<1> DEFINE m == i - 1
<1>0. n \in Nat /\ \A j \in 1 .. n : more[j] = log[j]
  BY DEF Agree
<1>1. m \in 0 .. n /\ more[i] = log[i]
  BY <1>0
<1>2. /\ \A kinds : /\ OfKinds(more, m, kinds) = OfKinds(log, m, kinds)
                    /\ Rewards(more, m, kinds) = Rewards(log, m, kinds)
      /\ \A kind : /\ Said(more, m, kind) = Said(log, m, kind)
                   /\ The(more, m, kind) = The(log, m, kind)
                   /\ Has(more, m, kind) <=> Has(log, m, kind)
                   /\ ByRole(more, m, kind) = ByRole(log, m, kind)
                   /\ Granted(more, m, kind) = Granted(log, m, kind)
  BY <1>1, ReadAlike
<1>3. GenericFits(log, i) => GenericFits(more, i)
  BY <1>1, <1>2 DEF GenericFits
<1>4. RewardsFit(log, i) => RewardsFit(more, i)
  BY <1>1, <1>2 DEF RewardsFit
<1>5. StartFits(log, i) => StartFits(more, i)
  <2> HIDE DEF m
  <2>1. \A j \in 1 .. m : more[j] = log[j]
    BY <1>0 DEF m
  <2>2. m = i - 1
    BY DEF m
  <2> QED
    BY <1>1, <1>2, <2>1, <2>2 DEF StartFits
<1>6. \A c : ContributionsNamed(c, log, m) => ContributionsNamed(c, more, m)
  BY <1>2 DEF ContributionsNamed
<1>7. \A kind, d, started : TerminalValid(kind, d, started, log, m)
                               => TerminalValid(kind, d, started, more, m)
  BY <1>6 DEF TerminalValid
<1>8. Readable(log, i) => Readable(more, i)
  BY <1>1, <1>2, <1>7 DEF Readable
<1>9. FamilyFits(log, i) => FamilyFits(more, i)
  BY <1>1, <1>2, <1>4, <1>8 DEF FamilyFits
<1> QED
  BY <1>1, <1>2, <1>3, <1>5, <1>9 DEF Fits

\* One more event.
LEMMA Appended ==
    ASSUME NEW S, NEW log \in Seq(S), NEW event
    PROVE  LET more == Append(log, event)
               n == Len(log)
           IN  /\ n \in Nat /\ DOMAIN log = 1 .. n
               /\ more \in Seq(S \cup {event}) /\ Len(more) = n + 1
               /\ DOMAIN more = 1 .. n + 1
               /\ \A j \in 1 .. n : more[j] = log[j]
               /\ more[n + 1] = event
<1>1. log \in Seq(S \cup {event}) /\ Len(log) \in Nat
  BY SeqMonotonic
<1>2. /\ Append(log, event) \in Seq(S \cup {event})
      /\ Len(Append(log, event)) = Len(log) + 1
      /\ Append(log, event)[Len(log) + 1] = event
      /\ \A j \in 1 .. Len(log) : Append(log, event)[j] = log[j]
  BY <1>1
<1>3. DOMAIN log = 1 .. Len(log) /\ DOMAIN Append(log, event) = 1 .. Len(log) + 1
  BY <1>1, <1>2
<1> QED
  BY <1>1, <1>2, <1>3

\* It is read after the events before it.
LEMMA ReadBefore ==
    ASSUME NEW S, NEW log \in Seq(S), NEW event
    PROVE  LET more == Append(log, event)
               n == Len(log)
           IN  /\ \A kinds : /\ OfKinds(more, n, kinds) = OfKinds(log, n, kinds)
                             /\ Rewards(more, n, kinds) = Rewards(log, n, kinds)
               /\ \A kind : /\ Said(more, n, kind) = Said(log, n, kind)
                            /\ The(more, n, kind) = The(log, n, kind)
                            /\ Has(more, n, kind) <=> Has(log, n, kind)
                            /\ Granted(more, n, kind) = Granted(log, n, kind)
<1> DEFINE more == Append(log, event)
           n == Len(log)
<1>1. n \in 0 .. n /\ Agree(log, more, n)
  BY Appended DEF Agree
<1> HIDE DEF more, n
<1>2. /\ \A kinds : /\ OfKinds(more, n, kinds) = OfKinds(log, n, kinds)
                    /\ Rewards(more, n, kinds) = Rewards(log, n, kinds)
      /\ \A kind : /\ Said(more, n, kind) = Said(log, n, kind)
                   /\ The(more, n, kind) = The(log, n, kind)
                   /\ Has(more, n, kind) <=> Has(log, n, kind)
                   /\ Granted(more, n, kind) = Granted(log, n, kind)
  BY <1>1, ReadAlike
<1> QED
  BY <1>2 DEF more, n

\* What is read with it.
LEMMA ReadAppended ==
    ASSUME NEW S, NEW log \in Seq(S), NEW event
    PROVE  LET more == Append(log, event)
               n == Len(log)
           IN  /\ \A kinds :
                     /\ OfKinds(more, n + 1, kinds) = OfKinds(log, n, kinds)
                           \cup (IF event.kind \in kinds THEN {n + 1} ELSE {})
                     /\ Rewards(more, n + 1, kinds) = Rewards(log, n, kinds)
                           \cup (IF event.kind \in kinds /\ Has(log, n, "cooperation_started")
                                 THEN {n + 1} ELSE {})
                     /\ n + 1 \notin OfKinds(log, n, kinds)
               /\ \A kind :
                     Said(more, n + 1, kind) = Said(log, n, kind)
                           \cup (IF event.kind = kind THEN {event.data} ELSE {})
               /\ \A kind :
                     Granted(more, n + 1, kind) = Granted(log, n, kind)
                           \cup (IF event.kind = kind /\ Has(log, n, "cooperation_started")
                                 THEN {event.role} ELSE {})
<1> DEFINE more == Append(log, event)
           n == Len(log)
<1>1. n \in Nat /\ more[n + 1] = event /\ \A j \in 1 .. n : more[j] = log[j]
  BY Appended
<1>2. 1 .. n + 1 = (1 .. n) \cup {n + 1} /\ n + 1 \notin 1 .. n /\ n \in 0 .. n
  BY <1>1
<1>3. (n + 1) - 1 = n
  BY <1>1
<1> HIDE DEF more, n
<1>4. ASSUME NEW kinds
      PROVE  /\ OfKinds(more, n + 1, kinds) = OfKinds(log, n, kinds)
                   \cup (IF event.kind \in kinds THEN {n + 1} ELSE {})
             /\ n + 1 \notin OfKinds(log, n, kinds)
             /\ OfKinds(log, n, kinds) \subseteq 1 .. n
  BY <1>1, <1>2 DEF OfKinds
<1>5. ASSUME NEW kinds
      PROVE  Rewards(more, n + 1, kinds) = Rewards(log, n, kinds)
                \cup (IF event.kind \in kinds /\ Has(log, n, "cooperation_started")
                      THEN {n + 1} ELSE {})
  <2>1. \A j \in 1 .. n : j - 1 \in 0 .. n
    BY <1>1
  <2>2. \A j \in 1 .. n + 1 :
           Has(more, j - 1, "cooperation_started") <=> Has(log, j - 1, "cooperation_started")
    <3>1. Agree(log, more, n)
      BY <1>1 DEF Agree
    <3> QED
      BY <1>2, <1>3, <2>1, <3>1, ReadAlike
  <2> QED
    BY <1>2, <1>3, <1>4, <2>2 DEF Rewards
<1>6. ASSUME NEW kind
      PROVE  Said(more, n + 1, kind) = Said(log, n, kind)
                \cup (IF event.kind = kind THEN {event.data} ELSE {})
  <2>1. \A j \in OfKinds(log, n, {kind}) : more[j] = log[j]
    BY <1>1, <1>4
  <2> DEFINE before == OfKinds(log, n, {kind})
             after  == OfKinds(more, n + 1, {kind})
  <2>2. CASE event.kind = kind
    <3>1. after = before \cup {n + 1}
      BY <1>4, <2>2
    <3> HIDE DEF before, after
    <3>2. {more[j].data : j \in after} = {more[j].data : j \in before} \cup {event.data}
      BY <1>1, <3>1
    <3>3. {more[j].data : j \in before} = {log[j].data : j \in before}
      BY <2>1 DEF before
    <3> QED
      BY <2>2, <3>2, <3>3 DEF Said, before, after
  <2>3. CASE event.kind # kind
    <3>1. after = before
      BY <1>4, <2>3
    <3> HIDE DEF before, after
    <3>2. {more[j].data : j \in before} = {log[j].data : j \in before}
      BY <2>1 DEF before
    <3> QED
      BY <2>3, <3>1, <3>2 DEF Said, before, after
  <2> QED
    BY <2>2, <2>3
<1>7. ASSUME NEW kind
      PROVE  Granted(more, n + 1, kind) = Granted(log, n, kind)
                \cup (IF event.kind = kind /\ Has(log, n, "cooperation_started")
                      THEN {event.role} ELSE {})
  <2>1. \A j \in Rewards(log, n, {kind}) : more[j] = log[j]
    BY <1>1, <1>4 DEF Rewards
  <2> DEFINE before == Rewards(log, n, {kind})
             after  == Rewards(more, n + 1, {kind})
  <2>2. CASE event.kind = kind /\ Has(log, n, "cooperation_started")
    <3>1. after = before \cup {n + 1}
      BY <1>5, <2>2
    <3> HIDE DEF before, after
    <3>2. {more[j].role : j \in after} = {more[j].role : j \in before} \cup {event.role}
      BY <1>1, <3>1
    <3>3. {more[j].role : j \in before} = {log[j].role : j \in before}
      BY <2>1 DEF before
    <3> QED
      BY <2>2, <3>2, <3>3 DEF Granted, before, after
  <2>3. CASE ~(event.kind = kind /\ Has(log, n, "cooperation_started"))
    <3>1. after = before
      BY <1>5, <2>3
    <3> HIDE DEF before, after
    <3>2. {more[j].role : j \in before} = {log[j].role : j \in before}
      BY <2>1 DEF before
    <3> QED
      BY <2>3, <3>1, <3>2 DEF Granted, before, after
  <2> QED
    BY <2>2, <2>3
<1> QED
  BY <1>4, <1>5, <1>6, <1>7 DEF more, n

\* Every event fits.
AllFit(log) == \A i \in DOMAIN log : Fits(log, i)

\* A stream stays fitting when the event appended to it fits.
LEMMA FitAppended ==
    ASSUME NEW S, NEW log \in Seq(S), NEW event, AllFit(log),
           Fits(Append(log, event), Len(log) + 1)
    PROVE  AllFit(Append(log, event))
<1>1. /\ Len(log) \in Nat /\ DOMAIN log = 1 .. Len(log)
      /\ DOMAIN Append(log, event) = 1 .. Len(log) + 1
      /\ \A j \in 1 .. Len(log) : Append(log, event)[j] = log[j]
  BY Appended
<1>2. \A i \in 1 .. Len(log) : Fits(Append(log, event), i)
  <2>1. Agree(log, Append(log, event), Len(log))
    BY <1>1 DEF Agree
  <2> QED
    BY <1>1, <2>1, FitsStill DEF AllFit
<1>3. \A i \in 1 .. Len(log) + 1 : i \in 1 .. Len(log) \/ i = Len(log) + 1
  BY <1>1
<1> QED
  BY <1>1, <1>2, <1>3 DEF AllFit

\* An event of the operation that fits is accepted, after an accepted stream or, when it
\* ends the operation, after its rewards.
LEMMA FamilyAppended ==
    ASSUME NEW S, NEW log \in Seq(S), NEW event, AllFit(log),
           event.kind \in Family \ {"cooperation_started"},
           OfKinds(log, Len(log), Ends) = {},
           Rewards(log, Len(log), Generics) = {} \/ event.kind \in Ends,
           FamilyFits(Append(log, event), Len(log) + 1)
    PROVE  Accepted(Append(log, event))
<1> DEFINE more == Append(log, event)
           n == Len(log)
<1>1. /\ n \in Nat /\ Len(more) = n + 1 /\ more[n + 1] = event /\ (n + 1) - 1 = n
      /\ n \in 0 .. n /\ \A j \in 1 .. n : more[j] = log[j]
  BY Appended
<1>2. OfKinds(more, n, Ends) = {}
  BY ReadBefore
<1>3. event.kind \notin {"route_selected", "module_state_snapshot", "cooperation_started"}
                       \cup Generics
  BY DEF Family, Ends, Generics
<1>4. Fits(more, n + 1)
  <2> HIDE DEF more, n
  <2>1. FamilyFits(more, n + 1)
    BY DEF more, n
  <2> QED
    BY <1>1, <1>2, <1>3, <2>1 DEF Fits
<1>5. AllFit(more)
  BY <1>4, FitAppended
<1>6. OfKinds(more, n + 1, Ends) = {} => Rewards(more, n + 1, Generics) = {}
  <2>1. event.kind \in Ends => n + 1 \in OfKinds(more, n + 1, Ends)
    BY ReadAppended
  <2>2. event.kind \notin Ends => Rewards(more, n + 1, Generics) = {}
    BY <1>3, ReadAppended
  <2> QED
    BY <2>1, <2>2
<1> QED
  BY <1>1, <1>5, <1>6 DEF Accepted, AllFit

-----------------------------------------------------------------------------
(* The evidence of a row                                                    *)

Steps == {"cooperation_pinged", "player_downed", "player_revived"}

\* The stream says what the row says, and has one event for each contribution of a
\* running operation but the anchor's arrival.
EvidenceInv(r, log) ==
    /\ \E S : log \in Seq(S)
    /\ StreamMatches(r, log)
    /\ r.outcome = "None" =>
          Cardinality(OfKinds(log, Len(log), Steps)) = Cardinality(r.flags \ {"anchor_arrived"})

\* What is told once is found.
LEMMA FoundOnce ==
    ASSUME NEW log, NEW kind, NEW payload
    PROVE  /\ Tells(log, kind, TRUE, payload) =>
                 Has(log, Len(log), kind) /\ The(log, Len(log), kind) = payload
           /\ Tells(log, kind, FALSE, payload) => OfKinds(log, Len(log), {kind}) = {}
  BY DEF Tells, Has, The, Said

\* No end has been told.
LEMMA NoEndTold ==
    ASSUME NEW r, NEW log, NEW subjects, r.outcome = "None"
    PROVE  TellsEnd(r, log, subjects) <=> OfKinds(log, Len(log), Ends) = {}
  BY DEF TellsEnd

\* The stream of a running operation, taken apart.
LEMMA StreamParts ==
    ASSUME NEW r, NEW log, StreamMatches(r, log), r.outcome = "None"
    PROVE  /\ AllFit(log) /\ OfKinds(log, Len(log), Ends) = {}
           /\ Rewards(log, Len(log), Generics) = {}
           /\ Has(log, Len(log), "cooperation_started")
           /\ The(log, Len(log), "cooperation_started") = StartedPayload(r)
<1>1. Accepted(log) /\ OfKinds(log, Len(log), Ends) = {}
  BY NoEndTold DEF StreamMatches
<1>2. Tells(log, "cooperation_started", TRUE, StartedPayload(r))
  BY DEF StreamMatches
<1> QED
  BY <1>1, <1>2, FoundOnce DEF Accepted, AllFit

\* One more contribution, in the row and in the stream.
LEMMA EvidenceGrows ==
    ASSUME NEW r, NEW q, NEW log, EvidenceInv(r, log), r.outcome = "None", q.outcome = "None",
           NEW event, event.kind \in Steps,
           OfKinds(log, Len(log), Closing(event.kind)) = {},
           event.role = (IF event.kind = "cooperation_pinged" THEN "Anchor" ELSE "Runner"),
           Readable(Append(log, event), Len(log) + 1),
           StartedPayload(q) = StartedPayload(r),
           "pinged" \in q.flags <=> "pinged" \in r.flags \/ event.kind = "cooperation_pinged",
           "runner_arrived" \in q.flags <=>
               "runner_arrived" \in r.flags \/ event.kind = "player_downed",
           "revived" \in q.flags <=> "revived" \in r.flags \/ event.kind = "player_revived",
           event.kind = "cooperation_pinged" =>
               "pinged" \notin r.flags /\ PingPayload(q) = event.data,
           event.kind # "cooperation_pinged" /\ "pinged" \in r.flags =>
               PingPayload(q) = PingPayload(r),
           event.kind = "player_downed" =>
               "runner_arrived" \notin r.flags /\ DownPayload(q) = event.data,
           event.kind # "player_downed" /\ "runner_arrived" \in r.flags =>
               DownPayload(q) = DownPayload(r),
           event.kind = "player_revived" =>
               "revived" \notin r.flags /\ RevivePayload(q) = event.data,
           event.kind # "player_revived" /\ "revived" \in r.flags =>
               RevivePayload(q) = RevivePayload(r),
           IsFiniteSet(r.flags), NEW flag, flag \notin r.flags, flag # "anchor_arrived",
           q.flags = r.flags \cup {flag}
    PROVE  EvidenceInv(q, Append(log, event))
<1> DEFINE more == Append(log, event)
           n == Len(log)
<1>1. PICK S : log \in Seq(S)
  BY DEF EvidenceInv
<1>2. StreamMatches(r, log)
  BY DEF EvidenceInv
<1>3. /\ AllFit(log) /\ OfKinds(log, n, Ends) = {} /\ Rewards(log, n, Generics) = {}
      /\ Has(log, n, "cooperation_started")
  BY <1>2, StreamParts
<1>4. /\ n \in Nat /\ Len(more) = n + 1 /\ more[n + 1] = event /\ (n + 1) - 1 = n
      /\ more \in Seq(S \cup {event})
  BY <1>1, Appended
<1>5. event.kind \in Family \ {"cooperation_started"} /\ event.kind \notin Ends
  BY DEF Steps, Family, Ends
<1>6. FamilyFits(more, n + 1)
  <2>1. /\ Has(more, n, "cooperation_started")
        /\ OfKinds(more, n, Closing(event.kind)) = {}
    BY <1>1, <1>3, ReadBefore
  <2>2. event.role = IF event.kind \in {"player_downed", "player_revived"} THEN "Runner"
                     ELSE "Anchor"
    BY DEF Steps
  <2>3. Readable(more, n + 1)
    OBVIOUS
  <2> HIDE DEF more, n
  <2> QED
    BY <1>4, <1>5, <2>1, <2>2, <2>3 DEF FamilyFits
<1>7. Accepted(more)
  BY <1>1, <1>3, <1>5, <1>6, FamilyAppended
<1>8. /\ \A kind : Said(more, Len(more), kind) = Said(log, n, kind)
                       \cup (IF event.kind = kind THEN {event.data} ELSE {})
      /\ \A kinds : OfKinds(more, n + 1, kinds) = OfKinds(log, n, kinds)
                       \cup (IF event.kind \in kinds THEN {n + 1} ELSE {})
      /\ n + 1 \notin OfKinds(log, n, Steps)
  BY <1>1, <1>4, ReadAppended
<1>9. /\ Said(log, n, "cooperation_started") = {StartedPayload(r)}
      /\ Said(log, n, "cooperation_pinged") = IF "pinged" \in r.flags THEN {PingPayload(r)} ELSE {}
      /\ Said(log, n, "player_downed") =
            IF "runner_arrived" \in r.flags THEN {DownPayload(r)} ELSE {}
      /\ Said(log, n, "player_revived") = IF "revived" \in r.flags THEN {RevivePayload(r)} ELSE {}
  BY <1>2 DEF StreamMatches, Tells
<1> HIDE DEF more, n
<1>10. Said(more, Len(more), "cooperation_started") = {StartedPayload(q)}
  BY <1>5, <1>8, <1>9
<1>11. Said(more, Len(more), "cooperation_pinged") =
          IF "pinged" \in q.flags THEN {PingPayload(q)} ELSE {}
  BY <1>8, <1>9
<1>12. Said(more, Len(more), "player_downed") =
          IF "runner_arrived" \in q.flags THEN {DownPayload(q)} ELSE {}
  BY <1>8, <1>9
<1>13. Said(more, Len(more), "player_revived") =
          IF "revived" \in q.flags THEN {RevivePayload(q)} ELSE {}
  BY <1>8, <1>9
<1>14. OfKinds(more, Len(more), Ends) = {}
  BY <1>3, <1>4, <1>5, <1>8
<1>15. StreamMatches(q, more)
  BY <1>7, <1>10, <1>11, <1>12, <1>13, <1>14, NoEndTold DEF StreamMatches, Tells, more
<1>16. Cardinality(OfKinds(more, Len(more), Steps)) = Cardinality(q.flags \ {"anchor_arrived"})
  <2> DEFINE told == OfKinds(log, n, Steps)
             some == r.flags \ {"anchor_arrived"}
  <2>1. OfKinds(more, Len(more), Steps) = told \cup {n + 1} /\ n + 1 \notin told
    BY <1>4, <1>8
  <2>2. IsFiniteSet(told)
    <3>1. IsFiniteSet(1 .. n) /\ told \subseteq 1 .. n
      BY <1>4, FS_Interval DEF OfKinds
    <3> QED
      BY <3>1, FS_Subset
  <2>3. IsFiniteSet(some) /\ flag \notin some
    BY FS_Subset
  <2>4. q.flags \ {"anchor_arrived"} = some \cup {flag}
    OBVIOUS
  <2>5. Cardinality(told) = Cardinality(some)
    BY DEF EvidenceInv, n
  <2> HIDE DEF told, some
  <2>6. Cardinality(told \cup {n + 1}) = Cardinality(told) + 1
    BY <2>1, <2>2, FS_AddElement
  <2>7. Cardinality(some \cup {flag}) = Cardinality(some) + 1
    BY <2>3, FS_AddElement
  <2> QED
    BY <2>1, <2>4, <2>5, <2>6, <2>7
<1> QED
  BY <1>4, <1>15, <1>16 DEF EvidenceInv, more

\* What a running row's stream has told, and what it has not.
LEMMA StreamTells ==
    ASSUME NEW r, NEW log, StreamMatches(r, log)
    PROVE  /\ "pinged" \in r.flags =>
                 /\ Has(log, Len(log), "cooperation_pinged")
                 /\ The(log, Len(log), "cooperation_pinged") = PingPayload(r)
           /\ "pinged" \notin r.flags => OfKinds(log, Len(log), {"cooperation_pinged"}) = {}
           /\ "runner_arrived" \in r.flags =>
                 /\ Has(log, Len(log), "player_downed")
                 /\ The(log, Len(log), "player_downed") = DownPayload(r)
           /\ "runner_arrived" \notin r.flags => OfKinds(log, Len(log), {"player_downed"}) = {}
           /\ "revived" \in r.flags =>
                 /\ Has(log, Len(log), "player_revived")
                 /\ The(log, Len(log), "player_revived") = RevivePayload(r)
           /\ "revived" \notin r.flags => OfKinds(log, Len(log), {"player_revived"}) = {}
<1>1. /\ Tells(log, "cooperation_pinged", "pinged" \in r.flags, PingPayload(r))
      /\ Tells(log, "player_downed", "runner_arrived" \in r.flags, DownPayload(r))
      /\ Tells(log, "player_revived", "revived" \in r.flags, RevivePayload(r))
  BY DEF StreamMatches
<1>2. \A kind, payload : Said(log, Len(log), kind) = {payload} =>
         Has(log, Len(log), kind) /\ The(log, Len(log), kind) = payload
  BY DEF Has, The, Said
<1>3. \A kind : Said(log, Len(log), kind) = {} => OfKinds(log, Len(log), {kind}) = {}
  BY DEF Said
<1> QED
  BY <1>1, <1>2, <1>3 DEF Tells

\* The payload of a step is read against what was told before it.
LEMMA StepReadable ==
    ASSUME NEW S, NEW log \in Seq(S), NEW event, event.kind \in Steps,
           event.kind = "cooperation_pinged" =>
              PingedValid(event.data, The(log, Len(log), "cooperation_started")),
           event.kind = "player_downed" =>
              /\ Has(log, Len(log), "cooperation_pinged")
              /\ DownedValid(event.data, The(log, Len(log), "cooperation_started"),
                             The(log, Len(log), "cooperation_pinged")),
           event.kind = "player_revived" =>
              /\ Has(log, Len(log), "player_downed")
              /\ RevivedValid(event.data, The(log, Len(log), "cooperation_started"),
                              The(log, Len(log), "player_downed"))
    PROVE  Readable(Append(log, event), Len(log) + 1)
<1> DEFINE more == Append(log, event)
           n == Len(log)
<1>1. more[n + 1] = event /\ (n + 1) - 1 = n
  BY Appended
<1>2. \A kind : The(more, n, kind) = The(log, n, kind) /\ (Has(more, n, kind) <=> Has(log, n, kind))
  BY ReadBefore
<1>3. event.kind \notin Ends
  BY DEF Steps, Ends
<1> HIDE DEF more
<1>4. Readable(more, n + 1)
  BY <1>1, <1>2, <1>3 DEF Readable
<1> QED
  BY <1>4 DEF more

\* The ping is told.
LEMMA PingTold ==
    ASSUME NEW r, NEW e \in Elapsed, RowInv(r, e), r.outcome = "None", r.phase = "AwaitingPing",
           NEW log, EvidenceInv(r, log), NEW id \in OperationIds, RowInv(PingRow(r, id, e), e)
    PROVE  LET q == PingRow(r, id, e)
           IN  EvidenceInv(q, Append(log, Event("cooperation_pinged", "Anchor", PingPayload(q))))
<1> DEFINE q == PingRow(r, id, e)
           event == Event("cooperation_pinged", "Anchor", PingPayload(q))
           n == Len(log)
           op == [id |-> id, at |-> e]
<1>1. PICK S : log \in Seq(S)
  BY DEF EvidenceInv
<1>2. StreamMatches(r, log)
  BY DEF EvidenceInv
<1>3. r \in Rows /\ r.flags = {"anchor_arrived"} /\ r.anchorAt # None
  BY LiveColumns DEF RecordedIn
<1>4. /\ q.start = r.start /\ q.profile = r.profile /\ q.admitted = r.admitted
      /\ q.flags = {"anchor_arrived", "pinged"} /\ q.anchorAt = r.anchorAt /\ q.ping = op
      /\ q.outcome = "None"
  BY <1>3 DEF PingRow, Rows
<1>5. op # None /\ op.at = e
  BY NoneAssumption DEF OperationRecords
<1>6. event.kind = "cooperation_pinged" /\ event.role = "Anchor" /\ event.data = PingPayload(q)
  BY DEF Event
<1>7. RowChecks(q)
  BY DEF RowInv
<1> HIDE DEF q, event, op
<1>8. The(log, n, "cooperation_started") = StartedPayload(r)
  BY <1>2, StreamParts
<1>9. PingedValid(event.data, StartedPayload(r))
  <2>1. q.ping.at \in AcceptedTimes(q)
    BY <1>4, <1>5, NoneAssumption DEF AcceptedTimes
  <2>2. q.anchorAt <= q.ping.at /\ q.ping.at <= OperationDuration
    BY <1>4, <1>5, <1>7, <2>1 DEF RowChecks
  <2> QED
    BY <1>4, <1>6, <2>2 DEF PingedValid, PingPayload, StartedPayload
<1>10. event.kind \in Steps
  BY <1>6 DEF Steps
<1>11. Readable(Append(log, event), n + 1)
  BY <1>1, <1>6, <1>8, <1>9, <1>10, StepReadable
<1>12. OfKinds(log, n, Closing(event.kind)) = {}
  <2>1. /\ OfKinds(log, n, {"cooperation_pinged"}) = {}
        /\ OfKinds(log, n, {"player_downed"}) = {}
        /\ OfKinds(log, n, {"player_revived"}) = {}
    BY <1>2, <1>3, StreamTells
  <2>2. Closing(event.kind) = {"cooperation_pinged", "player_downed", "player_revived"}
    BY <1>6 DEF Closing
  <2> QED
    BY <2>1, <2>2 DEF OfKinds
<1>13. StartedPayload(q) = StartedPayload(r)
  BY <1>4 DEF StartedPayload
<1>14. /\ IsFiniteSet(r.flags) /\ "pinged" \notin r.flags
       /\ q.flags = r.flags \cup {"pinged"}
  <2>1. IsFiniteSet({"anchor_arrived"})
    BY FS_Singleton
  <2> QED
    BY <1>3, <1>4, <2>1
<1>15. EvidenceInv(q, Append(log, event))
  BY <1>3, <1>4, <1>6, <1>10, <1>11, <1>12, <1>13, <1>14, EvidenceGrows
<1> QED
  BY <1>15 DEF q, event

\* The runner's fall is told.
LEMMA FallTold ==
    ASSUME NEW r, NEW e \in Elapsed, RowInv(r, e), r.outcome = "None", r.phase = "AwaitingRunner",
           NEW log, EvidenceInv(r, log), RowInv(FallRow(r, e), e)
    PROVE  LET q == FallRow(r, e)
           IN  EvidenceInv(q, Append(log, Event("player_downed", "Runner", DownPayload(q))))
<1> DEFINE q == FallRow(r, e)
           event == Event("player_downed", "Runner", DownPayload(q))
           n == Len(log)
<1>1. PICK S : log \in Seq(S)
  BY DEF EvidenceInv
<1>2. StreamMatches(r, log)
  BY DEF EvidenceInv
<1>3. r \in Rows /\ r.flags = {"anchor_arrived", "pinged"} /\ r.ping # None
  BY LiveColumns DEF RecordedIn
<1>4. /\ q.start = r.start /\ q.profile = r.profile /\ q.admitted = r.admitted
      /\ q.flags = {"anchor_arrived", "pinged", "runner_arrived"}
      /\ q.anchorAt = r.anchorAt /\ q.ping = r.ping /\ q.runnerAt = e /\ q.downedAt = e
      /\ q.outcome = "None"
  BY <1>3 DEF FallRow, Rows
<1>5. e # None
  BY NoneAssumption
<1>6. event.kind = "player_downed" /\ event.role = "Runner" /\ event.data = DownPayload(q)
  BY DEF Event
<1>7. RowChecks(q)
  BY DEF RowInv
<1> HIDE DEF q, event
<1>8. /\ The(log, n, "cooperation_started") = StartedPayload(r)
      /\ Has(log, n, "cooperation_pinged")
      /\ The(log, n, "cooperation_pinged") = PingPayload(r)
  BY <1>2, <1>3, StreamParts, StreamTells
<1>9. DownedValid(event.data, StartedPayload(r), PingPayload(r))
  <2>1. q.runnerAt \in AcceptedTimes(q)
    BY <1>4, <1>5 DEF AcceptedTimes
  <2>2. q.runnerAt <= OperationDuration /\ q.ping.at <= q.runnerAt
        /\ q.runnerAt <= q.ping.at + PingTTL
    BY <1>4, <1>5, <1>7, <2>1 DEF RowChecks
  <2> QED
    BY <1>4, <1>6, <2>2 DEF DownedValid, DownPayload, PingPayload, StartedPayload
<1>10. event.kind \in Steps
  BY <1>6 DEF Steps
<1>11. Readable(Append(log, event), n + 1)
  BY <1>1, <1>6, <1>8, <1>9, <1>10, StepReadable
<1>12. OfKinds(log, n, Closing(event.kind)) = {}
  <2>1. /\ OfKinds(log, n, {"player_downed"}) = {}
        /\ OfKinds(log, n, {"player_revived"}) = {}
    BY <1>2, <1>3, StreamTells
  <2>2. Closing(event.kind) = {"player_downed", "player_revived"}
    BY <1>6 DEF Closing
  <2> QED
    BY <2>1, <2>2 DEF OfKinds
<1>13. StartedPayload(q) = StartedPayload(r) /\ PingPayload(q) = PingPayload(r)
  BY <1>4 DEF StartedPayload, PingPayload
<1>14. /\ IsFiniteSet(r.flags) /\ "runner_arrived" \notin r.flags
       /\ q.flags = r.flags \cup {"runner_arrived"}
  <2>1. IsFiniteSet({"anchor_arrived"}) /\ IsFiniteSet({"anchor_arrived"} \cup {"pinged"})
    BY FS_Singleton, FS_AddElement
  <2>2. {"anchor_arrived"} \cup {"pinged"} = {"anchor_arrived", "pinged"}
    OBVIOUS
  <2> QED
    BY <1>3, <1>4, <2>1, <2>2
<1>15. EvidenceInv(q, Append(log, event))
  BY <1>3, <1>4, <1>6, <1>10, <1>11, <1>12, <1>13, <1>14, EvidenceGrows
<1> QED
  BY <1>15 DEF q, event

\* The revive is told.
LEMMA ReviveTold ==
    ASSUME NEW r, NEW e \in Elapsed, RowInv(r, e), r.outcome = "None", r.phase = "ReviveChannel",
           NEW log, EvidenceInv(r, log), RowInv(RevivedRow(r, e), e)
    PROVE  LET q == RevivedRow(r, e)
           IN  EvidenceInv(q, Append(log, Event("player_revived", "Runner", RevivePayload(q))))
<1> DEFINE q == RevivedRow(r, e)
           event == Event("player_revived", "Runner", RevivePayload(q))
           n == Len(log)
<1>1. PICK S : log \in Seq(S)
  BY DEF EvidenceInv
<1>2. StreamMatches(r, log)
  BY DEF EvidenceInv
<1>3. /\ r \in Rows /\ r.flags = {"anchor_arrived", "pinged", "runner_arrived"}
      /\ r.revive # None /\ r.downedAt = r.runnerAt
  BY LiveColumns DEF RecordedIn
<1>4. /\ q.start = r.start /\ q.profile = r.profile /\ q.admitted = r.admitted
      /\ q.flags = {"anchor_arrived", "pinged", "runner_arrived", "revived"}
      /\ q.anchorAt = r.anchorAt /\ q.ping = r.ping
      /\ q.runnerAt = r.runnerAt /\ q.downedAt = r.downedAt
      /\ q.revive = r.revive /\ q.revivedAt = e
      /\ q.outcome = "None"
  BY <1>3 DEF RevivedRow, Rows
<1>5. e # None
  BY NoneAssumption
<1>6. event.kind = "player_revived" /\ event.role = "Runner" /\ event.data = RevivePayload(q)
  BY DEF Event
<1>7. RowChecks(q)
  BY DEF RowInv
<1> HIDE DEF q, event
<1>8. /\ The(log, n, "cooperation_started") = StartedPayload(r)
      /\ Has(log, n, "player_downed")
      /\ The(log, n, "player_downed") = DownPayload(r)
  BY <1>2, <1>3, StreamParts, StreamTells
<1>9. RevivedValid(event.data, StartedPayload(r), DownPayload(r))
  <2>1. q.revivedAt \in AcceptedTimes(q)
    BY <1>4, <1>5 DEF AcceptedTimes
  <2>2. /\ q.revivedAt <= OperationDuration
        /\ q.downedAt <= q.revive.at /\ q.revive.at <= q.downedAt + ReviveWindow
        /\ q.revive.at + ReviveChannelTime <= q.revivedAt
        /\ q.revivedAt <= q.downedAt + ReviveWindow
    BY <1>3, <1>4, <1>5, <1>7, <2>1 DEF RowChecks
  <2> QED
    BY <1>3, <1>4, <1>6, <2>2 DEF RevivedValid, RevivePayload, DownPayload, StartedPayload
<1>10. event.kind \in Steps
  BY <1>6 DEF Steps
<1>11. Readable(Append(log, event), n + 1)
  BY <1>1, <1>6, <1>8, <1>9, <1>10, StepReadable
<1>12. OfKinds(log, n, Closing(event.kind)) = {}
  <2>1. OfKinds(log, n, {"player_revived"}) = {}
    BY <1>2, <1>3, StreamTells
  <2>2. Closing(event.kind) = {"player_revived"}
    BY <1>6 DEF Closing
  <2> QED
    BY <2>1, <2>2
<1>13. /\ StartedPayload(q) = StartedPayload(r) /\ PingPayload(q) = PingPayload(r)
       /\ DownPayload(q) = DownPayload(r)
  BY <1>4 DEF StartedPayload, PingPayload, DownPayload
<1>14. /\ IsFiniteSet(r.flags) /\ "revived" \notin r.flags
       /\ q.flags = r.flags \cup {"revived"}
  <2>1. IsFiniteSet({"anchor_arrived"})
    BY FS_Singleton
  <2>2. IsFiniteSet({"anchor_arrived"} \cup {"pinged"})
    BY <2>1, FS_AddElement
  <2>3. IsFiniteSet(({"anchor_arrived"} \cup {"pinged"}) \cup {"runner_arrived"})
    BY <2>2, FS_AddElement
  <2>4. ({"anchor_arrived"} \cup {"pinged"}) \cup {"runner_arrived"} = r.flags
    BY <1>3
  <2> QED
    BY <1>3, <1>4, <2>3, <2>4
<1>15. EvidenceInv(q, Append(log, event))
  BY <1>3, <1>4, <1>6, <1>10, <1>11, <1>12, <1>13, <1>14, EvidenceGrows
<1> QED
  BY <1>15 DEF q, event

\* A call that adds no contribution but the anchor's arrival has nothing to tell.
LEMMA EvidenceStays ==
    ASSUME NEW r, NEW q, NEW log, EvidenceInv(r, log), r.outcome = "None", q.outcome = "None",
           StartedPayload(q) = StartedPayload(r),
           q.flags \ {"anchor_arrived"} = r.flags \ {"anchor_arrived"},
           "pinged" \in r.flags => PingPayload(q) = PingPayload(r),
           "runner_arrived" \in r.flags => DownPayload(q) = DownPayload(r),
           "revived" \in r.flags => RevivePayload(q) = RevivePayload(r)
    PROVE  EvidenceInv(q, log)
<1>1. StreamMatches(r, log)
  BY DEF EvidenceInv
<1>2. /\ "pinged" \in q.flags <=> "pinged" \in r.flags
      /\ "runner_arrived" \in q.flags <=> "runner_arrived" \in r.flags
      /\ "revived" \in q.flags <=> "revived" \in r.flags
  OBVIOUS
<1>3. Accepted(log) /\ OfKinds(log, Len(log), Ends) = {}
  BY <1>1, NoEndTold DEF StreamMatches
<1>4. StreamMatches(q, log)
  BY <1>1, <1>2, <1>3, NoEndTold DEF StreamMatches, Tells
<1> QED
  BY <1>4 DEF EvidenceInv

\* The anchor's arrival, and a channel that begins or is cancelled, have no event.
LEMMA SilentCalls ==
    ASSUME NEW r, NEW e \in Elapsed, RowInv(r, e), r.outcome = "None",
           NEW log, EvidenceInv(r, log)
    PROVE  /\ r.phase = "AwaitingAnchor" => EvidenceInv(AnchorRow(r, e), log)
           /\ \A id : r.phase = "RunnerDowned" => EvidenceInv(ChannelRow(r, id, e), log)
           /\ r.phase = "ReviveChannel" => EvidenceInv(CancelRow(r), log)
<1>1. r \in Rows /\ r.flags = RecordedIn[r.phase]
  BY LiveColumns
<1>2. ASSUME r.phase = "AwaitingAnchor" PROVE EvidenceInv(AnchorRow(r, e), log)
  <2> DEFINE q == AnchorRow(r, e)
  <2>1. /\ q.outcome = "None" /\ q.flags = {"anchor_arrived"} /\ r.flags = {}
        /\ q.start = r.start /\ q.profile = r.profile /\ q.admitted = r.admitted
    BY <1>1, <1>2 DEF AnchorRow, Rows, RecordedIn
  <2> HIDE DEF q
  <2>2. StartedPayload(q) = StartedPayload(r)
    BY <2>1 DEF StartedPayload
  <2>3. EvidenceInv(q, log)
    BY <2>1, <2>2, EvidenceStays
  <2> QED
    BY <2>3 DEF q
<1>3. ASSUME NEW id, r.phase = "RunnerDowned" PROVE EvidenceInv(ChannelRow(r, id, e), log)
  <2> DEFINE q == ChannelRow(r, id, e)
  <2>1. /\ q.outcome = "None" /\ q.flags = r.flags /\ "revived" \notin r.flags
        /\ q.start = r.start /\ q.profile = r.profile /\ q.admitted = r.admitted
        /\ q.ping = r.ping /\ q.anchorAt = r.anchorAt /\ q.runnerAt = r.runnerAt
    BY <1>1, <1>3 DEF ChannelRow, Rows, RecordedIn
  <2> HIDE DEF q
  <2>2. /\ StartedPayload(q) = StartedPayload(r) /\ PingPayload(q) = PingPayload(r)
        /\ DownPayload(q) = DownPayload(r)
    BY <2>1 DEF StartedPayload, PingPayload, DownPayload
  <2>3. EvidenceInv(q, log)
    BY <2>1, <2>2, EvidenceStays
  <2> QED
    BY <2>3 DEF q
<1>4. ASSUME r.phase = "ReviveChannel" PROVE EvidenceInv(CancelRow(r), log)
  <2> DEFINE q == CancelRow(r)
  <2>1. /\ q.outcome = "None" /\ q.flags = r.flags /\ "revived" \notin r.flags
        /\ q.start = r.start /\ q.profile = r.profile /\ q.admitted = r.admitted
        /\ q.ping = r.ping /\ q.anchorAt = r.anchorAt /\ q.runnerAt = r.runnerAt
    BY <1>1, <1>4 DEF CancelRow, Rows, RecordedIn
  <2> HIDE DEF q
  <2>2. /\ StartedPayload(q) = StartedPayload(r) /\ PingPayload(q) = PingPayload(r)
        /\ DownPayload(q) = DownPayload(r)
    BY <2>1 DEF StartedPayload, PingPayload, DownPayload
  <2>3. EvidenceInv(q, log)
    BY <2>1, <2>2, EvidenceStays
  <2> QED
    BY <2>3 DEF q
<1> QED
  BY <1>2, <1>3, <1>4

-----------------------------------------------------------------------------
(* The evidence of a start                                                  *)

\* The stream that admits the two participants.
LEMMA AdmissionParts ==
    /\ \E S : Admission \in Seq(S)
    /\ Len(Admission) = 4 /\ DOMAIN Admission = 1 .. 4
    /\ Admission[1].kind = "module_state_snapshot" /\ Admission[1].role = "Anchor"
    /\ Admission[2].kind = "module_state_snapshot" /\ Admission[2].role = "Runner"
    /\ Admission[3].kind = "activity_started" /\ Admission[4].kind = "enemy_died"
<1> DEFINE a == Event("module_state_snapshot", "Anchor", None)
           b == Event("module_state_snapshot", "Runner", None)
           c == Event("activity_started", "Anchor", None)
           d == Event("enemy_died", "Anchor", None)
<1>1. /\ a.kind = "module_state_snapshot" /\ a.role = "Anchor"
      /\ b.kind = "module_state_snapshot" /\ b.role = "Runner"
      /\ c.kind = "activity_started" /\ d.kind = "enemy_died"
  BY DEF Event
<1>2. Admission = <<a, b, c, d>>
  BY DEF Admission
<1> HIDE DEF a, b, c, d
<1>3. <<a, b, c, d>> \in Seq({a, b, c, d})
  OBVIOUS
<1>4. Admission \in Seq({a, b, c, d})
  BY <1>2, <1>3
<1>5. /\ Len(Admission) = 4 /\ DOMAIN Admission = 1 .. 4
      /\ Admission[1] = a /\ Admission[2] = b /\ Admission[3] = c /\ Admission[4] = d
  BY <1>2
<1> QED
  BY <1>1, <1>4, <1>5

\* It is read without an error.
LEMMA AdmissionFits == AllFit(Admission)
<1> DEFINE log == Admission
<1>1. /\ DOMAIN log = 1 .. 4
      /\ log[1].kind = "module_state_snapshot" /\ log[1].role = "Anchor"
      /\ log[2].kind = "module_state_snapshot" /\ log[2].role = "Runner"
      /\ log[3].kind = "activity_started" /\ log[4].kind = "enemy_died"
  BY AdmissionParts
<1> HIDE DEF log
<1>2. \A m \in 0 .. 4 : ~Has(log, m, "cooperation_started")
  <2>1. \A j \in 1 .. 4 : log[j].kind # "cooperation_started"
    BY <1>1
  <2> QED
    BY <2>1 DEF Has, OfKinds
<1>3. \A i \in 1 .. 4 : i - 1 \in 0 .. 4
  OBVIOUS
<1>4. \A i \in 1 .. 4 : log[i].kind \notin Family \cup Generics \cup {"route_selected"}
  BY <1>1 DEF Family, Generics, Ends
<1>5. Fits(log, 1)
  <2>1. ByRole(log, 1 - 1, log[1].kind) = {}
    BY DEF ByRole, OfKinds
  <2> QED
    BY <1>2, <1>3, <1>4, <2>1 DEF Fits, Family
<1>6. Fits(log, 2)
  <2>1. ByRole(log, 2 - 1, log[2].kind) \subseteq {"Anchor"}
    BY <1>1 DEF ByRole, OfKinds
  <2> QED
    BY <1>1, <1>2, <1>3, <1>4, <2>1 DEF Fits, Family
<1>7. Fits(log, 3) /\ Fits(log, 4)
  BY <1>1, <1>2, <1>3, <1>4 DEF Fits, Family
<1> QED
  BY <1>1, <1>5, <1>6, <1>7 DEF AllFit, log

\* A start is told with what it admitted.
LEMMA StartTold ==
    ASSUME NEW q, q.outcome = "None", q.flags = {}, CanStart(q.profile, q.admitted),
           NEW event, event = Event("cooperation_started", "Anchor", StartedPayload(q))
    PROVE  EvidenceInv(q, Append(Admission, event))
<1> DEFINE more == Append(Admission, event)
<1>1. PICK S : Admission \in Seq(S)
  BY AdmissionParts
<1>2. /\ Len(Admission) = 4 /\ DOMAIN Admission = 1 .. 4
      /\ Admission[1].kind = "module_state_snapshot" /\ Admission[1].role = "Anchor"
      /\ Admission[2].kind = "module_state_snapshot" /\ Admission[2].role = "Runner"
      /\ Admission[3].kind = "activity_started" /\ Admission[4].kind = "enemy_died"
  BY AdmissionParts
<1>3. /\ event.kind = "cooperation_started" /\ event.role = "Anchor"
      /\ event.data = StartedPayload(q)
  BY DEF Event
<1>4. /\ Len(more) = 5 /\ more[5] = event /\ \A j \in 1 .. 4 : more[j] = Admission[j]
      /\ more \in Seq(S \cup {event})
  <2>1. /\ Len(more) = Len(Admission) + 1 /\ more[Len(Admission) + 1] = event
        /\ \A j \in 1 .. Len(Admission) : more[j] = Admission[j]
        /\ more \in Seq(S \cup {event})
    BY <1>1, Appended
  <2>2. Len(Admission) + 1 = 5
    BY <1>2
  <2> QED
    BY <1>2, <2>1, <2>2
<1>5. /\ \A kinds : OfKinds(more, 5, kinds) = OfKinds(Admission, 4, kinds)
                       \cup (IF event.kind \in kinds THEN {5} ELSE {})
      /\ \A kind : Said(more, 5, kind) = Said(Admission, 4, kind)
                       \cup (IF event.kind = kind THEN {event.data} ELSE {})
      /\ \A kinds : Rewards(more, 5, kinds) = Rewards(Admission, 4, kinds)
                       \cup (IF event.kind \in kinds /\ Has(Admission, 4, "cooperation_started")
                             THEN {5} ELSE {})
      /\ \A kinds : OfKinds(more, 4, kinds) = OfKinds(Admission, 4, kinds)
  <2> DEFINE n == Len(Admission)
  <2>1. /\ \A kinds : OfKinds(more, n + 1, kinds) = OfKinds(Admission, n, kinds)
                         \cup (IF event.kind \in kinds THEN {n + 1} ELSE {})
        /\ \A kind : Said(more, n + 1, kind) = Said(Admission, n, kind)
                         \cup (IF event.kind = kind THEN {event.data} ELSE {})
        /\ \A kinds : Rewards(more, n + 1, kinds) = Rewards(Admission, n, kinds)
                         \cup (IF event.kind \in kinds /\ Has(Admission, n, "cooperation_started")
                               THEN {n + 1} ELSE {})
    BY <1>1, ReadAppended
  <2>2. \A kinds : OfKinds(more, n, kinds) = OfKinds(Admission, n, kinds)
    BY <1>1, ReadBefore
  <2>3. n = 4 /\ n + 1 = 5
    BY <1>2
  <2> HIDE DEF n, more
  <2> QED
    BY <2>1, <2>2, <2>3
<1>6. \A kinds : (kinds \subseteq Family \cup Generics \cup {"route_selected", "boss_spawned"})
         => OfKinds(Admission, 4, kinds) = {}
  <2>1. \A j \in 1 .. 4 :
           Admission[j].kind \notin Family \cup Generics \cup {"route_selected", "boss_spawned"}
    BY <1>2 DEF Family, Generics, Ends
  <2> QED
    BY <2>1 DEF OfKinds
<1>7. /\ OfKinds(Admission, 4, Ends) = {} /\ OfKinds(Admission, 4, Steps) = {}
      /\ \A kind \in Family \cup {"route_selected", "boss_spawned"} :
            OfKinds(Admission, 4, {kind}) = {} /\ Said(Admission, 4, kind) = {}
      /\ OfKinds(Admission, 4, Generics) = {}
  BY <1>6 DEF Said, Family, Steps, Ends
<1> HIDE DEF more
<1>8. StartFits(more, 5)
  <2>1. ~ \E kind \in {"cooperation_started", "route_selected", "boss_spawned"} :
              Has(more, 4, kind)
    BY <1>5, <1>7 DEF Has, Family
  <2>2. 3 \in OfKinds(more, 4, {"activity_started"})
    BY <1>2, <1>4 DEF OfKinds
  <2>3. OfKinds(more, 4, {"enemy_died"}) = {4}
    BY <1>2, <1>4 DEF OfKinds
  <2>4. Cardinality({4}) = 1
    BY FS_Singleton
  <2>5. StartedValid(more[5].data)
    BY <1>3, <1>4 DEF StartedValid, StartedPayload
  <2>6. OfKinds(more, 4, {"module_state_snapshot"}) = {1, 2}
    BY <1>2, <1>4 DEF OfKinds
  <2>7. \E j, k \in 1 .. 5 - 1 :
          /\ j < k /\ more[j].role = "Anchor" /\ more[k].role = "Runner"
          /\ OfKinds(more, 5 - 1, {"module_state_snapshot"}) = {j, k}
    <3>1. 1 \in 1 .. 5 - 1 /\ 2 \in 1 .. 5 - 1 /\ 5 - 1 = 4 /\ 1 < 2
      OBVIOUS
    <3>2. more[1].role = "Anchor" /\ more[2].role = "Runner"
      BY <1>2, <1>4
    <3> QED
      BY <2>6, <3>1, <3>2
  <2>8. 5 - 1 = 4
    OBVIOUS
  <2> QED
    BY <1>3, <1>4, <2>1, <2>2, <2>3, <2>4, <2>5, <2>7, <2>8 DEF StartFits, Has
<1>9. Fits(more, 5)
  <2>1. OfKinds(more, 5 - 1, Ends) = {}
    BY <1>5, <1>7
  <2> QED
    BY <1>3, <1>4, <1>8, <2>1 DEF Fits, Generics
<1>10. AllFit(more)
  <2>1. Fits(Append(Admission, event), Len(Admission) + 1)
    BY <1>2, <1>9 DEF more
  <2> QED
    BY <1>1, <2>1, AdmissionFits, FitAppended DEF more
<1>11. Rewards(more, 5, Generics) = {}
  BY <1>3, <1>5, <1>7 DEF Rewards, Generics
<1>12. Accepted(more)
  BY <1>4, <1>10, <1>11 DEF Accepted, AllFit
<1>13. OfKinds(more, 5, Ends) = {} /\ OfKinds(more, 5, Steps) = {}
  BY <1>3, <1>5, <1>7 DEF Ends, Steps
<1>14. /\ Said(more, 5, "cooperation_started") = {StartedPayload(q)}
       /\ Said(more, 5, "cooperation_pinged") = {}
       /\ Said(more, 5, "player_downed") = {} /\ Said(more, 5, "player_revived") = {}
  <2>1. {"cooperation_started", "cooperation_pinged", "player_downed", "player_revived"}
           \subseteq Family
    BY DEF Family
  <2>2. \A kind \in Steps \cup {"cooperation_started"} : Said(Admission, 4, kind) = {}
    BY <1>7, <2>1 DEF Steps
  <2>3. \A kind : Said(more, 5, kind) = Said(Admission, 4, kind)
                      \cup (IF event.kind = kind THEN {event.data} ELSE {})
    BY <1>5
  <2> QED
    BY <1>3, <2>2, <2>3 DEF Steps
<1>15. StreamMatches(q, more)
  BY <1>4, <1>12, <1>13, <1>14, NoEndTold DEF StreamMatches, Tells
<1>16. q.flags \ {"anchor_arrived"} = {}
  OBVIOUS
<1> QED
  BY <1>4, <1>13, <1>15, <1>16 DEF EvidenceInv, more

-----------------------------------------------------------------------------
(* The evidence of an end                                                   *)

\* What a stream has said of a row before its end.
Told(r, log, n) ==
    /\ Said(log, n, "cooperation_started") = {StartedPayload(r)}
    /\ Said(log, n, "cooperation_pinged") =
          IF "pinged" \in r.flags THEN {PingPayload(r)} ELSE {}
    /\ Said(log, n, "player_downed") =
          IF "runner_arrived" \in r.flags THEN {DownPayload(r)} ELSE {}
    /\ Said(log, n, "player_revived") =
          IF "revived" \in r.flags THEN {RevivePayload(r)} ELSE {}

\* What an ended row has from the running one.
LEMMA EndKeeps ==
    ASSUME NEW r, NEW q, NEW subject, NEW e \in Elapsed, RowInv(r, e), r.outcome = "None",
           EndsAs(r, q, subject, e)
    PROVE  /\ StartedPayload(q) = StartedPayload(r) /\ PingPayload(q) = PingPayload(r)
           /\ DownPayload(q) = DownPayload(r) /\ RevivePayload(q) = RevivePayload(r)
           /\ q.flags \ {"warden_completed"} = r.flags
           /\ q.downedAt = r.downedAt /\ q.runnerAt = r.runnerAt
           /\ Rebuilt(q) = Rebuilt(r) /\ q.outcome # "None"
<1>1. SameCalls(r, q) /\ q.phase = r.phase /\ RowChecks(q) /\ q.outcome \in Outcomes
  BY DEF EndsAs, RowInv
<1>2. /\ q.start = r.start /\ q.profile = r.profile /\ q.admitted = r.admitted
      /\ q.anchorAt = r.anchorAt /\ q.ping = r.ping /\ q.runnerAt = r.runnerAt
      /\ q.revive = r.revive /\ q.revivedAt = r.revivedAt
  BY <1>1 DEF SameCalls
<1>3. /\ StartedPayload(q) = StartedPayload(r) /\ PingPayload(q) = PingPayload(r)
      /\ DownPayload(q) = DownPayload(r) /\ RevivePayload(q) = RevivePayload(r)
  BY <1>2 DEF StartedPayload, PingPayload, DownPayload, RevivePayload
<1>4. q.flags \ {"warden_completed"} = RecordedIn[q.phase] /\ q.runnerAt = q.downedAt
  BY <1>1 DEF RowChecks
<1>5. r.flags = RecordedIn[r.phase] /\ r.downedAt = r.runnerAt
  BY LiveColumns
<1>6. Rebuilt(q) = Rebuilt(r)
  BY <1>1, SameCallsSameReplay
<1>7. q.outcome # "None"
  BY <1>1 DEF Outcomes, Failures, Timeouts
<1> QED
  BY <1>1, <1>2, <1>3, <1>4, <1>5, <1>6, <1>7

\* The payload of an end is read again as it was written.
LEMMA EndIsValid ==
    ASSUME NEW r, NEW q, NEW subject, NEW e \in Elapsed, RowInv(r, e), r.outcome = "None",
           EndsAs(r, q, subject, e), NEW log, NEW n, Told(r, log, n),
           NEW kind, kind = "cooperation_succeeded" <=> q.outcome = "Succeeded"
    PROVE  TerminalValid(kind, TerminalPayload(q, Meaning(q), subject), StartedPayload(r), log, n)
<1> DEFINE d == TerminalPayload(q, Meaning(q), subject)
           started == StartedPayload(r)
           c == d.contributions
           record == [anchorAt |-> c.anchorAt, ping |-> c.ping, runnerAt |-> c.runnerAt,
                      revive |-> c.revive, revivedAt |-> c.revivedAt,
                      start |-> started.start, profile |-> started.profile,
                      admitted |-> started.admitted]
           ended == Ending(d.outcome, d.subject, Rebuilt(record).state, d.at)
<1>1. /\ q \in Rows /\ RowChecks(q) /\ q.terminalAt = e /\ q.phase = r.phase
      /\ q.outcome \in Outcomes /\ SameCalls(r, q)
  BY DEF EndsAs, RowInv
<1>2. /\ Meaning(q).health = q.health /\ Meaning(q).life = q.life
      /\ Meaning(q).contributions = q.flags /\ Meaning(q).reviveCount = q.reviveCount
      /\ Meaning(q).terminal = q.outcome
  BY DEF Meaning
<1>3. /\ d.start = q.start /\ d.phase = q.phase /\ d.health = q.health /\ d.life = q.life
      /\ d.outcome = q.outcome /\ d.subject = subject /\ d.at = e
      /\ d.grants = IF q.outcome = "Succeeded" THEN Roles ELSE {}
      /\ c.flags = q.flags /\ c.anchorAt = q.anchorAt /\ c.ping = q.ping
      /\ c.runnerAt = q.runnerAt /\ c.downedAt = q.downedAt /\ c.revive = q.revive
      /\ c.revivedAt = q.revivedAt /\ c.reviveCount = q.reviveCount /\ c.wardenAt = q.wardenAt
  BY <1>1, <1>2 DEF TerminalPayload
<1>4. started.start = r.start /\ started.profile = r.profile /\ started.admitted = r.admitted
  BY DEF StartedPayload
<1> HIDE DEF d, started
<1>5. SameCalls(r, record)
  BY <1>1, <1>3, <1>4 DEF SameCalls
<1>6. /\ Rebuilt(record) = Rebuilt(r) /\ Taken(Rebuilt(r))
      /\ Rebuilt(r).state = Meaning(r) /\ Meaning(r).phase = r.phase
  <2>1. Rebuilt(record) = Rebuilt(r)
    <3> HIDE DEF record
    <3> QED
      BY <1>5, SameCallsSameReplay
  <2> QED
    BY <2>1, LiveRow DEF Meaning
<1>7. ended = Result(Meaning(q), IF q.outcome \in Timeouts THEN "Expired" ELSE "Applied")
  BY <1>3, <1>6 DEF EndsAs
<1>8. ContributionsComplete(c)
  <2>1. q.flags \ {"warden_completed"} = RecordedIn[q.phase]
    BY <1>1 DEF RowChecks
  <2>2. /\ "pinged" \in RecordedIn[q.phase] => "anchor_arrived" \in RecordedIn[q.phase]
        /\ "runner_arrived" \in RecordedIn[q.phase] => "pinged" \in RecordedIn[q.phase]
        /\ q.phase \in {"ReviveChannel", "EncounterActive"} =>
              "runner_arrived" \in RecordedIn[q.phase]
        /\ "revived" \in RecordedIn[q.phase] => q.phase = "EncounterActive"
        /\ q.phase = "EncounterActive" => "revived" \in RecordedIn[q.phase]
    BY <1>1 DEF Rows, Phases, RecordedIn
  <2>3. "warden_completed" \in q.flags => q.phase = "EncounterActive"
    BY <1>1 DEF RowChecks, Outcomes, Failures, Timeouts
  <2>4. /\ "pinged" \in q.flags => "anchor_arrived" \in q.flags
        /\ "runner_arrived" \in q.flags => "pinged" \in q.flags
        /\ q.revive # None => "runner_arrived" \in q.flags
        /\ "revived" \in q.flags => q.revive # None
        /\ "warden_completed" \in q.flags => "revived" \in q.flags
    BY <1>1, <2>1, <2>2, <2>3 DEF RowChecks
  <2>5. q.reviveCount <= 1
    BY <1>1 DEF Rows
  <2>6. /\ "anchor_arrived" \in q.flags <=> q.anchorAt # None
        /\ "pinged" \in q.flags <=> q.ping # None
        /\ "runner_arrived" \in q.flags <=> q.runnerAt # None
        /\ q.runnerAt = q.downedAt
        /\ "revived" \in q.flags <=> q.revivedAt # None
        /\ "revived" \in q.flags <=> q.reviveCount = 1
        /\ "warden_completed" \in q.flags <=> q.wardenAt # None
    BY <1>1 DEF RowChecks
  <2> QED
    BY <1>3, <2>4, <2>5, <2>6 DEF ContributionsComplete
<1>9. ContributionsNamed(c, log, n)
  <2>1. /\ q.flags \ {"warden_completed"} = r.flags
        /\ q.downedAt = r.downedAt /\ q.runnerAt = r.runnerAt
    BY EndKeeps
  <2>2. r.downedAt = r.runnerAt
    BY LiveColumns
  <2>3. /\ q.anchorAt = r.anchorAt /\ q.ping = r.ping
        /\ q.revive = r.revive /\ q.revivedAt = r.revivedAt
    BY <1>1 DEF SameCalls
  <2>4. /\ Said(log, n, "cooperation_pinged") # {} <=> "pinged" \in q.flags
        /\ Said(log, n, "player_downed") # {} <=> "runner_arrived" \in q.flags
        /\ Said(log, n, "player_revived") # {} <=> "revived" \in q.flags
    BY <2>1 DEF Told
  <2>5. /\ \A x \in Said(log, n, "cooperation_pinged") :
              x.ping = q.ping /\ x.anchorAt = q.anchorAt
        /\ \A x \in Said(log, n, "player_downed") : x.at = q.runnerAt /\ x.at = q.downedAt
        /\ \A x \in Said(log, n, "player_revived") : x.revive = q.revive /\ x.at = q.revivedAt
    BY <2>1, <2>2, <2>3 DEF Told, PingPayload, DownPayload, RevivePayload
  <2> HIDE DEF c
  <2> QED
    BY <1>3, <2>4, <2>5 DEF ContributionsNamed
<1>10. EndsSubject(d)
  BY <1>3 DEF EndsSubject, EndsAs
<1>11. d.outcome = "Succeeded" => c.wardenAt = d.at
  BY <1>1, <1>3, NoneAssumption DEF RowChecks
<1>12. d.start = started.start
  BY <1>1, <1>3, <1>4 DEF SameCalls
<1>13. /\ ended.answer = (IF d.outcome \in Timeouts THEN "Expired" ELSE "Applied")
       /\ ended.state = Meaning(q)
  BY <1>3, <1>7 DEF Result
<1> HIDE DEF c, ended
<1>14. TerminalValid(kind, d, started, log, n)
  BY <1>1, <1>2, <1>3, <1>6, <1>8, <1>9, <1>10, <1>11, <1>12, <1>13
  DEF TerminalValid, c, ended
<1> QED
  BY <1>14 DEF d, started

\* An end that fits seals the stream of its row.
LEMMA EndSeals ==
    ASSUME NEW r, NEW q, NEW subject \in Roles \cup {None}, NEW e \in Elapsed,
           RowInv(r, e), r.outcome = "None", EndsAs(r, q, subject, e),
           NEW S, NEW log \in Seq(S), AllFit(log), OfKinds(log, Len(log), Ends) = {},
           Told(r, log, Len(log)),
           NEW event, event = TerminalEvent(q, Meaning(q), subject),
           RewardsFit(Append(log, event), Len(log) + 1)
    PROVE  EvidenceInv(q, Append(log, event))
<1> DEFINE more == Append(log, event)
           n == Len(log)
           d == TerminalPayload(q, Meaning(q), subject)
<1>1. /\ event.kind = (IF q.outcome = "Succeeded" THEN "cooperation_succeeded"
                       ELSE "cooperation_failed")
      /\ event.role = "Anchor" /\ event.data = d
  BY DEF TerminalEvent, Event
<1>2. event.kind \in Ends /\ event.kind \in Family \ {"cooperation_started"}
  BY <1>1 DEF Family, Ends
<1>3. /\ n \in Nat /\ Len(more) = n + 1 /\ more[n + 1] = event /\ (n + 1) - 1 = n
      /\ more \in Seq(S \cup {event})
  BY Appended
<1>4. /\ \A kind : The(more, n, kind) = The(log, n, kind)
                   /\ (Has(more, n, kind) <=> Has(log, n, kind))
                   /\ Said(more, n, kind) = Said(log, n, kind)
      /\ \A kinds : OfKinds(more, n, kinds) = OfKinds(log, n, kinds)
  BY ReadBefore
<1>5. /\ \A kind : Said(more, n + 1, kind) = Said(log, n, kind)
                      \cup (IF event.kind = kind THEN {event.data} ELSE {})
      /\ \A kinds : OfKinds(more, n + 1, kinds) = OfKinds(log, n, kinds)
                       \cup (IF event.kind \in kinds THEN {n + 1} ELSE {})
  BY ReadAppended
<1>6. Has(log, n, "cooperation_started") /\ The(log, n, "cooperation_started") = StartedPayload(r)
  BY DEF Told, Has, The, Said
<1>r. RewardsFit(more, n + 1)
  OBVIOUS
<1> HIDE DEF more, n, d
<1>7. TerminalValid(event.kind, d, StartedPayload(r), more, n)
  <2>1. Told(r, more, n)
    BY <1>4 DEF Told, n
  <2>2. event.kind = "cooperation_succeeded" <=> q.outcome = "Succeeded"
    BY <1>1
  <2> QED
    BY <2>1, <2>2, EndIsValid DEF d
<1>8. Readable(more, n + 1)
  <2>1. event.kind \notin Steps
    BY <1>1 DEF Steps
  <2> QED
    BY <1>1, <1>3, <1>4, <1>6, <1>7, <2>1 DEF Readable, Steps
<1>9. FamilyFits(more, n + 1)
  <2>1. Closing(event.kind) = {}
    BY <1>1 DEF Closing
  <2>2. OfKinds(more, n, Closing(event.kind)) = {}
    BY <2>1 DEF OfKinds
  <2>3. event.kind \notin {"player_downed", "player_revived"}
    BY <1>1
  <2> QED
    BY <1>1, <1>3, <1>4, <1>6, <1>8, <1>r, <2>2, <2>3 DEF FamilyFits
<1>10. Accepted(more)
  BY <1>2, <1>9, FamilyAppended DEF more, n
<1>11. Told(r, more, n + 1)
  <2>1. event.kind \notin Steps \cup {"cooperation_started"}
    BY <1>1 DEF Steps
  <2>2. \A kind \in Steps \cup {"cooperation_started"} :
         Said(more, n + 1, kind) = Said(log, n, kind)
    BY <1>5, <2>1
  <2> QED
    BY <2>2 DEF Told, Steps, n
<1>12. /\ StartedPayload(q) = StartedPayload(r) /\ PingPayload(q) = PingPayload(r)
       /\ DownPayload(q) = DownPayload(r) /\ RevivePayload(q) = RevivePayload(r)
       /\ q.flags \ {"warden_completed"} = r.flags /\ q.outcome # "None"
  BY EndKeeps
<1>13. {more[j] : j \in OfKinds(more, n + 1, Ends)} = {event}
  <2>1. OfKinds(more, n + 1, Ends) = {n + 1}
    <3>1. OfKinds(more, n + 1, Ends) = OfKinds(log, n, Ends)
                       \cup (IF event.kind \in Ends THEN {n + 1} ELSE {})
      BY <1>5
    <3> QED
      BY <1>2, <3>1 DEF n
  <2> QED
    BY <1>3, <2>1
<1>14. Loaded(q) = Meaning(q)
  BY DEF EndsAs, RowInv
<1>15. TellsEnd(q, more, IF q.outcome = "AbandonedDisconnect" THEN Roles ELSE {Fallen(q)})
  <2>1. subject \in (IF q.outcome = "AbandonedDisconnect" THEN Roles ELSE {Fallen(q)})
    BY DEF EndsAs
  <2> QED
    BY <1>3, <1>12, <1>13, <1>14, <2>1 DEF TellsEnd
<1>16. StreamMatches(q, more)
  <2>1. /\ "pinged" \in q.flags <=> "pinged" \in r.flags
        /\ "runner_arrived" \in q.flags <=> "runner_arrived" \in r.flags
        /\ "revived" \in q.flags <=> "revived" \in r.flags
    BY <1>12
  <2>2. /\ Said(more, Len(more), "cooperation_started") = {StartedPayload(q)}
        /\ Said(more, Len(more), "cooperation_pinged") =
              IF "pinged" \in q.flags THEN {PingPayload(q)} ELSE {}
        /\ Said(more, Len(more), "player_downed") =
              IF "runner_arrived" \in q.flags THEN {DownPayload(q)} ELSE {}
        /\ Said(more, Len(more), "player_revived") =
              IF "revived" \in q.flags THEN {RevivePayload(q)} ELSE {}
    BY <1>3, <1>11, <1>12, <2>1 DEF Told
  <2> QED
    BY <1>10, <1>15, <2>2 DEF StreamMatches, Tells
<1> QED
  BY <1>3, <1>12, <1>16 DEF EvidenceInv, more

\* The evidence of a running row tells it.
LEMMA RunningTold ==
    ASSUME NEW r, NEW log, EvidenceInv(r, log), r.outcome = "None"
    PROVE  /\ \E S : log \in Seq(S)
           /\ AllFit(log) /\ OfKinds(log, Len(log), Ends) = {}
           /\ Rewards(log, Len(log), Generics) = {} /\ Told(r, log, Len(log))
<1>1. StreamMatches(r, log) /\ \E S : log \in Seq(S)
  BY DEF EvidenceInv
<1> QED
  BY <1>1, StreamParts DEF StreamMatches, Tells, Told

\* A failure is told after whatever was.
LEMMA FailureTold ==
    ASSUME NEW r, NEW q, NEW subject \in Roles \cup {None}, NEW e \in Elapsed,
           RowInv(r, e), r.outcome = "None", EndsAs(r, q, subject, e),
           q.outcome # "Succeeded", NEW log, EvidenceInv(r, log)
    PROVE  EvidenceInv(q, Append(log, TerminalEvent(q, Meaning(q), subject)))
<1> DEFINE event == TerminalEvent(q, Meaning(q), subject)
           more == Append(log, event)
           n == Len(log)
<1>1. /\ AllFit(log) /\ OfKinds(log, n, Ends) = {}
      /\ Rewards(log, n, Generics) = {} /\ Told(r, log, n)
  BY RunningTold
<1>2. PICK S : log \in Seq(S)
  BY RunningTold
<1>3. more[n + 1] = event /\ (n + 1) - 1 = n
  BY <1>2, Appended
<1>4. event.kind = "cooperation_failed"
  BY DEF TerminalEvent, Event
<1>5. Rewards(more, n, Generics) = {}
  BY <1>1, <1>2, ReadBefore
<1> HIDE DEF more, event
<1>6. RewardsFit(more, n + 1)
  BY <1>3, <1>4, <1>5 DEF RewardsFit
<1> QED
  BY <1>1, <1>2, <1>6, EndSeals DEF more, event

\* A stream on its way to a success: some of the rewards are written.
Rewarding(log, r, done, loot, prog) ==
    /\ \E S : log \in Seq(S)
    /\ AllFit(log) /\ OfKinds(log, Len(log), Ends) = {} /\ Told(r, log, Len(log))
    /\ Cardinality(Rewards(log, Len(log), {"activity_completed"})) = done
    /\ Granted(log, Len(log), "loot_granted") = loot
    /\ Granted(log, Len(log), "progression_granted") = prog

\* One more reward.
LEMMA RewardTold ==
    ASSUME NEW r, NEW log, NEW done, NEW loot, NEW prog, Rewarding(log, r, done, loot, prog),
           NEW kind \in Generics, NEW role,
           kind = "activity_completed" => role = "Anchor" /\ done = 0,
           kind = "loot_granted" => role \notin loot,
           kind = "progression_granted" => role \notin prog
    PROVE  Rewarding(Append(log, Event(kind, role, None)), r,
                     IF kind = "activity_completed" THEN 1 ELSE done,
                     IF kind = "loot_granted" THEN loot \cup {role} ELSE loot,
                     IF kind = "progression_granted" THEN prog \cup {role} ELSE prog)
<1> DEFINE event == Event(kind, role, None)
           more == Append(log, event)
           n == Len(log)
<1>1. PICK S : log \in Seq(S)
  BY DEF Rewarding
<1>2. /\ event.kind = kind /\ event.role = role
      /\ kind \notin Family \cup Ends \cup Steps
            \cup {"route_selected", "module_state_snapshot", "cooperation_started"}
  BY DEF Event, Generics, Family, Ends, Steps
<1>3. /\ n \in Nat /\ Len(more) = n + 1 /\ more[n + 1] = event /\ (n + 1) - 1 = n
      /\ more \in Seq(S \cup {event})
  BY <1>1, Appended
<1>4. /\ \A x : /\ Has(more, n, x) <=> Has(log, n, x)
                /\ Granted(more, n, x) = Granted(log, n, x)
      /\ \A kinds : OfKinds(more, n, kinds) = OfKinds(log, n, kinds)
  BY <1>1, ReadBefore
<1>5. /\ \A x : Said(more, n + 1, x) = Said(log, n, x)
                   \cup (IF event.kind = x THEN {event.data} ELSE {})
      /\ \A kinds : OfKinds(more, n + 1, kinds) = OfKinds(log, n, kinds)
                       \cup (IF event.kind \in kinds THEN {n + 1} ELSE {})
      /\ \A kinds : Rewards(more, n + 1, kinds) = Rewards(log, n, kinds)
                       \cup (IF event.kind \in kinds /\ Has(log, n, "cooperation_started")
                             THEN {n + 1} ELSE {})
      /\ \A x : Granted(more, n + 1, x) = Granted(log, n, x)
                   \cup (IF event.kind = x /\ Has(log, n, "cooperation_started")
                         THEN {event.role} ELSE {})
  BY <1>1, ReadAppended
<1>6. /\ AllFit(log) /\ OfKinds(log, n, Ends) = {} /\ Told(r, log, n)
      /\ Cardinality(Rewards(log, n, {"activity_completed"})) = done
      /\ Granted(log, n, "loot_granted") = loot
      /\ Granted(log, n, "progression_granted") = prog
  BY DEF Rewarding
<1>7. Has(log, n, "cooperation_started")
  BY <1>6 DEF Told, Has, Said
<1> HIDE DEF more, event, n
<1>8. GenericFits(more, n + 1)
  BY <1>2, <1>3, <1>4, <1>6 DEF GenericFits, Generics
<1>9. Fits(more, n + 1)
  BY <1>2, <1>3, <1>4, <1>6, <1>8 DEF Fits
<1>10. AllFit(more)
  BY <1>1, <1>6, <1>9, FitAppended DEF more, n
<1>11. OfKinds(more, Len(more), Ends) = {}
  <2>1. OfKinds(more, n + 1, Ends) = OfKinds(log, n, Ends)
                       \cup (IF event.kind \in Ends THEN {n + 1} ELSE {})
    BY <1>5
  <2> QED
    BY <1>2, <1>3, <1>6, <2>1
<1>12. Told(r, more, Len(more))
  <2>1. \A x \in Steps \cup {"cooperation_started"} : Said(more, n + 1, x) = Said(log, n, x)
    BY <1>2, <1>5 DEF Steps, Family
  <2> QED
    BY <1>3, <1>6, <2>1 DEF Told, Steps
<1>13. Cardinality(Rewards(more, Len(more), {"activity_completed"}))
          = IF kind = "activity_completed" THEN 1 ELSE done
  <2>1. Rewards(more, n + 1, {"activity_completed"}) = Rewards(log, n, {"activity_completed"})
                       \cup (IF kind = "activity_completed" THEN {n + 1} ELSE {})
    BY <1>2, <1>5, <1>7
  <2>2. CASE kind = "activity_completed"
    <3>1. Rewards(log, n, {"activity_completed"}) = {}
      <4>1. IsFiniteSet(1 .. n)
        BY <1>3, FS_Interval
      <4>2. Rewards(log, n, {"activity_completed"}) \subseteq 1 .. n
        BY DEF Rewards, OfKinds
      <4>3. IsFiniteSet(Rewards(log, n, {"activity_completed"}))
        BY <4>1, <4>2, FS_Subset
      <4> QED
        BY <1>6, <2>2, <4>3, FS_EmptySet
    <3>2. Rewards(more, Len(more), {"activity_completed"}) = {n + 1}
      BY <1>3, <2>1, <2>2, <3>1
    <3>3. Cardinality({n + 1}) = 1
      BY FS_Singleton
    <3> QED
      BY <2>2, <3>2, <3>3
  <2>3. CASE kind # "activity_completed"
    BY <1>3, <1>6, <2>1, <2>3
  <2> QED
    BY <2>2, <2>3
<1>14. /\ Granted(more, Len(more), "loot_granted")
             = IF kind = "loot_granted" THEN loot \cup {role} ELSE loot
       /\ Granted(more, Len(more), "progression_granted")
             = IF kind = "progression_granted" THEN prog \cup {role} ELSE prog
  <2>1. \A x : Granted(more, n + 1, x) = Granted(log, n, x)
                   \cup (IF event.kind = x /\ Has(log, n, "cooperation_started")
                         THEN {event.role} ELSE {})
    BY <1>5
  <2>2. /\ Granted(more, n + 1, "loot_granted") = loot
                   \cup (IF kind = "loot_granted" THEN {role} ELSE {})
        /\ Granted(more, n + 1, "progression_granted") = prog
                   \cup (IF kind = "progression_granted" THEN {role} ELSE {})
    BY <1>2, <1>6, <1>7, <2>1
  <2> QED
    BY <1>3, <2>2
<1>15. \E T : more \in Seq(T)
  BY <1>3
<1>16. Rewarding(more, r,
                 IF kind = "activity_completed" THEN 1 ELSE done,
                 IF kind = "loot_granted" THEN loot \cup {role} ELSE loot,
                 IF kind = "progression_granted" THEN prog \cup {role} ELSE prog)
  BY <1>10, <1>11, <1>12, <1>13, <1>14, <1>15 DEF Rewarding
<1> QED
  BY <1>16 DEF more, event

\* The rewards of a success are appended one after the other.
LEMMA FiveAppended ==
    ASSUME NEW S, NEW log \in Seq(S), NEW a, NEW b, NEW c, NEW d, NEW f
    PROVE  log \o <<a, b, c, d, f>>
              = Append(Append(Append(Append(Append(log, a), b), c), d), f)
  OBVIOUS

\* One more event, or none.
LEMMA OneAppended ==
    ASSUME NEW S, NEW log \in Seq(S), NEW event
    PROVE  log \o <<event>> = Append(log, event) /\ log \o <<>> = log
  OBVIOUS

\* A success is told after the rewards of both.
LEMMA SuccessTold ==
    ASSUME NEW r, NEW q, NEW e \in Elapsed, RowInv(r, e), r.outcome = "None",
           EndsAs(r, q, None, e), q.outcome = "Succeeded", NEW log, EvidenceInv(r, log)
    PROVE  EvidenceInv(q, log \o RewardEvents \o <<TerminalEvent(q, Meaning(q), None)>>)
<1> DEFINE event == TerminalEvent(q, Meaning(q), None)
           log1 == Append(log, Event("activity_completed", "Anchor", None))
           log2 == Append(log1, Event("loot_granted", "Anchor", None))
           log3 == Append(log2, Event("progression_granted", "Anchor", None))
           log4 == Append(log3, Event("loot_granted", "Runner", None))
           paid == Append(log4, Event("progression_granted", "Runner", None))
           n == Len(paid)
           more == Append(paid, event)
<1>1. Rewarding(log, r, 0, {}, {})
  <2>1. /\ \E S : log \in Seq(S)
        /\ AllFit(log) /\ OfKinds(log, Len(log), Ends) = {}
        /\ Rewards(log, Len(log), Generics) = {} /\ Told(r, log, Len(log))
    BY RunningTold
  <2>2. /\ Rewards(log, Len(log), {"activity_completed"}) = {}
        /\ Rewards(log, Len(log), {"loot_granted"}) = {}
        /\ Rewards(log, Len(log), {"progression_granted"}) = {}
    BY <2>1 DEF Rewards, OfKinds, Generics
  <2> QED
    BY <2>1, <2>2, FS_EmptySet DEF Rewarding, Granted
<1>2. {"activity_completed", "loot_granted", "progression_granted"} \subseteq Generics
  BY DEF Generics
<1> HIDE DEF log1, log2, log3, log4, paid, more, event
<1> DEFINE none == {}
           one  == none \cup {"Anchor"}
           both == one \cup {"Runner"}
<1>r. "Anchor" \notin none /\ "Runner" \notin one /\ both = Roles
  BY DEF Roles
<1>3. Rewarding(log1, r, 1, none, none)
  BY <1>1, <1>2, RewardTold DEF log1
<1> HIDE DEF none, one, both
<1>4. Rewarding(log2, r, 1, one, none)
  BY <1>2, <1>3, <1>r, RewardTold DEF log2, one
<1>5. Rewarding(log3, r, 1, one, one)
  BY <1>2, <1>4, <1>r, RewardTold DEF log3, one
<1>6. Rewarding(log4, r, 1, both, one)
  BY <1>2, <1>5, <1>r, RewardTold DEF log4, both
<1>7. Rewarding(paid, r, 1, Roles, Roles)
  <2>1. Rewarding(paid, r, 1, both, both)
    BY <1>2, <1>6, <1>r, RewardTold DEF paid, both
  <2> QED
    BY <1>r, <2>1
<1>8. PICK S : paid \in Seq(S)
  BY <1>7 DEF Rewarding
<1>9. /\ more[n + 1] = event /\ (n + 1) - 1 = n
  BY <1>8, Appended DEF more
<1>10. /\ \A x : Granted(more, n, x) = Granted(paid, n, x)
       /\ \A kinds : Rewards(more, n, kinds) = Rewards(paid, n, kinds)
  BY <1>8, ReadBefore DEF more
<1>11. event.kind = "cooperation_succeeded"
  BY DEF event, TerminalEvent, Event
<1>12. RewardsFit(more, n + 1)
  BY <1>7, <1>9, <1>10, <1>11 DEF RewardsFit, Rewarding
<1>13. EvidenceInv(q, more)
  BY <1>7, <1>8, <1>12, EndSeals DEF Rewarding, more, event
<1>14. more = log \o RewardEvents \o <<event>>
  <2>1. PICK T : log \in Seq(T)
    BY <1>1 DEF Rewarding
  <2>2. log \o RewardEvents = paid
    BY <2>1, FiveAppended DEF RewardEvents, log1, log2, log3, log4, paid
  <2> QED
    BY <1>8, <2>2, OneAppended DEF more
<1> QED
  BY <1>13, <1>14 DEF event

\* The end of a deadline has no subject: a late call that names a role is refused.
LEMMA LateRoleRefused ==
    ASSUME NEW q, q.outcome \in Timeouts, NEW s, NEW role \in Roles,
           NEW S, NEW log \in Seq(S)
    PROVE  ~Accepted(Append(log, TerminalEvent(q, s, role)))
<1> DEFINE event == TerminalEvent(q, s, role)
           more == Append(log, event)
           n == Len(log)
<1>1. /\ n + 1 \in DOMAIN more /\ more[n + 1] = event
  BY Appended
<1>2. /\ event.kind \in Ends /\ event.kind \in Family \ {"cooperation_started"}
      /\ event.data.subject = role /\ event.data.outcome = q.outcome
  BY DEF TerminalEvent, TerminalPayload, Event, Ends, Family
<1>3. ~EndsSubject(event.data)
  BY <1>2, NoneAssumption DEF EndsSubject, Timeouts
<1> HIDE DEF more, event
<1>4. \A started : ~TerminalValid(event.kind, event.data, started, more, (n + 1) - 1)
  BY <1>3 DEF TerminalValid
<1>5. ~Readable(more, n + 1)
  BY <1>1, <1>2, <1>4 DEF Readable
<1>6. ~Fits(more, n + 1)
  BY <1>1, <1>2, <1>5 DEF Fits, FamilyFits
<1> QED
  BY <1>1, <1>6 DEF Accepted, more, event

-----------------------------------------------------------------------------
(* What an audit asks of the stream                                         *)

\* There are finitely many kinds of contribution.
LEMMA ContributionsFinite == IsFiniteSet(Contributions)
<1>1. IsFiniteSet({"anchor_arrived"})
  BY FS_Singleton
<1>2. IsFiniteSet({"anchor_arrived"} \cup {"pinged"})
  BY <1>1, FS_AddElement
<1>3. IsFiniteSet(({"anchor_arrived"} \cup {"pinged"}) \cup {"runner_arrived"})
  BY <1>2, FS_AddElement
<1>4. IsFiniteSet((({"anchor_arrived"} \cup {"pinged"}) \cup {"runner_arrived"}) \cup {"revived"})
  BY <1>3, FS_AddElement
<1>5. IsFiniteSet(((({"anchor_arrived"} \cup {"pinged"}) \cup {"runner_arrived"})
                    \cup {"revived"}) \cup {"warden_completed"})
  BY <1>4, FS_AddElement
<1>6. ((({"anchor_arrived"} \cup {"pinged"}) \cup {"runner_arrived"})
          \cup {"revived"}) \cup {"warden_completed"} = Contributions
  BY DEF Contributions
<1> QED
  BY <1>5, <1>6

\* The stream of a running row is as far as the row, but for what has no event.
LEMMA RunningAudit ==
    ASSUME NEW r, NEW e \in Elapsed, RowInv(r, e), r.outcome = "None",
           NEW log, EvidenceInv(r, log)
    PROVE  /\ LastPhase(log) = CASE r.phase = "AwaitingPing"  -> "AwaitingAnchor"
                                 [] r.phase = "ReviveChannel" -> "RunnerDowned"
                                 [] OTHER                     -> r.phase
           /\ ContributionCount(log) = IF r.flags = {"anchor_arrived"} THEN 0
                                       ELSE Cardinality(r.flags)
<1> DEFINE n == Len(log)
<1>1. /\ OfKinds(log, n, Ends) = {} /\ Told(r, log, n)
  BY RunningTold
<1>2. r \in Rows /\ r.flags = RecordedIn[r.phase]
  BY LiveColumns
<1>3. /\ Has(log, n, "cooperation_pinged") <=> "pinged" \in r.flags
      /\ Has(log, n, "player_downed") <=> "runner_arrived" \in r.flags
      /\ Has(log, n, "player_revived") <=> "revived" \in r.flags
  <2>1. StreamMatches(r, log)
    BY DEF EvidenceInv
  <2> QED
    BY <2>1, StreamTells DEF Has
<1>4. r.phase \in {"AwaitingAnchor", "AwaitingPing", "AwaitingRunner", "RunnerDowned",
                   "ReviveChannel", "EncounterActive"}
  BY <1>2 DEF Rows, Phases
<1>5. LastPhase(log) = CASE r.phase = "AwaitingPing"  -> "AwaitingAnchor"
                         [] r.phase = "ReviveChannel" -> "RunnerDowned"
                         [] OTHER                     -> r.phase
  <2>1. LastPhase(log) =
           IF Has(log, n, "player_revived") THEN "EncounterActive"
           ELSE IF Has(log, n, "player_downed") THEN "RunnerDowned"
           ELSE IF Has(log, n, "cooperation_pinged") THEN "AwaitingRunner"
           ELSE "AwaitingAnchor"
    <3>1. /\ "revived" \in r.flags => "runner_arrived" \in r.flags
          /\ "runner_arrived" \in r.flags => "pinged" \in r.flags
      BY <1>2, <1>4 DEF RecordedIn
    <3> HIDE DEF n
    <3> QED
      BY <1>1, <1>3, <3>1 DEF LastPhase, n
  <2> QED
    BY <1>2, <1>3, <1>4, <2>1 DEF RecordedIn
<1>6. Cardinality(OfKinds(log, n, Steps)) = Cardinality(r.flags \ {"anchor_arrived"})
  BY DEF EvidenceInv
<1>7. ContributionCount(log) =
         IF "pinged" \in r.flags THEN 1 + Cardinality(r.flags \ {"anchor_arrived"}) ELSE 0
  BY <1>1, <1>3, <1>6 DEF ContributionCount, Steps
<1> DEFINE counted == ContributionCount(log) =
                         IF r.flags = {"anchor_arrived"} THEN 0 ELSE Cardinality(r.flags)
<1>8. ASSUME "pinged" \in r.flags PROVE counted
  <2>1. "anchor_arrived" \in r.flags /\ r.flags # {"anchor_arrived"}
    BY <1>2, <1>4, <1>8 DEF RecordedIn
  <2>2. IsFiniteSet(r.flags \ {"anchor_arrived"})
    <3>1. IsFiniteSet(Contributions)
      BY ContributionsFinite
    <3>2. r.flags \ {"anchor_arrived"} \subseteq Contributions
      BY <1>2 DEF Rows
    <3> QED
      BY <3>1, <3>2, FS_Subset
  <2>3. Cardinality((r.flags \ {"anchor_arrived"}) \cup {"anchor_arrived"})
           = Cardinality(r.flags \ {"anchor_arrived"}) + 1
    BY <2>2, FS_AddElement
  <2>4. (r.flags \ {"anchor_arrived"}) \cup {"anchor_arrived"} = r.flags
    BY <2>1
  <2>5. Cardinality(r.flags \ {"anchor_arrived"}) \in Nat
    BY <2>2, FS_CardinalityType
  <2> QED
    BY <1>7, <1>8, <2>1, <2>3, <2>4, <2>5
<1>9. ASSUME "pinged" \notin r.flags PROVE counted
  <2>1. r.flags = {} \/ r.flags = {"anchor_arrived"}
    BY <1>2, <1>4, <1>9 DEF RecordedIn
  <2> QED
    BY <1>7, <1>9, <2>1, FS_EmptySet
<1> QED
  BY <1>5, <1>8, <1>9

\* The stream of an ended row is as far as the row.
LEMMA EndedAudit ==
    ASSUME NEW r, NEW e \in Elapsed, RowInv(r, e), r.outcome # "None",
           NEW log, EvidenceInv(r, log)
    PROVE  LastPhase(log) = r.phase /\ ContributionCount(log) = Cardinality(r.flags)
<1> DEFINE n == Len(log)
           ended == OfKinds(log, n, Ends)
           j == CHOOSE k \in ended : TRUE
           subjects == IF r.outcome = "AbandonedDisconnect" THEN Roles ELSE {Fallen(r)}
<1>1. TellsEnd(r, log, subjects)
  BY DEF EvidenceInv, StreamMatches
<1>2. PICK subject : {log[k] : k \in ended} = {TerminalEvent(r, Loaded(r), subject)}
  BY <1>1 DEF TellsEnd
<1>3. j \in ended /\ log[j] = TerminalEvent(r, Loaded(r), subject)
  BY <1>2
<1>4. Loaded(r).contributions = r.flags
  BY DEF RowInv, Meaning
<1>5. log[j].data.phase = r.phase /\ log[j].data.contributions.flags = r.flags
  BY <1>3, <1>4 DEF TerminalEvent, Event, TerminalPayload
<1>6. ended # {}
  BY <1>3
<1>7. LastPhase(log) = log[j].data.phase
  BY <1>6 DEF LastPhase
<1>8. ContributionCount(log) = Cardinality(log[j].data.contributions.flags)
  BY <1>6 DEF ContributionCount
<1> QED
  BY <1>5, <1>7, <1>8

-----------------------------------------------------------------------------
(* What a call writes                                                       *)

\* The inductive invariant: the row is one that can be stored, its stream tells it, the
\* grants follow its outcome, and evidence is refused only after a deadline.
StoreInv ==
    /\ clock \in Elapsed
    /\ reply \in Answers \cup {"Conflict", "EvidenceRefused", "Lost"}
    /\ row = None => events = Admission
    /\ row # None => RowInv(row, clock) /\ EvidenceInv(row, events)
    /\ grants = [x \in Roles |-> IF row # None /\ row.outcome = "Succeeded" THEN 1 ELSE 0]
    /\ reply = "EvidenceRefused" =>
          row # None /\ Running(Meaning(row)) /\ Expired(Meaning(row), clock)

\* A transaction that writes nothing.
Unwritten == {"Replayed", "Pending", "Rejected", "Terminal", "Conflict", "Expired"}
Leaves(t, said) == t = Stays(said) /\ said \in Unwritten

\* One that writes the state s of a step of the domain, and tells its stream.
Changes(t, s) ==
    /\ row.outcome = "None" /\ t.row # row
    /\ RowInv(t.row, clock) /\ EvidenceInv(t.row, t.events)
    /\ Meaning(t.row) = s /\ StepOf(Meaning(row), s, clock)
    /\ t.grants = [x \in Roles |-> IF t.row.outcome = "Succeeded" THEN 1 ELSE 0]
    /\ t.said \in {"Applied", "Cancelled"}
    /\ t.said = "Cancelled" => t.row.phase = "RunnerDowned" /\ t.row.revive = None

\* One whose evidence is refused: an end after a deadline that names a participant.
RefusedLate(t) ==
    /\ t.said = "Applied" /\ RowChecks(t.row) /\ ~Accepted(t.events)
    /\ Running(Meaning(row)) /\ Expired(Meaning(row), clock)

\* What ends a running row is written, with its terminal event and its rewards.
LEMMA EndChanges ==
    ASSUME StoreInv, row # None, row.outcome = "None",
           NEW q, NEW subject \in Roles \cup {None}, EndsAs(row, q, subject, clock),
           q.outcome = "Succeeded" => subject = None,
           NEW r, q = EndedRow(r, q.outcome, clock)
    PROVE  Changes(End(r, Meaning(q), subject), Meaning(q))
<1> DEFINE s == Meaning(q)
           t == End(r, s, subject)
           won == q.outcome = "Succeeded"
           last == TerminalEvent(q, s, subject)
<1>1. s.terminal = q.outcome
  BY DEF Meaning
<1> HIDE DEF s
<1>2. q = [r EXCEPT !.outcome = s.terminal, !.terminalAt = clock]
  BY <1>1 DEF EndedRow
<1>3. /\ t.row = q /\ t.said = "Applied"
      /\ t.events = events \o (IF won THEN RewardEvents ELSE <<>>) \o <<last>>
      /\ t.grants = [x \in Roles |-> grants[x] + IF won THEN 1 ELSE 0]
  BY <1>1, <1>2 DEF End, Transaction
<1> HIDE DEF t, last
<1>4. /\ RowInv(row, clock) /\ EvidenceInv(row, events) /\ clock \in Elapsed
      /\ grants = [x \in Roles |-> 0]
  BY DEF StoreInv
<1>5. EvidenceInv(q, t.events)
  <2>1. CASE won
    BY <1>3, <1>4, <2>1, SuccessTold DEF s, last
  <2>2. CASE ~won
    <3>1. PICK S : events \in Seq(S)
      BY <1>4 DEF EvidenceInv
    <3>2. t.events = Append(events, last)
      BY <1>3, <2>2, <3>1, OneAppended
    <3> QED
      BY <1>4, <2>2, <3>2, FailureTold DEF s, last
  <2> QED
    BY <2>1, <2>2
<1>6. /\ RowInv(q, clock) /\ StepOf(Meaning(row), s, clock)
      /\ q.outcome # "None"
  BY DEF EndsAs, s, Outcomes, Failures, Timeouts
<1>7. t.grants = [x \in Roles |-> IF q.outcome = "Succeeded" THEN 1 ELSE 0]
  BY <1>3, <1>4
<1> QED
  BY <1>3, <1>5, <1>6, <1>7 DEF Changes, s, t

-----------------------------------------------------------------------------
(* What a commit leaves                                                     *)

\* A transaction whose row and evidence can be stored.
Written(t) ==
    /\ RowInv(t.row, clock) /\ EvidenceInv(t.row, t.events)
    /\ t.grants = [x \in Roles |-> IF t.row.outcome = "Succeeded" THEN 1 ELSE 0]
    /\ t.said \in {"Applied", "Replayed", "Pending", "Cancelled"}

Commits(t) ==
    /\ row' = t.row /\ events' = t.events /\ grants' = t.grants
    /\ reply' \in {t.said, "Lost"} /\ clock' = clock

\* It passes the checks and the encoder: only its commit or its answer can be lost.
LEMMA WrittenSettles ==
    ASSUME NEW t, Written(t), Settle(t)
    PROVE  Commits(t) \/ Abort("Lost")
<1>1. RowChecks(t.row) /\ Accepted(t.events)
  BY DEF Written, RowInv, EvidenceInv, StreamMatches
<1> QED
  BY <1>1 DEF Settle, Written, Commits

\* One that writes nothing changes nothing but the answer.
LEMMA LeavesSettles ==
    ASSUME StoreInv, row # None, NEW t, NEW said, Leaves(t, said), Settle(t)
    PROVE  /\ UNCHANGED <<row, events, grants, clock>>
           /\ reply' = said \/ (said \in {"Replayed", "Pending"} /\ reply' = "Lost")
<1>1. /\ t.row = row /\ t.events = events /\ t.grants = grants /\ t.said = said
  BY DEF Leaves, Stays, Writes, Transaction
<1>2. CASE said \in {"Replayed", "Pending"}
  <2>1. Written(t)
    BY <1>1, <1>2 DEF Written, StoreInv
  <2> QED
    BY <1>1, <1>2, <2>1, WrittenSettles DEF Commits, Abort
<1>3. CASE said \notin {"Replayed", "Pending"}
  BY <1>1, <1>3 DEF Settle, Abort, Leaves, Unwritten
<1> QED
  BY <1>2, <1>3

\* A change is stored as a whole or not at all.
LEMMA ChangesSettles ==
    ASSUME NEW t, NEW s, Changes(t, s), Settle(t)
    PROVE  Commits(t) \/ Abort("Lost")
  BY WrittenSettles DEF Changes, Written

\* An end that comes after a deadline and names a participant is refused.
LEMMA RefusedSettles ==
    ASSUME NEW t, RefusedLate(t), Settle(t)
    PROVE  Abort("EvidenceRefused")
  BY DEF RefusedLate, Settle

\* Every transaction of a stored operation is one of the three.
Sound(t) == (\E said : Leaves(t, said)) \/ (\E s : Changes(t, s)) \/ RefusedLate(t)

\* What a step of the store may do.
EndStays == row # None /\ row.outcome # "None" => UNCHANGED <<row, events, grants>>
AnswerHolds ==
    clock' = clock =>
        /\ reply' = "Cancelled" => row'.phase = "RunnerDowned" /\ row'.revive = None
        /\ reply' \in {"Replayed", "Pending", "Rejected", "Terminal", "Conflict"} =>
              UNCHANGED <<row, events, grants>>
        /\ reply' = "Applied" /\ reply # "Applied" => row' # row

\* A lost answer leaves all as it was.
LEMMA LostKeeps ==
    ASSUME StoreInv, Abort("Lost")
    PROVE  StoreInv' /\ EndStays /\ AnswerHolds
  BY DEF StoreInv, Abort, EndStays, AnswerHolds

\* Row, evidence and grants of a change are stored together.
LEMMA CommitKeeps ==
    ASSUME StoreInv, NEW t, Written(t), Commits(t)
    PROVE  StoreInv'
<1>1. row' # None
  BY StoreAssumption DEF Written, Commits, RowInv
<1>2. clock' \in Elapsed /\ reply' \in Answers \cup {"Conflict", "EvidenceRefused", "Lost"}
  BY DEF StoreInv, Written, Commits, Answers
<1>3. RowInv(row', clock') /\ EvidenceInv(row', events')
  BY DEF Written, Commits
<1>4. grants' = [x \in Roles |-> IF row' # None /\ row'.outcome = "Succeeded" THEN 1 ELSE 0]
  BY <1>1 DEF Written, Commits
<1>5. reply' # "EvidenceRefused"
  BY DEF Written, Commits
<1> QED
  BY <1>1, <1>2, <1>3, <1>4, <1>5 DEF StoreInv

\* Whichever it is, the invariant is kept, an end stays, and the answer is true.
LEMMA SoundKeeps ==
    ASSUME StoreInv, row # None, NEW t, Sound(t), Settle(t)
    PROVE  StoreInv' /\ EndStays /\ AnswerHolds
<1>1. ASSUME NEW said, Leaves(t, said)
      PROVE  StoreInv' /\ EndStays /\ AnswerHolds
  <2>1. /\ UNCHANGED <<row, events, grants, clock>>
        /\ reply' = said \/ reply' = "Lost"
        /\ said \in Unwritten
    BY <1>1, LeavesSettles DEF Leaves
  <2>2. reply' \in Unwritten \cup {"Lost"}
    BY <2>1
  <2>3. StoreInv'
    BY <2>1, <2>2 DEF StoreInv, Unwritten, Answers
  <2> QED
    BY <2>1, <2>2, <2>3 DEF EndStays, AnswerHolds, Unwritten
<1>2. ASSUME NEW s, Changes(t, s)
      PROVE  StoreInv' /\ EndStays /\ AnswerHolds
  <2>1. CASE Commits(t)
    <3>1. Written(t) /\ row.outcome = "None" /\ t.row # row
      BY <1>2 DEF Changes, Written
    <3>2. StoreInv'
      BY <2>1, <3>1, CommitKeeps
    <3>3. reply' \in {"Applied", "Cancelled", "Lost"}
      BY <1>2, <2>1 DEF Changes, Commits
    <3>4. reply' = "Cancelled" => row'.phase = "RunnerDowned" /\ row'.revive = None
      BY <1>2, <2>1 DEF Changes, Commits
    <3>5. row' # row
      BY <2>1, <3>1 DEF Commits
    <3> QED
      BY <3>1, <3>2, <3>3, <3>4, <3>5 DEF EndStays, AnswerHolds
  <2> QED
    BY <1>2, <2>1, ChangesSettles, LostKeeps
<1>3. ASSUME RefusedLate(t)
      PROVE  StoreInv' /\ EndStays /\ AnswerHolds
  <2>1. /\ UNCHANGED <<row, events, grants, clock>> /\ reply' = "EvidenceRefused"
        /\ Running(Meaning(row)) /\ Expired(Meaning(row), clock)
    BY <1>3, RefusedSettles DEF RefusedLate, Abort
  <2>2. StoreInv'
    BY <2>1 DEF StoreInv
  <2> QED
    BY <2>1, <2>2 DEF EndStays, AnswerHolds
<1> QED
  BY <1>1, <1>2, <1>3 DEF Sound

-----------------------------------------------------------------------------
(* What each call writes                                                    *)

\* What mutate_cooperation makes of an answer of the domain; a retry of what was done
\* at another time, which some calls can be, conflicts.
Follows(t, result, again) ==
    /\ result.answer \in Answers
    /\ result.answer \in {"Applied", "Cancelled"} =>
          Changes(t, result.state) /\ t.said = result.answer
    /\ result.answer = "Expired" => Changes(t, result.state) /\ t.said = "Applied"
    /\ result.answer \in {"Terminal", "Rejected"} => Leaves(t, result.answer)
    /\ result.answer \in {"Replayed", "Pending"} =>
          Leaves(t, result.answer) \/ (again = TRUE /\ Leaves(t, "Conflict"))

\* An end that a deadline brings is written.
LEMMA TimeoutChanges ==
    ASSUME StoreInv, row # None, row.outcome = "None", Expired(Meaning(row), clock)
    PROVE  LET s == CommitTerminal(Meaning(row), TimeoutAt(Meaning(row), clock))
           IN  Changes(End(row, s, None), s) /\ End(row, s, None).said = "Applied"
<1> DEFINE s == CommitTerminal(Meaning(row), TimeoutAt(Meaning(row), clock))
           q == EndedRow(row, TimeoutAt(Meaning(row), clock), clock)
<1>1. RowInv(row, clock) /\ clock \in Elapsed
  BY DEF StoreInv
<1>2. EndsAs(row, q, None, clock) /\ Meaning(q) = s
  BY <1>1, TimeoutEnds
<1>3. TimeoutAt(Meaning(row), clock) \in Timeouts
  BY DEF TimeoutAt, Timeouts
<1>4. row \in Rows
  BY <1>1 DEF RowInv
<1>5. q.outcome = TimeoutAt(Meaning(row), clock)
  BY <1>1, <1>3, <1>4, EndedColumns DEF Outcomes, Failures
<1>6. q = EndedRow(row, q.outcome, clock) /\ q.outcome # "Succeeded"
  BY <1>3, <1>5 DEF Timeouts
<1> HIDE DEF q, s
<1>7. Changes(End(row, Meaning(q), None), Meaning(q))
  BY <1>2, <1>6, EndChanges
<1>8. End(row, s, None).said = "Applied"
  BY DEF End, Transaction
<1> QED
  BY <1>2, <1>7, <1>8 DEF s

\* An applied change is written by its call.
LEMMA WritesChange ==
    ASSUME StoreInv, row # None, row.outcome = "None",
           NEW r, NEW stream, RowInv(r, clock), EvidenceInv(r, stream), r.outcome = "None",
           r # row, NEW s, Meaning(r) = s, StepOf(Meaning(row), s, clock),
           NEW said \in {"Applied", "Cancelled"},
           said = "Cancelled" => r.phase = "RunnerDowned" /\ r.revive = None
    PROVE  Changes(Writes(r, stream, said), s) /\ Writes(r, stream, said).said = said
<1> DEFINE t == Writes(r, stream, said)
<1>1. t.row = r /\ t.events = stream /\ t.grants = grants /\ t.said = said
  BY DEF Writes, Transaction
<1>2. grants = [x \in Roles |-> 0]
  BY DEF StoreInv
<1> HIDE DEF t
<1>3. Changes(t, s)
  BY <1>1, <1>2 DEF Changes
<1> QED
  BY <1>1, <1>3 DEF t

\* How a call is served: the row r and the stream are what it writes when it is applied.
Served(t, result, again, r, stream) ==
    /\ result.answer \in Answers
    /\ result.answer = "Expired" =>
          /\ row.outcome = "None" /\ Expired(Meaning(row), clock)
          /\ result.state = CommitTerminal(Meaning(row), TimeoutAt(Meaning(row), clock))
          /\ t = End(row, result.state, None)
    /\ result.answer \in {"Applied", "Cancelled"} =>
          /\ row.outcome = "None" /\ t = Writes(r, stream, result.answer)
          /\ RowInv(r, clock) /\ EvidenceInv(r, stream)
          /\ r.outcome = "None" /\ r # row
          /\ Meaning(r) = result.state /\ StepOf(Meaning(row), result.state, clock)
          /\ result.answer = "Cancelled" => r.phase = "RunnerDowned" /\ r.revive = None
    /\ result.answer \in {"Terminal", "Rejected"} => t = Stays(result.answer)
    /\ result.answer \in {"Replayed", "Pending"} =>
          t = Stays(result.answer) \/ (again = TRUE /\ t = Stays("Conflict"))

\* Whatever the domain answers, mutate_cooperation follows it.
LEMMA MutateFollows ==
    ASSUME StoreInv, row # None, NEW t, NEW result, NEW again, NEW r, NEW stream,
           Served(t, result, again, r, stream)
    PROVE  Follows(t, result, again)
<1> USE DEF Served
<1>1. CASE result.answer = "Expired"
  BY <1>1, TimeoutChanges DEF Follows
<1>2. CASE result.answer \in {"Applied", "Cancelled"}
  BY <1>2, WritesChange DEF Follows
<1>3. CASE result.answer \in {"Terminal", "Rejected", "Replayed", "Pending"}
  BY <1>3 DEF Follows, Leaves, Unwritten
<1> QED
  BY <1>1, <1>2, <1>3 DEF Answers

\* arrive_anchor: the arrival, or its retry, which replays at its own time only.
LEMMA AnchorCallFollows ==
    ASSUME StoreInv, row # None, NEW t \in ArriveAnchorCall(Meaning(row))
    PROVE  /\ row.anchorAt # None => Follows(t, ObserveDeadlines(Meaning(row), clock), TRUE)
           /\ row.anchorAt = None =>
                 Follows(t, ArriveAnchor(Meaning(row), "Anchor", "RelayAnchor", clock), FALSE)
<1> DEFINE s == Meaning(row)
<1>1. RowInv(row, clock) /\ EvidenceInv(row, events) /\ clock \in Elapsed
  BY DEF StoreInv
<1>2. s.terminal = row.outcome /\ (row.outcome = "None" => s.phase = row.phase)
  BY DEF Meaning
<1>3. ASSUME row.anchorAt # None
      PROVE  Follows(t, ObserveDeadlines(s, clock), TRUE)
  <2> DEFINE result == ObserveDeadlines(s, clock)
  <2>1. /\ result.answer \in {"Terminal", "Expired", "Pending"}
        /\ result.answer = "Expired" =>
              /\ row.outcome = "None" /\ Expired(s, clock)
              /\ result.state = CommitTerminal(s, TimeoutAt(s, clock))
    BY <1>2 DEF ObserveDeadlines, Observe, Result, Running
  <2>2. t = Mutate(result, row.anchorAt # clock, AnchorRow(row, clock), events)
    BY <1>3 DEF ArriveAnchorCall, AnchorRow
  <2> HIDE DEF s, result
  <2>3. /\ result.answer = "Expired" => t = End(row, result.state, None)
        /\ result.answer = "Terminal" => t = Stays("Terminal")
        /\ result.answer = "Pending" => t = Stays("Pending") \/ t = Stays("Conflict")
    BY <2>2 DEF Mutate
  <2>4. Served(t, result, TRUE, row, events)
    BY <2>1, <2>3 DEF Served, Answers, s
  <2> QED
    BY <2>4, MutateFollows DEF s, result
<1>4. ASSUME row.anchorAt = None
      PROVE  Follows(t, ArriveAnchor(s, "Anchor", "RelayAnchor", clock), FALSE)
  <2> DEFINE result == ArriveAnchor(s, "Anchor", "RelayAnchor", clock)
             q == AnchorRow(row, clock)
  <2>1. /\ result.answer \in {"Terminal", "Expired", "Applied", "Rejected"}
        /\ result.answer = "Expired" =>
              /\ row.outcome = "None" /\ Expired(s, clock)
              /\ result.state = CommitTerminal(s, TimeoutAt(s, clock))
        /\ result.answer = "Applied" => row.outcome = "None" /\ row.phase = "AwaitingAnchor"
    BY <1>2 DEF ArriveAnchor, Observe, Result, Running
  <2>2. t = Mutate(result, FALSE, q, events)
    BY <1>4 DEF ArriveAnchorCall, AnchorRow
  <2>3. StepOf(s, result.state, clock)
    BY ArriveAnchorSteps
  <2>4. ASSUME result.answer = "Applied"
        PROVE  /\ RowInv(q, clock) /\ EvidenceInv(q, events) /\ Meaning(q) = result.state
               /\ q.outcome = "None" /\ q # row
    <3>1. RowInv(q, clock) /\ Meaning(q) = result.state
      BY <1>1, <2>1, <2>4, AnchorGrows
    <3>2. EvidenceInv(q, events)
      BY <1>1, <2>1, <2>4, SilentCalls
    <3>3. row \in Rows
      BY <1>1 DEF RowInv
    <3>4. q.phase = "AwaitingPing" /\ q.outcome = row.outcome
      BY <3>3 DEF AnchorRow, Rows
    <3> QED
      BY <2>1, <2>4, <3>1, <3>2, <3>4
  <2> HIDE DEF s, result, q
  <2>5. /\ result.answer = "Expired" => t = End(row, result.state, None)
        /\ result.answer = "Applied" => t = Writes(q, events, "Applied")
        /\ result.answer \in {"Terminal", "Rejected"} => t = Stays(result.answer)
    BY <2>2 DEF Mutate
  <2>6. Served(t, result, FALSE, q, events)
    BY <2>1, <2>3, <2>4, <2>5 DEF Served, Answers, s
  <2> QED
    BY <2>6, MutateFollows DEF s, result
<1> QED
  BY <1>3, <1>4

\* ping_cooperation.
LEMMA PingCallFollows ==
    ASSUME StoreInv, row # None, NEW t \in PingCall(Meaning(row))
    PROVE  \E id \in OperationIds :
              Follows(t, Ping(Meaning(row), "Anchor", "RelayConsole", id, clock), FALSE)
<1> DEFINE s == Meaning(row)
<1>1. RowInv(row, clock) /\ EvidenceInv(row, events) /\ clock \in Elapsed
  BY DEF StoreInv
<1>2. s.terminal = row.outcome /\ (row.outcome = "None" => s.phase = row.phase)
  BY DEF Meaning
<1>3. PICK id \in OperationIds :
         t = Mutate(Ping(s, "Anchor", "RelayConsole", id, clock), FALSE, Pinged(id),
                    Append(events, Event("cooperation_pinged", "Anchor",
                                         PingPayload(Pinged(id)))))
  BY DEF PingCall
<1> DEFINE result == Ping(s, "Anchor", "RelayConsole", id, clock)
           q == PingRow(row, id, clock)
           log == Append(events, Event("cooperation_pinged", "Anchor", PingPayload(q)))
<1>4. /\ result.answer \in {"Terminal", "Expired", "Replayed", "Applied", "Rejected"}
      /\ result.answer = "Expired" =>
            /\ row.outcome = "None" /\ Expired(s, clock)
            /\ result.state = CommitTerminal(s, TimeoutAt(s, clock))
      /\ result.answer = "Applied" => row.outcome = "None" /\ row.phase = "AwaitingPing"
  BY <1>2 DEF Ping, Observe, Result, Running
<1>5. t = Mutate(result, FALSE, q, log)
  BY <1>3 DEF Pinged, PingRow
<1>6. StepOf(s, result.state, clock)
  BY PingSteps
<1>7. ASSUME result.answer = "Applied"
      PROVE  /\ RowInv(q, clock) /\ EvidenceInv(q, log) /\ Meaning(q) = result.state
             /\ q.outcome = "None" /\ q # row
  <2>1. RowInv(q, clock) /\ Meaning(q) = result.state
    BY <1>1, <1>4, <1>7, PingGrows
  <2>2. EvidenceInv(q, log)
    BY <1>1, <1>4, <1>7, <2>1, PingTold
  <2>3. row \in Rows
    BY <1>1 DEF RowInv
  <2>4. q.phase = "AwaitingRunner" /\ q.outcome = row.outcome
    BY <2>3 DEF PingRow, Rows
  <2> QED
    BY <1>4, <1>7, <2>1, <2>2, <2>4
<1> HIDE DEF s, result, q, log
<1>8. /\ result.answer = "Expired" => t = End(row, result.state, None)
      /\ result.answer = "Applied" => t = Writes(q, log, "Applied")
      /\ result.answer \in {"Terminal", "Rejected", "Replayed"} => t = Stays(result.answer)
  BY <1>5 DEF Mutate
<1>9. Served(t, result, FALSE, q, log)
  BY <1>4, <1>6, <1>7, <1>8 DEF Served, Answers, s
<1>10. Follows(t, result, FALSE)
  BY <1>9, MutateFollows
<1> QED
  BY <1>10 DEF s, result

\* down_cooperation_runner: the fall, or its retry.
LEMMA FallCallFollows ==
    ASSUME StoreInv, row # None, NEW t \in DownRunnerCall(Meaning(row))
    PROVE  /\ row.runnerAt # None => Follows(t, ObserveDeadlines(Meaning(row), clock), TRUE)
           /\ row.runnerAt = None =>
                 Follows(t, ArriveRunner(Meaning(row), "Runner", "RelayConsole", clock), FALSE)
<1> DEFINE s == Meaning(row)
           q == FallRow(row, clock)
           log == Append(events, Event("player_downed", "Runner", DownPayload(q)))
<1>1. RowInv(row, clock) /\ EvidenceInv(row, events) /\ clock \in Elapsed
  BY DEF StoreInv
<1>2. s.terminal = row.outcome /\ (row.outcome = "None" => s.phase = row.phase)
  BY DEF Meaning
<1>3. ASSUME row.runnerAt # None
      PROVE  Follows(t, ObserveDeadlines(s, clock), TRUE)
  <2> DEFINE result == ObserveDeadlines(s, clock)
  <2>1. /\ result.answer \in {"Terminal", "Expired", "Pending"}
        /\ result.answer = "Expired" =>
              /\ row.outcome = "None" /\ Expired(s, clock)
              /\ result.state = CommitTerminal(s, TimeoutAt(s, clock))
    BY <1>2 DEF ObserveDeadlines, Observe, Result, Running
  <2>2. t = Mutate(result, row.runnerAt # clock, q, log)
    BY <1>3 DEF DownRunnerCall, FallRow
  <2> HIDE DEF s, result, q, log
  <2>3. /\ result.answer = "Expired" => t = End(row, result.state, None)
        /\ result.answer = "Terminal" => t = Stays("Terminal")
        /\ result.answer = "Pending" => t = Stays("Pending") \/ t = Stays("Conflict")
    BY <2>2 DEF Mutate
  <2>4. Served(t, result, TRUE, row, events)
    BY <2>1, <2>3 DEF Served, Answers, s
  <2> QED
    BY <2>4, MutateFollows DEF s, result
<1>4. ASSUME row.runnerAt = None
      PROVE  Follows(t, ArriveRunner(s, "Runner", "RelayConsole", clock), FALSE)
  <2> DEFINE result == ArriveRunner(s, "Runner", "RelayConsole", clock)
  <2>1. /\ result.answer \in {"Terminal", "Expired", "Applied", "Rejected"}
        /\ result.answer = "Expired" =>
              /\ row.outcome = "None" /\ Expired(s, clock)
              /\ result.state = CommitTerminal(s, TimeoutAt(s, clock))
        /\ result.answer = "Applied" => row.outcome = "None" /\ row.phase = "AwaitingRunner"
    BY <1>2 DEF ArriveRunner, Observe, Result, Running
  <2>2. t = Mutate(result, FALSE, q, log)
    BY <1>4 DEF DownRunnerCall, FallRow
  <2>3. StepOf(s, result.state, clock)
    BY ArriveRunnerSteps
  <2>4. ASSUME result.answer = "Applied"
        PROVE  /\ RowInv(q, clock) /\ EvidenceInv(q, log) /\ Meaning(q) = result.state
               /\ q.outcome = "None" /\ q # row
    <3>1. RowInv(q, clock) /\ Meaning(q) = result.state
      BY <1>1, <2>1, <2>4, FallGrows
    <3>2. EvidenceInv(q, log)
      BY <1>1, <2>1, <2>4, <3>1, FallTold
    <3>3. row \in Rows
      BY <1>1 DEF RowInv
    <3>4. q.phase = "RunnerDowned" /\ q.outcome = row.outcome
      BY <3>3 DEF FallRow, Rows
    <3> QED
      BY <2>1, <2>4, <3>1, <3>2, <3>4
  <2> HIDE DEF s, result, q, log
  <2>5. /\ result.answer = "Expired" => t = End(row, result.state, None)
        /\ result.answer = "Applied" => t = Writes(q, log, "Applied")
        /\ result.answer \in {"Terminal", "Rejected"} => t = Stays(result.answer)
    BY <2>2 DEF Mutate
  <2>6. Served(t, result, FALSE, q, log)
    BY <2>1, <2>3, <2>4, <2>5 DEF Served, Answers, s
  <2> QED
    BY <2>6, MutateFollows DEF s, result
<1> QED
  BY <1>3, <1>4

\* start_cooperation_revive.
LEMMA ChannelCallFollows ==
    ASSUME StoreInv, row # None, NEW t \in StartReviveCall(Meaning(row))
    PROVE  \E id \in OperationIds, distance \in Distances :
              Follows(t, StartRevive(Meaning(row), "Anchor", "Runner", distance, id, clock),
                      FALSE)
<1> DEFINE s == Meaning(row)
<1>1. RowInv(row, clock) /\ EvidenceInv(row, events) /\ clock \in Elapsed
  BY DEF StoreInv
<1>2. s.terminal = row.outcome /\ (row.outcome = "None" => s.phase = row.phase)
  BY DEF Meaning
<1>3. PICK id \in OperationIds, distance \in Distances : t = OpenRevive(s, id, distance)
  BY DEF StartReviveCall
<1> DEFINE result == StartRevive(s, "Anchor", "Runner", distance, id, clock)
           q == ChannelRow(row, id, clock)
<1>4. /\ result.answer \in {"Terminal", "Expired", "Replayed", "Applied", "Rejected"}
      /\ result.answer = "Expired" =>
            /\ row.outcome = "None" /\ Expired(s, clock)
            /\ result.state = CommitTerminal(s, TimeoutAt(s, clock))
      /\ result.answer = "Applied" => row.outcome = "None" /\ row.phase = "RunnerDowned"
  BY <1>2 DEF StartRevive, Observe, Result, Running
<1>5. t = Mutate(result, FALSE, q, events)
  BY <1>3 DEF ChannelRow, OpenRevive
<1>6. StepOf(s, result.state, clock)
  BY StartReviveSteps
<1>7. ASSUME result.answer = "Applied"
      PROVE  /\ RowInv(q, clock) /\ EvidenceInv(q, events) /\ Meaning(q) = result.state
             /\ q.outcome = "None" /\ q # row
  <2>1. RowInv(q, clock) /\ Meaning(q) = result.state
    BY <1>1, <1>4, <1>7, ChannelGrows
  <2>2. EvidenceInv(q, events)
    BY <1>1, <1>4, <1>7, SilentCalls
  <2>3. row \in Rows
    BY <1>1 DEF RowInv
  <2>4. q.phase = "ReviveChannel" /\ q.outcome = row.outcome
    BY <2>3 DEF ChannelRow, Rows
  <2> QED
    BY <1>4, <1>7, <2>1, <2>2, <2>4
<1> HIDE DEF s, result, q
<1>8. /\ result.answer = "Expired" => t = End(row, result.state, None)
      /\ result.answer = "Applied" => t = Writes(q, events, "Applied")
      /\ result.answer \in {"Terminal", "Rejected", "Replayed"} => t = Stays(result.answer)
  BY <1>5 DEF Mutate
<1>9. Served(t, result, FALSE, q, events)
  BY <1>4, <1>6, <1>7, <1>8 DEF Served, Answers, s
<1>10. Follows(t, result, FALSE)
  BY <1>9, MutateFollows
<1> QED
  BY <1>10 DEF s, result

\* observe_cooperation_revive: the channel goes on, is cancelled or is complete; only
\* the retry of a completion at another time conflicts.
LEMMA ReviveCallFollows ==
    ASSUME StoreInv, row # None, NEW t \in ObserveReviveCall(Meaning(row))
    PROVE  \E id \in OperationIds, distance \in Distances, again \in BOOLEAN :
              LET result == ObserveRevive(Meaning(row), "Anchor", "Runner",
                                          distance, id, clock)
              IN  Follows(t, result, again) /\ (again = TRUE => result.answer = "Replayed")
<1> DEFINE s == Meaning(row)
<1>1. RowInv(row, clock) /\ EvidenceInv(row, events) /\ clock \in Elapsed
  BY DEF StoreInv
<1>2. s.terminal = row.outcome /\ (row.outcome = "None" => s.phase = row.phase)
  BY DEF Meaning
<1>3. PICK id \in OperationIds, distance \in Distances :
         t = Revive(ObserveRevive(s, "Anchor", "Runner", distance, id, clock))
  BY DEF ObserveReviveCall
<1> DEFINE result == ObserveRevive(s, "Anchor", "Runner", distance, id, clock)
           revived == RevivedRow(row, clock)
           q == IF result.answer = "Cancelled" THEN CancelRow(row) ELSE revived
           log == IF result.answer = "Cancelled" THEN events
                  ELSE Append(events, Event("player_revived", "Runner",
                                            RevivePayload(revived)))
<1>4. /\ result.answer \in {"Terminal", "Expired", "Replayed", "Pending", "Cancelled",
                            "Applied", "Rejected"}
      /\ result.answer = "Expired" =>
            /\ row.outcome = "None" /\ Expired(s, clock)
            /\ result.state = CommitTerminal(s, TimeoutAt(s, clock))
      /\ result.answer \in {"Applied", "Cancelled"} =>
            row.outcome = "None" /\ row.phase = "ReviveChannel"
  BY <1>2 DEF ObserveRevive, Observe, Result, Running
<1>5. t = Mutate(result, result.answer = "Replayed" /\ row.revivedAt # clock, q, log)
  BY <1>3 DEF Revive, RevivedRow, CancelRow
<1>6. StepOf(s, result.state, clock)
  <2>1. s \in CooperationStates /\ distance \in Int
    BY <1>1, StoreAssumption DEF RowInv, Consistent
  <2> QED
    BY <1>1, <2>1, ObserveReviveSteps
<1>7. ASSUME result.answer \in {"Applied", "Cancelled"}
      PROVE  /\ RowInv(q, clock) /\ EvidenceInv(q, log) /\ Meaning(q) = result.state
             /\ q.outcome = "None" /\ q # row
             /\ result.answer = "Cancelled" => q.phase = "RunnerDowned" /\ q.revive = None
  <2>0. distance \in Int /\ row \in Rows
    BY <1>1, StoreAssumption DEF RowInv
  <2>1. CASE result.answer = "Cancelled"
    <3>1. RowInv(CancelRow(row), clock) /\ Meaning(CancelRow(row)) = result.state
      BY <1>1, <1>4, <2>0, <2>1, CancelGrows
    <3>2. EvidenceInv(CancelRow(row), events)
      BY <1>1, <1>4, <2>1, SilentCalls
    <3>3. /\ CancelRow(row).phase = "RunnerDowned" /\ CancelRow(row).outcome = row.outcome
          /\ CancelRow(row).revive = None
      BY <2>0 DEF CancelRow, Rows
    <3> QED
      BY <1>4, <2>1, <3>1, <3>2, <3>3
  <2>2. CASE result.answer = "Applied"
    <3>1. RowInv(revived, clock) /\ Meaning(revived) = result.state
      BY <1>1, <1>4, <2>0, <2>2, ReviveGrows
    <3>2. EvidenceInv(revived, Append(events, Event("player_revived", "Runner",
                                                    RevivePayload(revived))))
      BY <1>1, <1>4, <2>2, <3>1, ReviveTold
    <3>3. revived.phase = "EncounterActive" /\ revived.outcome = row.outcome
      BY <2>0 DEF RevivedRow, Rows
    <3> QED
      BY <1>4, <2>2, <3>1, <3>2, <3>3
  <2> QED
    BY <1>7, <2>1, <2>2
<1> HIDE DEF s, result, q, log
<1>8. /\ result.answer = "Expired" => t = End(row, result.state, None)
      /\ result.answer \in {"Applied", "Cancelled"} => t = Writes(q, log, result.answer)
      /\ result.answer \in {"Terminal", "Rejected", "Pending"} => t = Stays(result.answer)
      /\ result.answer = "Replayed" => t = Stays("Replayed") \/ t = Stays("Conflict")
  BY <1>5 DEF Mutate
<1>9. PICK again \in BOOLEAN : again = TRUE <=> result.answer = "Replayed"
  <2>1. CASE result.answer = "Replayed"
    BY <2>1
  <2>2. CASE result.answer # "Replayed"
    BY <2>2
  <2> QED
    BY <2>1, <2>2
<1>10. Served(t, result, again, q, log)
  BY <1>4, <1>6, <1>7, <1>8, <1>9 DEF Served, Answers, s
<1>11. Follows(t, result, again)
  BY <1>10, MutateFollows
<1> QED
  BY <1>9, <1>11 DEF s, result

\* start_cooperation of a stored operation replays or is refused.
LEMMA RetryCallLeaves ==
    ASSUME StoreInv, row # None, NEW t \in RetryStartCall(Meaning(row))
    PROVE  \E id \in OperationIds, profile \in [Roles -> Profiles] :
              \E health \in Healths(profile) :
                 LET answer == RetryStart(Meaning(row), id, profile, health).answer
                 IN  answer \in {"Replayed", "Rejected"} /\ Leaves(t, answer)
<1> DEFINE answer(id, profile, health) ==
             RetryStart(Meaning(row), id, profile, health).answer
<1>1. PICK id \in OperationIds, profile \in [Roles -> Profiles] :
         \E health \in Healths(profile) : t = Stays(answer(id, profile, health))
  BY DEF RetryStartCall
<1>2. PICK health \in Healths(profile) : t = Stays(answer(id, profile, health))
  BY <1>1
<1>3. answer(id, profile, health) \in {"Replayed", "Rejected"}
  BY DEF RetryStart, Result
<1> HIDE DEF answer
<1>4. Leaves(t, answer(id, profile, health))
  BY <1>2, <1>3 DEF Leaves, Unwritten
<1> QED
  BY <1>3, <1>4 DEF answer

\* complete_cooperation_operation: a success replays at its own time, a first completion
\* in time is written, and any other is refused.
LEMMA CompleteCallFollows ==
    ASSUME StoreInv, row # None, NEW t \in CompleteCall(Meaning(row))
    PROVE  LET s == Meaning(row)
               result == CompleteWarden(s, clock)
           IN  /\ ~Running(s) => \/ s.terminal = "Succeeded" /\ Leaves(t, "Replayed")
                                 \/ Leaves(t, "Conflict")
               /\ Running(s) /\ result.answer = "Applied" =>
                     Changes(t, result.state) /\ t.said = "Applied"
               /\ Running(s) /\ result.answer # "Applied" => Leaves(t, result.answer)
<1> DEFINE s == Meaning(row)
           result == CompleteWarden(s, clock)
           won == EndedRow(CountedRow(row, clock), "Succeeded", clock)
<1>1. RowInv(row, clock) /\ clock \in Elapsed /\ row \in Rows
  BY DEF StoreInv, RowInv
<1>2. s.terminal = row.outcome /\ (row.outcome = "None" => s.phase = row.phase)
  BY DEF Meaning
<1>3. t = Complete(s, result)
  BY DEF CompleteCall
<1>4. ASSUME Running(s)
      PROVE  /\ result.answer \in {"Expired", "Applied", "Rejected"}
             /\ result.answer = "Applied" =>
                   /\ row.outcome = "None" /\ row.phase = "EncounterActive"
                   /\ ~Expired(s, clock)
                   /\ result.state = CommitTerminal(CountWarden(s), "Succeeded")
  BY <1>2, <1>4 DEF CompleteWarden, Observe, Result, Running
<1>5. ASSUME Running(s), result.answer = "Applied"
      PROVE  Changes(t, result.state) /\ t.said = "Applied"
  <2>1. EndsAs(row, won, None, clock) /\ Meaning(won) = result.state
    BY <1>1, <1>4, <1>5, SuccessEnds
  <2>2. won.outcome = "Succeeded"
    BY <2>1, <1>4, <1>5, CommitTerminalSets DEF Meaning, EndedRow, CountedRow, Rows, CommitTerminal
  <2>3. won = EndedRow(CountedRow(row, clock), won.outcome, clock)
    BY <2>2
  <2>4. t = End(CountedRow(row, clock), result.state, None)
    BY <1>3, <1>5 DEF Complete, CountedRow
  <2> HIDE DEF s, result, won
  <2>5. Changes(End(CountedRow(row, clock), Meaning(won), None), Meaning(won))
    BY <1>4, <1>5, <2>1, <2>3, EndChanges
  <2>6. t.said = "Applied"
    BY <2>4 DEF End, Transaction
  <2> QED
    BY <2>1, <2>4, <2>5, <2>6
<1> HIDE DEF result, won
<1>6. ASSUME Running(s), result.answer # "Applied"
      PROVE  Leaves(t, result.answer)
  BY <1>3, <1>4, <1>6 DEF Complete, Leaves, Unwritten
<1>7. ASSUME ~Running(s)
      PROVE  \/ s.terminal = "Succeeded" /\ Leaves(t, "Replayed")
             \/ Leaves(t, "Conflict")
  BY <1>3, <1>7 DEF Complete, Leaves, Unwritten
<1> QED
  BY <1>5, <1>6, <1>7 DEF result

\* How a failure is finished: written, or refused for its evidence when a deadline came
\* first and a participant is named.
Finishes(t, matches, role, result) ==
    LET s == Meaning(row)
    IN  /\ ~Running(s) => \/ s.terminal \in matches /\ Leaves(t, "Replayed")
                          \/ Leaves(t, "Conflict")
        /\ Running(s) =>
              /\ result.answer \in {"Applied", "Expired", "Pending", "Rejected"}
              /\ result.answer = "Applied" =>
                    Changes(t, result.state) /\ t.said = "Applied"
              /\ result.answer = "Expired" =>
                    IF role = None THEN Changes(t, result.state) /\ t.said = "Applied"
                    ELSE RefusedLate(t)
              /\ result.answer = "Pending" => Leaves(t, "Conflict")
              /\ result.answer = "Rejected" => Leaves(t, "Rejected")

\* What finish_cooperation_failure leaves when it writes nothing.
LEMMA FinishLeaves ==
    ASSUME NEW matches, NEW role, NEW result, NEW t,
           t = FinishFailure(Meaning(row), matches, role, result)
    PROVE  /\ ~Running(Meaning(row)) =>
                 \/ Meaning(row).terminal \in matches /\ Leaves(t, "Replayed")
                 \/ Leaves(t, "Conflict")
           /\ Running(Meaning(row)) /\ result.answer = "Pending" => Leaves(t, "Conflict")
           /\ Running(Meaning(row)) /\ result.answer = "Rejected" => Leaves(t, "Rejected")
  BY DEF FinishFailure, Leaves, Unwritten

\* A deadline that is found instead of the failure: its end has no subject.
LEMMA FinishExpires ==
    ASSUME StoreInv, row # None, Running(Meaning(row)), Expired(Meaning(row), clock),
           NEW matches, NEW role \in Roles \cup {None}, NEW result,
           result = Result(CommitTerminal(Meaning(row), TimeoutAt(Meaning(row), clock)),
                           "Expired"),
           NEW t, t = FinishFailure(Meaning(row), matches, role, result)
    PROVE  IF role = None THEN Changes(t, result.state) /\ t.said = "Applied"
           ELSE RefusedLate(t)
<1> DEFINE s == Meaning(row)
           outcome == TimeoutAt(s, clock)
           q == EndedRow(row, outcome, clock)
<1>1. /\ RowInv(row, clock) /\ EvidenceInv(row, events) /\ clock \in Elapsed
      /\ row \in Rows /\ row.outcome = "None" /\ s \in CooperationStates
  BY DEF StoreInv, RowInv, Running, Meaning, Consistent
<1>2. /\ result.state.health = row.health /\ result.state.life = row.life
      /\ result.state.terminal = outcome /\ result.answer = "Expired"
  <2>1. s.health = row.health /\ s.life = row.life
    BY DEF Meaning
  <2> HIDE DEF s
  <2> QED
    BY <1>1, <2>1 DEF Result, CommitTerminal, CooperationStates, s
<1>3. [row EXCEPT !.health = row.health, !.life = row.life] = row
  BY <1>1 DEF Rows
<1>4. t = End(row, result.state, role)
  BY <1>2, <1>3 DEF FinishFailure
<1>5. CASE role = None
  <2>1. result.state = CommitTerminal(s, outcome)
    BY DEF Result
  <2> QED
    BY <1>1, <1>4, <1>5, <2>1, TimeoutChanges
<1>6. CASE role # None
  <2>1. EndsAs(row, q, None, clock)
    BY <1>1, TimeoutEnds
  <2>2. outcome \in Timeouts
    BY DEF TimeoutAt, Timeouts
  <2>3. q.outcome = outcome
    BY <1>1, <2>2, EndedColumns DEF Outcomes, Failures
  <2>4. q = [row EXCEPT !.outcome = result.state.terminal, !.terminalAt = clock]
    BY <1>2 DEF EndedRow
  <2> HIDE DEF q, s, outcome
  <2>5. result.state.terminal # "Succeeded"
    BY <1>2, <2>2 DEF Timeouts
  <2>6. /\ t.row = q /\ t.said = "Applied"
        /\ t.events = events \o <<>> \o <<TerminalEvent(q, result.state, role)>>
    BY <1>4, <2>4, <2>5 DEF End, Transaction
  <2>7. PICK S : events \in Seq(S)
    BY <1>1 DEF EvidenceInv
  <2>8. t.events = Append(events, TerminalEvent(q, result.state, role))
    BY <2>6, <2>7, OneAppended
  <2>9. ~Accepted(t.events)
    BY <1>6, <2>2, <2>3, <2>7, <2>8, LateRoleRefused
  <2>10. RowChecks(q)
    BY <2>1 DEF EndsAs, RowInv
  <2> QED
    BY <1>6, <2>6, <2>9, <2>10 DEF RefusedLate
<1> QED
  BY <1>5, <1>6

\* The failure of a running row: r has the health and the life it leaves.
Fails(r, role, outcome, result) ==
    /\ result.answer = "Applied" /\ outcome # "Succeeded"
    /\ r = [row EXCEPT !.health = result.state.health, !.life = result.state.life]
    /\ result.state.terminal = outcome
    /\ EndsAs(row, EndedRow(r, outcome, clock), role, clock)
    /\ Meaning(EndedRow(r, outcome, clock)) = result.state

\* It is written as the end of its row.
LEMMA FinishApplies ==
    ASSUME StoreInv, row # None, Running(Meaning(row)),
           NEW matches, NEW role \in Roles, NEW result, NEW r, NEW outcome,
           Fails(r, role, outcome, result),
           NEW t, t = FinishFailure(Meaning(row), matches, role, result)
    PROVE  Changes(t, result.state) /\ t.said = "Applied"
<1> USE DEF Fails
<1> DEFINE q == EndedRow(r, outcome, clock)
<1>1. t = End(r, result.state, role)
  BY DEF FinishFailure
<1>2. q.outcome = outcome
  BY DEF Meaning
<1>3. row.outcome = "None"
  BY DEF Running, Meaning
<1>4. q = EndedRow(r, q.outcome, clock)
  BY <1>2
<1> HIDE DEF q
<1>5. Changes(End(r, Meaning(q), role), Meaning(q))
  BY <1>2, <1>3, <1>4, EndChanges DEF q
<1>6. t.said = "Applied"
  BY <1>1 DEF End, Transaction
<1> QED
  BY <1>1, <1>5, <1>6 DEF q

\* observe_cooperation_timeout.
LEMMA TimeoutCallFinishes ==
    ASSUME StoreInv, row # None, NEW t \in TimeoutCall(Meaning(row))
    PROVE  Finishes(t, Timeouts, None, ObserveDeadlines(Meaning(row), clock))
<1> DEFINE s == Meaning(row)
           result == ObserveDeadlines(s, clock)
<1>1. t = FinishFailure(s, Timeouts, None, result)
  BY DEF TimeoutCall
<1>2. ASSUME Running(s)
      PROVE  /\ result.answer \in {"Expired", "Pending"}
             /\ result.answer = "Expired" =>
                   /\ Expired(s, clock)
                   /\ result = Result(CommitTerminal(s, TimeoutAt(s, clock)), "Expired")
  BY <1>2 DEF ObserveDeadlines, Observe, Result
<1>3. ASSUME Running(s), result.answer = "Expired"
      PROVE  Changes(t, result.state) /\ t.said = "Applied"
  BY <1>1, <1>2, <1>3, FinishExpires
<1> HIDE DEF result
<1> QED
  BY <1>1, <1>2, <1>3, FinishLeaves DEF Finishes, result

\* defeat_cooperation_participant.
LEMMA DefeatCallFinishes ==
    ASSUME StoreInv, row # None, NEW t \in DefeatCall(Meaning(row))
    PROVE  \E role \in Roles :
              Finishes(t, {"FailedParticipantDefeated"}, role,
                       DefeatParticipant(Meaning(row), role, clock))
<1> DEFINE s == Meaning(row)
<1>1. PICK role \in Roles :
         t = FinishFailure(s, {"FailedParticipantDefeated"}, role,
                           DefeatParticipant(s, role, clock))
  BY DEF DefeatCall
<1> DEFINE result == DefeatParticipant(s, role, clock)
           r == StruckRow(row, role)
<1>2. s.terminal = row.outcome /\ (row.outcome = "None" => s.phase = row.phase)
  BY DEF Meaning
<1>3. ASSUME Running(s)
      PROVE  /\ result.answer \in {"Expired", "Applied", "Rejected"}
             /\ result.answer = "Expired" =>
                   /\ Expired(s, clock)
                   /\ result = Result(CommitTerminal(s, TimeoutAt(s, clock)), "Expired")
             /\ result.answer = "Applied" =>
                   /\ ~Expired(s, clock) /\ row.phase = "EncounterActive"
                   /\ row.outcome = "None"
                   /\ result.state = CommitTerminal(Strike(s, role),
                                                    "FailedParticipantDefeated")
  BY <1>2, <1>3 DEF DefeatParticipant, Observe, Result, Running
<1>4. ASSUME Running(s), result.answer = "Expired"
      PROVE  RefusedLate(t)
  BY <1>1, <1>3, <1>4, FinishExpires, NoneAssumption
<1>5. ASSUME Running(s), result.answer = "Applied"
      PROVE  Changes(t, result.state) /\ t.said = "Applied"
  <2> DEFINE q == EndedRow(r, "FailedParticipantDefeated", clock)
  <2>1. RowInv(row, clock) /\ clock \in Elapsed /\ s \in CooperationStates
    BY DEF StoreInv, RowInv, Consistent
  <2>2. EndsAs(row, q, role, clock) /\ Meaning(q) = result.state
    BY <1>3, <1>5, <2>1, DefeatEnds
  <2>3. /\ result.state.health = [row.health EXCEPT ![role] = 0]
        /\ result.state.life = [row.life EXCEPT ![role] = "Defeated"]
        /\ result.state.terminal = "FailedParticipantDefeated"
    <3>1. s.health = row.health /\ s.life = row.life
      BY DEF Meaning
    <3> HIDE DEF s
    <3>2. /\ Strike(s, role).health = [row.health EXCEPT ![role] = 0]
          /\ Strike(s, role).life = [row.life EXCEPT ![role] = "Defeated"]
          /\ DOMAIN Strike(s, role) = DOMAIN s
      BY <2>1, <3>1 DEF Strike, CooperationStates
    <3>3. /\ result.state.health = Strike(s, role).health
          /\ result.state.life = Strike(s, role).life
          /\ result.state.terminal = "FailedParticipantDefeated"
      <4>1. result.state = CommitTerminal(Strike(s, role), "FailedParticipantDefeated")
        BY <1>3, <1>5
      <4>2. Strike(s, role) \in CooperationStates
        BY <2>1 DEF Strike, CooperationStates, LifeStates
      <4> HIDE DEF result
      <4> QED
        BY <4>1, <4>2 DEF CommitTerminal, CooperationStates
    <3> QED
      BY <3>2, <3>3
  <2>4. r = [row EXCEPT !.health = result.state.health, !.life = result.state.life]
    BY <2>3 DEF StruckRow
  <2> HIDE DEF r, result, s
  <2>5. Fails(r, role, "FailedParticipantDefeated", result)
    BY <1>5, <2>2, <2>3, <2>4 DEF Fails
  <2>6. t = FinishFailure(s, {"FailedParticipantDefeated"}, role, result)
    BY <1>1 DEF result
  <2> QED
    BY <1>5, <2>5, <2>6, FinishApplies DEF s
<1> HIDE DEF result
<1>6. Finishes(t, {"FailedParticipantDefeated"}, role, result)
  BY <1>1, <1>3, <1>4, <1>5, FinishLeaves, NoneAssumption DEF Finishes, result
<1> QED
  BY <1>6 DEF result

\* abandon_cooperation_participant, which never finds a deadline that has passed.
LEMMA AbandonCallFinishes ==
    ASSUME StoreInv, row # None, NEW t \in AbandonCall(Meaning(row))
    PROVE  \E role \in Roles :
              Finishes(t, {"AbandonedDisconnect"}, role, Disconnect(Meaning(row), clock))
<1> DEFINE s == Meaning(row)
           result == Disconnect(s, clock)
<1>1. PICK role \in Roles :
         /\ ~(Running(s) /\ Expired(s, clock))
         /\ t = FinishFailure(s, {"AbandonedDisconnect"}, role, result)
  BY DEF AbandonCall
<1>2. s.terminal = row.outcome
  BY DEF Meaning
<1>3. ASSUME Running(s)
      PROVE  /\ result = Result(CommitTerminal(s, "AbandonedDisconnect"), "Applied")
             /\ ~Expired(s, clock) /\ row.outcome = "None"
  BY <1>1, <1>2, <1>3 DEF Disconnect, Observe, Result, Running
<1>4. ASSUME Running(s)
      PROVE  Changes(t, result.state) /\ t.said = "Applied"
  <2> DEFINE q == EndedRow(row, "AbandonedDisconnect", clock)
  <2>1. RowInv(row, clock) /\ clock \in Elapsed /\ s \in CooperationStates /\ row \in Rows
    BY DEF StoreInv, RowInv, Consistent
  <2>2. EndsAs(row, q, role, clock) /\ Meaning(q) = CommitTerminal(s, "AbandonedDisconnect")
    BY <1>3, <1>4, <2>1, AbandonEnds
  <2>3. result.answer = "Applied" /\ result.state = CommitTerminal(s, "AbandonedDisconnect")
    BY <1>3, <1>4 DEF Result
  <2>4. /\ result.state.health = row.health /\ result.state.life = row.life
        /\ result.state.terminal = "AbandonedDisconnect"
    <3>1. s.health = row.health /\ s.life = row.life
      BY DEF Meaning
    <3> HIDE DEF s, result
    <3> QED
      BY <2>1, <2>3, <3>1 DEF CommitTerminal, CooperationStates
  <2>5. row = [row EXCEPT !.health = result.state.health, !.life = result.state.life]
    BY <2>1, <2>4 DEF Rows
  <2> HIDE DEF result, s
  <2>6. Fails(row, role, "AbandonedDisconnect", result)
    BY <2>2, <2>3, <2>4, <2>5 DEF Fails
  <2> QED
    BY <1>1, <1>4, <2>6, FinishApplies DEF s
<1>5. Running(s) => result.answer = "Applied"
  BY <1>3 DEF Result
<1> HIDE DEF result
<1> QED
  BY <1>1, <1>4, <1>5, FinishLeaves DEF Finishes, result

-----------------------------------------------------------------------------
(* Every step of the store                                                  *)

\* However a call is served, its transaction is sound.
LEMMA FollowsSound ==
    ASSUME NEW t, NEW result, NEW again, Follows(t, result, again)
    PROVE  Sound(t)
  BY DEF Follows, Sound, Answers

\* So it is for a call that finishes the operation.
LEMMA FinishesSound ==
    ASSUME NEW t, NEW matches, NEW role, NEW result, Finishes(t, matches, role, result)
    PROVE  Sound(t)
  BY DEF Finishes, Sound

\* Whatever is called, the transaction it comes to is sound.
LEMMA CallsSound ==
    ASSUME StoreInv, row # None, NEW t \in Calls(Meaning(row))
    PROVE  Sound(t)
<1> DEFINE s == Meaning(row)
<1>1. ASSUME t \in RetryStartCall(s) PROVE Sound(t)
  BY <1>1, RetryCallLeaves DEF Sound
<1>2. ASSUME t \in ArriveAnchorCall(s) PROVE Sound(t)
  BY <1>2, AnchorCallFollows, FollowsSound
<1>3. ASSUME t \in PingCall(s) PROVE Sound(t)
  BY <1>3, PingCallFollows, FollowsSound
<1>4. ASSUME t \in DownRunnerCall(s) PROVE Sound(t)
  BY <1>4, FallCallFollows, FollowsSound
<1>5. ASSUME t \in StartReviveCall(s) PROVE Sound(t)
  BY <1>5, ChannelCallFollows, FollowsSound
<1>6. ASSUME t \in ObserveReviveCall(s) PROVE Sound(t)
  BY <1>6, ReviveCallFollows, FollowsSound
<1>7. ASSUME t \in CompleteCall(s) PROVE Sound(t)
  BY <1>7, CompleteCallFollows DEF Sound
<1>8. ASSUME t \in TimeoutCall(s) PROVE Sound(t)
  BY <1>8, TimeoutCallFinishes, FinishesSound
<1>9. ASSUME t \in DefeatCall(s) PROVE Sound(t)
  BY <1>9, DefeatCallFinishes, FinishesSound
<1>10. ASSUME t \in AbandonCall(s) PROVE Sound(t)
  BY <1>10, AbandonCallFinishes, FinishesSound
<1> QED
  BY <1>1, <1>2, <1>3, <1>4, <1>5, <1>6, <1>7, <1>8, <1>9, <1>10 DEF Calls

\* The first commit of an operation: its row and the event that admits both.
LEMMA StartWrites ==
    ASSUME StoreInv, row = None,
           NEW id \in OperationIds, NEW profile \in [Roles -> Profiles],
           NEW health \in [Roles -> Nat], CanStart(profile, health)
    PROVE  LET t == StartCall(id, profile, health)
           IN  /\ Written(t) /\ t.said = "Applied"
               /\ Meaning(t.row) = StartWithHealth(id, profile, health)
               /\ t.row.flags = {} /\ t.row.outcome = "None"
<1> DEFINE q == StartRow(id, profile, health)
           event == Event("cooperation_started", "Anchor", StartedPayload(q))
           t == StartCall(id, profile, health)
<1>1. clock \in Elapsed /\ events = Admission /\ grants = [x \in Roles |-> 0]
  BY DEF StoreInv
<1>2. RowInv(q, clock) /\ Meaning(q) = StartWithHealth(id, profile, health)
  BY <1>1, StartedRow
<1>3. /\ q.outcome = "None" /\ q.flags = {}
      /\ q.profile = profile /\ q.admitted = health
  BY DEF StartRow
<1>4. /\ t.row = q /\ t.events = Append(events, event)
      /\ t.grants = grants /\ t.said = "Applied"
  BY DEF StartCall, Writes, Transaction
<1> HIDE DEF q, t
<1>5. EvidenceInv(q, Append(events, event))
  BY <1>1, <1>2, <1>3, StartTold
<1>6. Written(t)
  BY <1>1, <1>2, <1>3, <1>4, <1>5 DEF Written
<1> QED
  BY <1>2, <1>3, <1>4, <1>6 DEF t

\* A start with more health than the profile has is refused before anything is written.
LEMMA UnfitStart ==
    ASSUME NEW id, NEW profile, NEW health, ~CanStart(profile, health),
           Settle(StartCall(id, profile, health))
    PROVE  Abort("Rejected")
<1>1. StartCall(id, profile, health).said = "Rejected"
  BY DEF StartCall, Stays, Writes, Transaction
<1> QED
  BY <1>1 DEF Settle

\* What a first call of start_cooperation comes to.
LEMMA StartSettles ==
    ASSUME StoreInv, StartOperation
    PROVE  \E id \in OperationIds, profile \in [Roles -> Profiles] :
              \E health \in Healths(profile) :
                 LET t == StartCall(id, profile, health)
                 IN  /\ row = None
                     /\ \/ ~CanStart(profile, health) /\ Abort("Rejected")
                        \/ /\ CanStart(profile, health)
                           /\ Written(t) /\ t.said = "Applied"
                           /\ Meaning(t.row) = StartWithHealth(id, profile, health)
                           /\ t.row.flags = {} /\ t.row.outcome = "None"
                           /\ Commits(t) \/ Abort("Lost")
<1>1. PICK id \in OperationIds, profile \in [Roles -> Profiles] :
         \E health \in Healths(profile) : Settle(StartCall(id, profile, health))
  BY DEF StartOperation
<1>2. PICK health \in Healths(profile) : Settle(StartCall(id, profile, health))
  BY <1>1
<1>3. row = None
  BY DEF StartOperation
<1>4. CASE ~CanStart(profile, health)
  BY <1>2, <1>3, <1>4, UnfitStart
<1>5. CASE CanStart(profile, health)
  <2>1. \A x \in Roles : profile[x].max_health \in Nat
    BY ProfilesAssumption
  <2>2. health \in [Roles -> Nat]
    BY <2>1 DEF Healths
  <2> DEFINE t == StartCall(id, profile, health)
  <2>3. /\ Written(t) /\ t.said = "Applied"
        /\ Meaning(t.row) = StartWithHealth(id, profile, health)
        /\ t.row.flags = {} /\ t.row.outcome = "None"
    BY <1>3, <1>5, <2>2, StartWrites
  <2>4. Settle(t)
    BY <1>2
  <2> HIDE DEF t
  <2>5. Commits(t) \/ Abort("Lost")
    BY <2>3, <2>4, WrittenSettles
  <2> QED
    BY <1>3, <1>5, <2>3, <2>5 DEF t
<1> QED
  BY <1>4, <1>5

\* A deadline that has passed stays passed.
LEMMA StaysExpired ==
    ASSUME NEW s, NEW e \in Elapsed, NEW f \in Elapsed, e <= f,
           Consistent(s), InTime(s, e), Expired(s, e)
    PROVE  Expired(s, f)
<1>1. CASE PingExpired(s, e)
  <2>1. s.ping # None
    BY <1>1 DEF PingExpired, Consistent, ContributionsAgree, RecordedIn
  <2>2. s.ping.at \in Nat
    BY <2>1 DEF Consistent, CooperationStates, OperationRecords, Elapsed
  <2> QED
    BY <1>1, <2>2, DurationsAssumption DEF PingExpired, StrictlyAfter, Expired, Elapsed
<1>2. CASE ReviveExpired(s, e)
  <2>1. s.downedAt # None
    BY <1>2 DEF ReviveExpired, Consistent, ContributionsAgree, RecordedIn
  <2>2. s.downedAt \in Nat
    BY <2>1 DEF Consistent, CooperationStates, Elapsed
  <2> QED
    BY <1>2, <2>2, DurationsAssumption DEF ReviveExpired, StrictlyAfter, Expired, Elapsed
<1>3. CASE e > OperationDuration
  BY <1>3, DurationsAssumption DEF Expired, Elapsed
<1> QED
  BY <1>1, <1>2, <1>3 DEF Expired

\* Before its start there is no operation.
LEMMA InitStore == Init => StoreInv
  BY DurationsAssumption DEF Init, StoreInv, Elapsed, Answers

\* Every step keeps the invariant, leaves an end alone and answers the truth.
LEMMA StepKeeps ==
    ASSUME StoreInv, [Next]_vars
    PROVE  StoreInv' /\ [EndStays]_vars /\ [AnswerHolds]_vars
<1>1. CASE StartOperation
  <2>1. \/ Abort("Rejected") \/ Abort("Lost")
        \/ \E t : Written(t) /\ t.said = "Applied" /\ Commits(t)
    BY <1>1, StartSettles
  <2>2. row = None
    BY <1>1 DEF StartOperation
  <2>3. ASSUME NEW t, Written(t), t.said = "Applied", Commits(t)
        PROVE  StoreInv' /\ EndStays /\ AnswerHolds
    <3>1. StoreInv'
      BY <2>3, CommitKeeps
    <3>2. row' # row /\ reply' \in {"Applied", "Lost"}
      BY <2>2, <2>3, StoreAssumption DEF Commits, Written, RowInv
    <3> QED
      BY <2>2, <3>1, <3>2 DEF EndStays, AnswerHolds
  <2>4. CASE Abort("Rejected")
    BY <2>4 DEF Abort, StoreInv, EndStays, AnswerHolds, Answers
  <2> QED
    BY <2>1, <2>3, <2>4, LostKeeps
<1>2. CASE StoredCall
  <2>1. Loads(row) /\ StreamMatches(row, events) /\ Loaded(row) = Meaning(row) /\ row # None
    BY <1>2 DEF StoredCall, StoreInv, RowInv, EvidenceInv
  <2>2. PICK t \in Calls(Meaning(row)) : Settle(t)
    BY <1>2, <2>1 DEF StoredCall
  <2> QED
    BY <2>1, <2>2, CallsSound, SoundKeeps
<1>3. CASE Tick
  <2>1. clock \in Elapsed /\ clock' \in Elapsed /\ clock <= clock' /\ clock' # clock
    BY <1>3, DurationsAssumption DEF Tick, StoreInv, Elapsed
  <2>2. row' = row /\ events' = events /\ grants' = grants /\ reply' = reply
    BY <1>3 DEF Tick
  <2>3. ASSUME row # None PROVE RowInv(row, clock')
    BY <2>1, <2>3, RowLater DEF StoreInv
  <2>4. ASSUME reply = "EvidenceRefused" PROVE Expired(Meaning(row), clock')
    BY <2>1, <2>4, StaysExpired DEF StoreInv, RowInv
  <2>5. StoreInv'
    BY <2>1, <2>2, <2>3, <2>4 DEF StoreInv
  <2> QED
    BY <2>1, <2>2, <2>5 DEF EndStays, AnswerHolds
<1>4. CASE UNCHANGED vars
  BY <1>4 DEF vars, StoreInv, EndStays, AnswerHolds
<1> QED
  BY <1>1, <1>2, <1>3, <1>4 DEF Next

\* The invariant always holds.
LEMMA StoreInvariance == Spec => []StoreInv
  BY InitStore, StepKeeps, PTL DEF Spec

\* Whatever was committed, with whatever answers lost in between, can be loaded again,
\* for every profile, every distance and every duration.
THEOREM AlwaysLoads == Spec => []RowAlwaysLoads
<1>1. StoreInv => RowAlwaysLoads
  <2> SUFFICES ASSUME StoreInv PROVE RowAlwaysLoads
    OBVIOUS
  <2>1. grants \in [Roles -> Nat] /\ reply \in Replies /\ clock \in Elapsed
    BY DEF StoreInv, Replies
  <2>2. row # None => row \in Rows /\ Loads(row)
    BY DEF StoreInv, RowInv
  <2> QED
    BY <2>1, <2>2 DEF RowAlwaysLoads, TypeOK
<1> QED
  BY <1>1, StoreInvariance, PTL

\* The CHECKs of the migration never refuse what the domain accepted, and the replay
\* only the defeat that comes after a deadline.
THEOREM LayersAlwaysAgree == Spec => []LayersAgree
<1>1. StoreInv => LayersAgree
  BY DEF StoreInv, LayersAgree, RowInv, Answers
<1> QED
  BY <1>1, StoreInvariance, PTL

\* An end that is stored stays as it is, and every answer is true of what is stored.
THEOREM AnswersAreStored == Spec => StoredAsAnswered
<1>1. StoreInv /\ [Next]_vars => [EndStays]_vars /\ [AnswerHolds]_vars
  BY StepKeeps
<1> QED
  BY <1>1, StoreInvariance, PTL
  DEF Spec, StoredAsAnswered, StoredEndIsFinal, AnswerIsDurable, EndStays, AnswerHolds

\* The replay stream tells the row, as far as the row has come, and each participant is
\* rewarded once, exactly when the success is stored.
THEOREM StreamAlwaysAgrees == Spec => []RowStreamAndGrantsAgree
<1>1. ASSUME StoreInv, row # None
      PROVE  /\ StreamMatches(row, events)
             /\ LastPhase(events) =
                   IF row.outcome # "None" THEN row.phase
                   ELSE CASE row.phase = "AwaitingPing"  -> "AwaitingAnchor"
                          [] row.phase = "ReviveChannel" -> "RunnerDowned"
                          [] OTHER                       -> row.phase
             /\ ContributionCount(events) =
                   IF row.outcome = "None" /\ row.flags = {"anchor_arrived"} THEN 0
                   ELSE Cardinality(row.flags)
  <2>1. RowInv(row, clock) /\ EvidenceInv(row, events) /\ clock \in Elapsed
    BY <1>1 DEF StoreInv
  <2>2. StreamMatches(row, events)
    BY <2>1 DEF EvidenceInv
  <2>3. CASE row.outcome = "None"
    BY <2>1, <2>2, <2>3, RunningAudit
  <2>4. CASE row.outcome # "None"
    BY <2>1, <2>2, <2>4, EndedAudit
  <2> QED
    BY <2>3, <2>4
<1>2. StoreInv => StreamFollowsRow
  BY <1>1 DEF StreamFollowsRow
<1>3. StoreInv => RewardedExactlyOnce
  BY DEF StoreInv, RewardedExactlyOnce
<1>4. StoreInv => RowStreamAndGrantsAgree
  BY <1>2, <1>3 DEF RowStreamAndGrantsAgree
<1> QED
  BY <1>4, StoreInvariance, PTL

-----------------------------------------------------------------------------
(* The stored operation keeps the promise of the relay                      *)

\* A step of the store is a step of the domain on what the columns say, or the start.
LEMMA RowSteps ==
    ASSUME StoreInv, Next, ~Tick
    PROVE  /\ clock' = clock
           /\ \/ row' = row
              \/ row = None /\ row' # None /\ row'.flags = {} /\ row'.outcome = "None"
              \/ row # None /\ row' # None /\ StepOf(Meaning(row), Meaning(row'), clock)
<1>1. CASE StartOperation
  <2>1. \/ Abort("Rejected") \/ Abort("Lost")
        \/ \E t : /\ Written(t) /\ Commits(t)
                  /\ t.row.flags = {} /\ t.row.outcome = "None"
    BY <1>1, StartSettles
  <2>2. row = None
    BY <1>1 DEF StartOperation
  <2>3. \A t : Written(t) => t.row # None
    BY StoreAssumption DEF Written, RowInv
  <2> QED
    BY <2>1, <2>2, <2>3 DEF Commits, Abort
<1>2. CASE StoredCall
  <2>1. Loads(row) /\ StreamMatches(row, events) /\ Loaded(row) = Meaning(row) /\ row # None
    BY <1>2 DEF StoredCall, StoreInv, RowInv, EvidenceInv
  <2>2. PICK t \in Calls(Meaning(row)) : Settle(t)
    BY <1>2, <2>1 DEF StoredCall
  <2>3. Sound(t)
    BY <2>1, <2>2, CallsSound
  <2>4. ASSUME NEW said, Leaves(t, said) PROVE row' = row /\ clock' = clock
    BY <2>1, <2>2, <2>4, LeavesSettles
  <2>5. ASSUME NEW s, Changes(t, s)
        PROVE  /\ clock' = clock
               /\ \/ row' = row
                  \/ row' # None /\ StepOf(Meaning(row), Meaning(row'), clock)
    <3>1. Commits(t) \/ Abort("Lost")
      BY <2>2, <2>5, ChangesSettles
    <3>2. t.row # None /\ StepOf(Meaning(row), Meaning(t.row), clock)
      BY <2>5, StoreAssumption DEF Changes, RowInv
    <3> QED
      BY <3>1, <3>2 DEF Commits, Abort
  <2>6. ASSUME RefusedLate(t) PROVE row' = row /\ clock' = clock
    BY <2>2, <2>6, RefusedSettles DEF Abort
  <2> QED
    BY <2>1, <2>3, <2>4, <2>5, <2>6 DEF Sound
<1> QED
  BY <1>1, <1>2 DEF Next

\* The contract records in the order of the domain's phases.
LEMMA SameOrder == Contract!Before = RecordedBefore
  BY DEF Contract!Before, RecordedBefore

\* Through rollbacks, lost answers and retries the contributions are recorded one by
\* one, in order and in time, and the operation ends once.
THEOREM StoreImplementsContract == Spec => ImplementsContract
<1> USE DEF Contract!vars
<1>1. Init => Contract!Init
  BY DEF Init, Contract!Init
<1>2. StoreInv /\ [Next]_vars => [Contract!Next]_(Contract!vars)
  <2> SUFFICES ASSUME StoreInv, [Next]_vars PROVE [Contract!Next]_(Contract!vars)
    OBVIOUS
  <2>1. CASE Tick
    <3>1. clock' \in Nat /\ clock' > clock /\ row' = row
      BY <2>1, DurationsAssumption DEF Tick, StoreInv, Elapsed
    <3> QED
      BY <3>1 DEF Contract!Next, Contract!Pass
  <2>2. CASE Next /\ ~Tick
    <3>0. /\ clock' = clock /\ clock \in Elapsed
          /\ \/ row' = row
             \/ row = None /\ row' # None /\ row'.flags = {} /\ row'.outcome = "None"
             \/ row # None /\ row' # None /\ StepOf(Meaning(row), Meaning(row'), clock)
      BY <2>2, RowSteps DEF StoreInv
    <3>1. CASE row' = row
      BY <3>0, <3>1
    <3>2. CASE row = None /\ row' # None /\ row'.flags = {} /\ row'.outcome = "None"
      BY <3>0, <3>2
    <3>3. CASE row # None /\ row' # None /\ StepOf(Meaning(row), Meaning(row'), clock)
      <4> DEFINE s == Meaning(row)
                 t == Meaning(row')
      <4>1. /\ s.contributions = row.flags /\ s.terminal = row.outcome
            /\ t.contributions = row'.flags /\ t.terminal = row'.outcome
        BY DEF Meaning
      <4>2. Consistent(s)
        BY <3>3 DEF StoreInv, RowInv
      <4> HIDE DEF s, t
      <4>3. CASE t.contributions = s.contributions /\ t.terminal = s.terminal
        BY <3>0, <3>3, <4>1, <4>3
      <4>4. ASSUME Running(s), ~Expired(s, clock),
                   NEW c \in {"anchor_arrived", "pinged", "runner_arrived", "revived"},
                   s.contributions = Contract!Before[c],
                   t.contributions = s.contributions \cup {c},
                   t.terminal = s.terminal
            PROVE  Contract!Contribute(c) /\ c \in DOMAIN Contract!Before
        <5>1. clock <= OperationDuration
          BY <3>0, <4>4, DurationsAssumption DEF Expired, Elapsed
        <5>2. c # "warden_completed" /\ c \in DOMAIN Contract!Before
          BY <4>4 DEF Contract!Before
        <5> QED
          BY <3>0, <3>3, <4>1, <4>4, <5>1, <5>2 DEF Contract!Contribute, Running
      <4>5. ASSUME Running(s), ~Expired(s, clock),
                   s.contributions = Contract!Before["warden_completed"],
                   t.contributions = s.contributions \cup {"warden_completed"},
                   t.terminal = "Succeeded"
            PROVE  /\ Contract!Contribute("warden_completed")
                   /\ "warden_completed" \in DOMAIN Contract!Before
        <5>1. clock <= OperationDuration
          BY <3>0, <4>5, DurationsAssumption DEF Expired, Elapsed
        <5>2. "warden_completed" \in DOMAIN Contract!Before
          BY DEF Contract!Before
        <5> QED
          BY <3>0, <3>3, <4>1, <4>5, <5>1, <5>2 DEF Contract!Contribute, Running
      <4>6. ASSUME Running(s), t.contributions = s.contributions, t.terminal \in Failures
            PROVE  Contract!Fail
        <5>1. t.terminal # "None" /\ t.terminal # "Succeeded"
          BY <4>6 DEF Failures, Timeouts
        <5> QED
          BY <3>0, <3>3, <4>1, <4>6, <5>1 DEF Contract!Fail, Running
      <4>7. StepOf(s, t, clock)
        BY <3>3 DEF s, t
      <4> QED
        BY <3>0, <4>2, <4>3, <4>4, <4>5, <4>6, <4>7, StepRecords, SameOrder DEF Contract!Next
    <3> QED
      BY <3>0, <3>1, <3>2, <3>3
  <2>3. CASE UNCHANGED vars
    BY <2>3 DEF vars
  <2> QED
    BY <2>1, <2>2, <2>3
<1> QED
  BY <1>1, <1>2, StoreInvariance, PTL DEF Spec, ImplementsContract, Contract!Spec

-----------------------------------------------------------------------------
(* The store implements its ledger                                          *)

\* The operation the ledger sees.
Stored == IF row = None THEN None ELSE Meaning(row)

\* The instance has the domain's methods under names of its own.
LEMMA SameDomain ==
    /\ \A s : Ledger!Running(s) <=> Running(s)
    /\ \A profile, health : Ledger!CanStart(profile, health) <=> CanStart(profile, health)
    /\ \A id, profile, health :
          Ledger!StartWithHealth(id, profile, health) = StartWithHealth(id, profile, health)
    /\ \A s, id, profile, health :
          Ledger!RetryStart(s, id, profile, health) = RetryStart(s, id, profile, health)
    /\ \A s, e : Ledger!ObserveDeadlines(s, e) = ObserveDeadlines(s, e)
    /\ \A s, role, target, e :
          Ledger!ArriveAnchor(s, role, target, e) = ArriveAnchor(s, role, target, e)
    /\ \A s, role, target, e :
          Ledger!ArriveRunner(s, role, target, e) = ArriveRunner(s, role, target, e)
<1> USE DEF Ledger!Running, Running, Ledger!Result, Result, Ledger!Roles, Roles,
            Ledger!Observe, Observe, Ledger!Expired, Expired,
            Ledger!PingExpired, PingExpired, Ledger!ReviveExpired, ReviveExpired,
            Ledger!StrictlyAfter, StrictlyAfter, Ledger!TimeoutAt, TimeoutAt,
            Ledger!CommitTerminal, CommitTerminal
<1>1. \A s : Ledger!Running(s) <=> Running(s)
  OBVIOUS
<1>2. \A profile, health : Ledger!CanStart(profile, health) <=> CanStart(profile, health)
  BY DEF Ledger!CanStart, CanStart
<1>3. \A id, profile, health :
         Ledger!StartWithHealth(id, profile, health) = StartWithHealth(id, profile, health)
  BY DEF Ledger!StartWithHealth, StartWithHealth
<1>4. \A s, id, profile, health :
         Ledger!RetryStart(s, id, profile, health) = RetryStart(s, id, profile, health)
  BY DEF Ledger!RetryStart, RetryStart
<1>5. \A s, e : Ledger!ObserveDeadlines(s, e) = ObserveDeadlines(s, e)
  BY DEF Ledger!ObserveDeadlines, ObserveDeadlines
<1>6. \A s, role, target, e :
         Ledger!ArriveAnchor(s, role, target, e) = ArriveAnchor(s, role, target, e)
  BY DEF Ledger!ArriveAnchor, ArriveAnchor, Ledger!AnchorArrives, AnchorArrives
<1>7. \A s, role, target, e :
         Ledger!ArriveRunner(s, role, target, e) = ArriveRunner(s, role, target, e)
  BY DEF Ledger!ArriveRunner, ArriveRunner, Ledger!RunnerFalls, RunnerFalls
<1> QED
  BY <1>1, <1>2, <1>3, <1>4, <1>5, <1>6, <1>7

\* So it has for the methods of the revive and of the end.
LEMMA SameEnds ==
    /\ \A s, role, target, id, e :
          Ledger!Ping(s, role, target, id, e) = Ping(s, role, target, id, e)
    /\ \A s, role, other, distance, id, e :
          Ledger!StartRevive(s, role, other, distance, id, e)
             = StartRevive(s, role, other, distance, id, e)
    /\ \A s, role, other, distance, id, e :
          Ledger!ObserveRevive(s, role, other, distance, id, e)
             = ObserveRevive(s, role, other, distance, id, e)
    /\ \A s, e : Ledger!CompleteWarden(s, e) = CompleteWarden(s, e)
    /\ \A s, role, e : Ledger!DefeatParticipant(s, role, e) = DefeatParticipant(s, role, e)
    /\ \A s, e : Ledger!Disconnect(s, e) = Disconnect(s, e)
<1> USE DEF Ledger!Running, Running, Ledger!Result, Result, Ledger!Roles, Roles,
            Ledger!Observe, Observe, Ledger!Expired, Expired,
            Ledger!PingExpired, PingExpired, Ledger!ReviveExpired, ReviveExpired,
            Ledger!StrictlyAfter, StrictlyAfter, Ledger!TimeoutAt, TimeoutAt,
            Ledger!CommitTerminal, CommitTerminal
<1>1. \A s, role, target, id, e :
         Ledger!Ping(s, role, target, id, e) = Ping(s, role, target, id, e)
  BY DEF Ledger!Ping, Ping, Ledger!Pings, Pings
<1>2. \A s, role, other, distance, id, e :
         Ledger!StartRevive(s, role, other, distance, id, e)
            = StartRevive(s, role, other, distance, id, e)
  BY DEF Ledger!StartRevive, StartRevive, Ledger!OpenChannel, OpenChannel,
         Ledger!InReach, InReach
<1>3. \A s, role, other, distance, id, e :
         Ledger!ObserveRevive(s, role, other, distance, id, e)
            = ObserveRevive(s, role, other, distance, id, e)
  BY DEF Ledger!ObserveRevive, ObserveRevive, Ledger!CancelRevive, CancelRevive,
         Ledger!FinishRevive, FinishRevive
<1>4. \A s, e : Ledger!CompleteWarden(s, e) = CompleteWarden(s, e)
  BY DEF Ledger!CompleteWarden, CompleteWarden, Ledger!CountWarden, CountWarden,
         Ledger!Contributions, Contributions
<1>5. \A s, role, e : Ledger!DefeatParticipant(s, role, e) = DefeatParticipant(s, role, e)
  BY DEF Ledger!DefeatParticipant, DefeatParticipant, Ledger!Strike, Strike
<1>6. \A s, e : Ledger!Disconnect(s, e) = Disconnect(s, e)
  BY DEF Ledger!Disconnect, Disconnect
<1> QED
  BY <1>1, <1>2, <1>3, <1>4, <1>5, <1>6

\* What a settled transaction is to the ledger.
LEMMA LedgerSettles ==
    ASSUME StoreInv, row # None, NEW t, Settle(t)
    PROVE  /\ \A said : Leaves(t, said) =>
                 IF said \in {"Replayed", "Pending"} THEN Ledger!Put(Stored, said)
                 ELSE Ledger!Keep(said)
           /\ \A s : Changes(t, s) => Ledger!Put(s, t.said)
           /\ RefusedLate(t) => Ledger!Keep("EvidenceRefused")
<1> USE DEF Ledger!Put, Ledger!Keep, Stored
<1>1. ASSUME NEW said, Leaves(t, said)
      PROVE  IF said \in {"Replayed", "Pending"} THEN Ledger!Put(Stored, said)
             ELSE Ledger!Keep(said)
  BY <1>1, LeavesSettles
<1>2. ASSUME NEW s, Changes(t, s)
      PROVE  Ledger!Put(s, t.said)
  <2>1. Commits(t) \/ Abort("Lost")
    BY <1>2, ChangesSettles
  <2>2. t.row # None /\ Meaning(t.row) = s
    BY <1>2, StoreAssumption DEF Changes, RowInv
  <2>3. CASE Commits(t)
    <3>1. row' # None /\ Meaning(row') = s /\ reply' \in {t.said, "Lost"} /\ clock' = clock
      BY <2>2, <2>3 DEF Commits
    <3> QED
      BY <3>1
  <2>4. CASE Abort("Lost")
    BY <2>4 DEF Abort
  <2> QED
    BY <2>1, <2>3, <2>4
<1>3. ASSUME RefusedLate(t)
      PROVE  Ledger!Keep("EvidenceRefused")
  BY <1>3, RefusedSettles DEF Abort
<1> QED
  BY <1>1, <1>2, <1>3

\* The ledger's view of a call that follows the domain.
Answered(result, again) ==
    \/ result.answer = "Expired" /\ Ledger!Put(result.state, "Applied")
    \/ result.answer \in {"Terminal", "Rejected"} /\ Ledger!Keep(result.answer)
    \/ result.answer \in {"Applied", "Cancelled"} /\ Ledger!Put(result.state, result.answer)
    \/ result.answer \in {"Replayed", "Pending"} /\ Ledger!Put(Stored, result.answer)
    \/ result.answer \in {"Replayed", "Pending"} /\ again = TRUE /\ Ledger!Keep("Conflict")

\* A call that follows its transaction answers as the ledger does.
LEMMA FollowsAnswered ==
    ASSUME StoreInv, row # None, NEW t, Settle(t), NEW result, NEW again,
           Follows(t, result, again)
    PROVE  Answered(result, again)
<1>1. CASE result.answer \in {"Applied", "Cancelled", "Expired"}
  BY <1>1, LedgerSettles DEF Follows, Answered
<1>2. CASE result.answer \in {"Terminal", "Rejected"}
  BY <1>2, LedgerSettles DEF Follows, Answered
<1>3. CASE result.answer \in {"Replayed", "Pending"}
  <2>1. \/ Leaves(t, result.answer)
        \/ again = TRUE /\ Leaves(t, "Conflict")
    BY <1>3 DEF Follows
  <2>2. Leaves(t, result.answer) => Ledger!Put(Stored, result.answer)
    BY <1>3, LedgerSettles
  <2>3. Leaves(t, "Conflict") => Ledger!Keep("Conflict")
    BY LedgerSettles
  <2> QED
    BY <1>3, <2>1, <2>2, <2>3 DEF Answered
<1> QED
  BY <1>1, <1>2, <1>3 DEF Follows, Answers

\* A stored operation is one the ledger sees, with the flags of its row.
LEMMA StoredState ==
    ASSUME StoreInv, row # None
    PROVE  /\ Stored = Meaning(row) /\ Stored # None
           /\ row.anchorAt # None <=> "anchor_arrived" \in Stored.contributions
           /\ row.runnerAt # None <=> "runner_arrived" \in Stored.contributions
<1>1. RowInv(row, clock)
  BY DEF StoreInv
<1>2. Meaning(row) \in CooperationStates /\ RowChecks(row)
  BY <1>1 DEF RowInv, Consistent
<1>3. Meaning(row) # None
  BY <1>2, StoreAssumption
<1>4. Meaning(row).contributions = row.flags
  BY DEF Meaning
<1>5. /\ row.anchorAt # None <=> "anchor_arrived" \in row.flags
      /\ row.runnerAt # None <=> "runner_arrived" \in row.flags
  BY <1>2 DEF RowChecks
<1> QED
  BY <1>3, <1>4, <1>5 DEF Stored

\* The calls that the domain answers are the ledger's.
LEMMA MutationsAreLedgers ==
    ASSUME StoreInv, row # None, NEW t, Settle(t)
    PROVE  /\ t \in ArriveAnchorCall(Meaning(row)) => Ledger!AnchorArrival
           /\ t \in PingCall(Meaning(row)) => \E id \in OperationIds : Ledger!PingOf(id)
           /\ t \in DownRunnerCall(Meaning(row)) => Ledger!RunnerDown
           /\ t \in StartReviveCall(Meaning(row)) =>
                 \E id \in OperationIds, distance \in Distances :
                    Ledger!ReviveStart(id, distance)
           /\ t \in ObserveReviveCall(Meaning(row)) =>
                 \E id \in OperationIds, distance \in Distances :
                    Ledger!ReviveObserved(id, distance)
<1> USE DEF Answered, Ledger!Mutate
<1>0. Stored = Meaning(row) /\ Stored # None
  BY StoredState
<1>1. ASSUME t \in ArriveAnchorCall(Meaning(row))
      PROVE  Ledger!AnchorArrival
  <2>1. row.anchorAt # None => Answered(ObserveDeadlines(Stored, clock), TRUE)
    BY <1>0, <1>1, AnchorCallFollows, FollowsAnswered
  <2>2. row.anchorAt = None =>
           Answered(ArriveAnchor(Stored, "Anchor", "RelayAnchor", clock), FALSE)
    BY <1>0, <1>1, AnchorCallFollows, FollowsAnswered
  <2> QED
    BY <1>0, <2>1, <2>2, StoredState, SameDomain DEF Ledger!AnchorArrival, Stored
<1>2. ASSUME t \in PingCall(Meaning(row))
      PROVE  \E id \in OperationIds : Ledger!PingOf(id)
  <2>1. PICK id \in OperationIds :
           Answered(Ping(Stored, "Anchor", "RelayConsole", id, clock), FALSE)
    BY <1>0, <1>2, PingCallFollows, FollowsAnswered
  <2>2. Ledger!PingOf(id)
    BY <1>0, <2>1, SameEnds DEF Ledger!PingOf, Stored
  <2> QED
    BY <2>2
<1>3. ASSUME t \in DownRunnerCall(Meaning(row))
      PROVE  Ledger!RunnerDown
  <2>1. row.runnerAt # None => Answered(ObserveDeadlines(Stored, clock), TRUE)
    BY <1>0, <1>3, FallCallFollows, FollowsAnswered
  <2>2. row.runnerAt = None =>
           Answered(ArriveRunner(Stored, "Runner", "RelayConsole", clock), FALSE)
    BY <1>0, <1>3, FallCallFollows, FollowsAnswered
  <2> QED
    BY <1>0, <2>1, <2>2, StoredState, SameDomain DEF Ledger!RunnerDown, Stored
<1>4. ASSUME t \in StartReviveCall(Meaning(row))
      PROVE  \E id \in OperationIds, distance \in Distances : Ledger!ReviveStart(id, distance)
  <2>1. PICK id \in OperationIds, distance \in Distances :
           Answered(StartRevive(Stored, "Anchor", "Runner", distance, id, clock), FALSE)
    BY <1>0, <1>4, ChannelCallFollows, FollowsAnswered
  <2>2. Ledger!ReviveStart(id, distance)
    BY <1>0, <2>1, SameEnds DEF Ledger!ReviveStart, Stored
  <2> QED
    BY <2>2
<1>5. ASSUME t \in ObserveReviveCall(Meaning(row))
      PROVE  \E id \in OperationIds, distance \in Distances : Ledger!ReviveObserved(id, distance)
  <2>1. PICK id \in OperationIds, distance \in Distances, again \in BOOLEAN :
           LET result == ObserveRevive(Stored, "Anchor", "Runner", distance, id, clock)
           IN  Answered(result, again) /\ (again = TRUE => result.answer = "Replayed")
    BY <1>0, <1>5, ReviveCallFollows, FollowsAnswered
  <2>2. Ledger!ReviveObserved(id, distance)
    BY <1>0, <2>1, SameEnds DEF Ledger!ReviveObserved, Stored
  <2> QED
    BY <2>2
<1> QED
  BY <1>1, <1>2, <1>3, <1>4, <1>5

\* The calls that end the operation are the ledger's too.
LEMMA EndingsAreLedgers ==
    ASSUME StoreInv, row # None, NEW t, Settle(t)
    PROVE  /\ t \in CompleteCall(Meaning(row)) => Ledger!Completion
           /\ t \in TimeoutCall(Meaning(row)) => Ledger!TimedOut
           /\ t \in DefeatCall(Meaning(row)) => \E role \in Roles : Ledger!Defeat(role)
           /\ t \in AbandonCall(Meaning(row)) => \E role \in Roles : Ledger!Abandon(role)
<1>0. Stored = Meaning(row) /\ Stored # None
  BY StoredState
<1>1. ASSUME t \in CompleteCall(Meaning(row))
      PROVE  Ledger!Completion
  <2> DEFINE result == CompleteWarden(Stored, clock)
  <2>1. /\ ~Running(Stored) => \/ Stored.terminal = "Succeeded" /\ Leaves(t, "Replayed")
                               \/ Leaves(t, "Conflict")
        /\ Running(Stored) /\ result.answer = "Applied" =>
              Changes(t, result.state) /\ t.said = "Applied"
        /\ Running(Stored) /\ result.answer # "Applied" => Leaves(t, result.answer)
    BY <1>0, <1>1, CompleteCallFollows
  <2>2. Running(Stored) => result.answer \in {"Expired", "Applied", "Rejected"}
    BY DEF CompleteWarden, Observe, Result, Running
  <2> HIDE DEF result
  <2>3. /\ Leaves(t, "Replayed") => Ledger!Put(Stored, "Replayed")
        /\ Leaves(t, "Conflict") => Ledger!Keep("Conflict")
        /\ Leaves(t, result.answer) /\ result.answer \in {"Expired", "Rejected"} =>
              Ledger!Keep(result.answer)
        /\ Changes(t, result.state) /\ t.said = "Applied" =>
              Ledger!Put(result.state, "Applied")
    BY LedgerSettles
  <2>4. IF ~Running(Stored)
        THEN \/ Stored.terminal = "Succeeded" /\ Ledger!Put(Stored, "Replayed")
             \/ Ledger!Keep("Conflict")
        ELSE IF result.answer = "Applied" THEN Ledger!Put(result.state, "Applied")
        ELSE Ledger!Keep(result.answer)
    BY <2>1, <2>2, <2>3
  <2> QED
    BY <1>0, <2>4, SameDomain, SameEnds DEF Ledger!Completion, Stored, result
<1>2. ASSUME NEW matches, NEW role, NEW result, Finishes(t, matches, role, result)
      PROVE  Ledger!FinishFailure(matches, role, result)
  <2>1. /\ ~Running(Stored) => \/ Stored.terminal \in matches /\ Leaves(t, "Replayed")
                               \/ Leaves(t, "Conflict")
        /\ Running(Stored) =>
              /\ result.answer \in {"Applied", "Expired", "Pending", "Rejected"}
              /\ result.answer = "Applied" =>
                    Changes(t, result.state) /\ t.said = "Applied"
              /\ result.answer = "Expired" /\ role = None =>
                    Changes(t, result.state) /\ t.said = "Applied"
              /\ result.answer = "Expired" /\ role # None => RefusedLate(t)
              /\ result.answer = "Pending" => Leaves(t, "Conflict")
              /\ result.answer = "Rejected" => Leaves(t, "Rejected")
    BY <1>0, <1>2 DEF Finishes
  <2>2. /\ Leaves(t, "Replayed") => Ledger!Put(Stored, "Replayed")
        /\ Leaves(t, "Conflict") => Ledger!Keep("Conflict")
        /\ Leaves(t, "Rejected") => Ledger!Keep("Rejected")
        /\ RefusedLate(t) => Ledger!Keep("EvidenceRefused")
        /\ Changes(t, result.state) /\ t.said = "Applied" =>
              Ledger!Put(result.state, "Applied")
    BY LedgerSettles
  <2>3. \/ /\ ~Running(Stored)
           /\ \/ Stored.terminal \in matches /\ Ledger!Put(Stored, "Replayed")
              \/ Ledger!Keep("Conflict")
        \/ /\ Running(Stored)
           /\ \/ result.answer = "Applied" /\ Ledger!Put(result.state, "Applied")
              \/ result.answer = "Expired" /\ role = None
                 /\ Ledger!Put(result.state, "Applied")
              \/ result.answer = "Expired" /\ role # None /\ Ledger!Keep("EvidenceRefused")
              \/ result.answer = "Pending" /\ Ledger!Keep("Conflict")
              \/ result.answer \notin {"Applied", "Expired", "Pending"}
                 /\ Ledger!Keep(result.answer)
    BY <2>1, <2>2
  <2> QED
    BY <2>3, SameDomain DEF Ledger!FinishFailure, Stored
<1>3. ASSUME t \in TimeoutCall(Meaning(row))
      PROVE  Ledger!TimedOut
  <2>1. Ledger!FinishFailure(Timeouts, None, ObserveDeadlines(Stored, clock))
    BY <1>0, <1>2, <1>3, TimeoutCallFinishes
  <2>2. Ledger!Timeouts = Timeouts
    BY DEF Ledger!Timeouts, Timeouts
  <2> QED
    BY <1>0, <2>1, <2>2, SameDomain DEF Ledger!TimedOut, Stored
<1>4. ASSUME t \in DefeatCall(Meaning(row))
      PROVE  \E role \in Roles : Ledger!Defeat(role)
  <2>1. PICK role \in Roles :
           Ledger!FinishFailure({"FailedParticipantDefeated"}, role,
                                DefeatParticipant(Stored, role, clock))
    BY <1>0, <1>2, <1>4, DefeatCallFinishes
  <2>2. Ledger!Defeat(role)
    BY <1>0, <2>1, SameEnds DEF Ledger!Defeat, Stored
  <2> QED
    BY <2>2
<1>5. ASSUME t \in AbandonCall(Meaning(row))
      PROVE  \E role \in Roles : Ledger!Abandon(role)
  <2>1. PICK role \in Roles :
           Ledger!FinishFailure({"AbandonedDisconnect"}, role, Disconnect(Stored, clock))
    BY <1>0, <1>2, <1>5, AbandonCallFinishes
  <2>2. Ledger!Abandon(role)
    BY <1>0, <2>1, SameEnds DEF Ledger!Abandon, Stored
  <2> QED
    BY <2>2
<1> QED
  BY <1>1, <1>3, <1>4, <1>5

\* The ledger admits with the same health.
LEMMA SameHealths == \A profile : Ledger!Healths(profile) = Healths(profile)
  BY DEF Ledger!Healths, Healths, Ledger!Roles, Roles

\* The start and its retry.
LEMMA StartsAreLedgers ==
    ASSUME StoreInv
    PROVE  /\ StartOperation =>
                 \E id \in OperationIds, profile \in [Roles -> Profiles] :
                    \E health \in Healths(profile) : Ledger!Start(id, profile, health)
           /\ \A t \in RetryStartCall(Meaning(row)) :
                 row # None /\ Settle(t) =>
                    \E id \in OperationIds, profile \in [Roles -> Profiles] :
                       \E health \in Healths(profile) :
                          Ledger!RetriedStart(id, profile, health, TRUE)
<1>1. ASSUME StartOperation
      PROVE  \E id \in OperationIds, profile \in [Roles -> Profiles] :
                \E health \in Healths(profile) : Ledger!Start(id, profile, health)
  <2>1. PICK id \in OperationIds, profile \in [Roles -> Profiles] :
           \E health \in Healths(profile) :
              LET t == StartCall(id, profile, health)
              IN  /\ row = None
                  /\ \/ ~CanStart(profile, health) /\ Abort("Rejected")
                     \/ /\ CanStart(profile, health)
                        /\ Written(t) /\ t.said = "Applied"
                        /\ Meaning(t.row) = StartWithHealth(id, profile, health)
                        /\ t.row.flags = {} /\ t.row.outcome = "None"
                        /\ Commits(t) \/ Abort("Lost")
    BY <1>1, StartSettles
  <2>2. PICK health \in Healths(profile) :
           LET t == StartCall(id, profile, health)
           IN  /\ row = None
               /\ \/ ~CanStart(profile, health) /\ Abort("Rejected")
                  \/ /\ CanStart(profile, health)
                     /\ Written(t) /\ t.said = "Applied"
                     /\ Meaning(t.row) = StartWithHealth(id, profile, health)
                     /\ t.row.flags = {} /\ t.row.outcome = "None"
                     /\ Commits(t) \/ Abort("Lost")
    BY <2>1
  <2> DEFINE t == StartCall(id, profile, health)
             s == StartWithHealth(id, profile, health)
  <2>3. CASE ~CanStart(profile, health) /\ Abort("Rejected")
    <3>1. Ledger!Keep("Rejected")
      BY <2>3 DEF Ledger!Keep, Abort
    <3> QED
      BY <2>2, <2>3, <3>1, SameDomain DEF Ledger!Start
  <2>4. CASE CanStart(profile, health)
    <3>1. /\ Written(t) /\ t.said = "Applied" /\ Meaning(t.row) = s /\ row = None
          /\ Commits(t) \/ Abort("Lost")
      BY <2>2, <2>4
    <3> HIDE DEF t, s
    <3>2. t.row # None
      BY <3>1, StoreAssumption DEF Written, RowInv
    <3>3. Ledger!Put(s, "Applied")
      <4>1. CASE Commits(t)
        <5>1. /\ row' # None /\ Meaning(row') = s
              /\ reply' \in {"Applied", "Lost"} /\ clock' = clock
          BY <3>1, <3>2, <4>1 DEF Commits
        <5> QED
          BY <5>1 DEF Ledger!Put
      <4>2. CASE Abort("Lost")
        BY <4>2 DEF Ledger!Put, Ledger!Keep, Abort
      <4> QED
        BY <3>1, <4>1, <4>2
    <3>4. Ledger!Start(id, profile, health)
      BY <2>4, <3>1, <3>3, SameDomain DEF Ledger!Start, s
    <3> QED
      BY <3>4
  <2> QED
    BY <2>2, <2>3, <2>4
<1>2. ASSUME NEW t \in RetryStartCall(Meaning(row)), row # None, Settle(t)
      PROVE  \E id \in OperationIds, profile \in [Roles -> Profiles] :
                \E health \in Healths(profile) : Ledger!RetriedStart(id, profile, health, TRUE)
  <2>0. Stored = Meaning(row) /\ Stored # None
    BY <1>2, StoredState
  <2>1. PICK id \in OperationIds, profile \in [Roles -> Profiles] :
           \E health \in Healths(profile) :
              LET answer == RetryStart(Stored, id, profile, health).answer
              IN  answer \in {"Replayed", "Rejected"} /\ Leaves(t, answer)
    BY <1>2, <2>0, RetryCallLeaves
  <2>2. PICK health \in Healths(profile) :
           LET answer == RetryStart(Stored, id, profile, health).answer
           IN  answer \in {"Replayed", "Rejected"} /\ Leaves(t, answer)
    BY <2>1
  <2> DEFINE answer == RetryStart(Stored, id, profile, health).answer
  <2> HIDE DEF answer
  <2>3. answer \in {"Replayed", "Rejected"} /\ Leaves(t, answer)
    BY <2>2 DEF answer
  <2>4. IF answer = "Rejected" THEN Ledger!Keep("Rejected") ELSE Ledger!Put(Stored, "Replayed")
    BY <1>2, <2>3, LedgerSettles
  <2>5. Ledger!RetriedStart(id, profile, health, TRUE)
    BY <2>0, <2>3, <2>4, SameDomain DEF Ledger!RetriedStart, Stored, answer
  <2> QED
    BY <2>5
<1> QED
  BY <1>1, <1>2

\* Every step of the store is a step of the ledger.
LEMMA StepsAreLedgers ==
    ASSUME StoreInv, Next
    PROVE  [Ledger!LedgerNext]_(Ledger!ledger)
<1>1. CASE StartOperation
  <2>1. \E id \in OperationIds, profile \in [Roles -> Profiles] :
           \E health \in Healths(profile) : Ledger!Start(id, profile, health)
    BY <1>1, StartsAreLedgers
  <2> QED
    BY <2>1, SameHealths DEF Ledger!LedgerNext, Ledger!Roles, Roles
<1>2. CASE StoredCall
  <2>1. Loads(row) /\ StreamMatches(row, events) /\ Loaded(row) = Meaning(row) /\ row # None
    BY <1>2 DEF StoredCall, StoreInv, RowInv, EvidenceInv
  <2>2. PICK t \in Calls(Meaning(row)) : Settle(t)
    BY <1>2, <2>1 DEF StoredCall
  <2>3. CASE t \in RetryStartCall(Meaning(row))
    <3>1. \E id \in OperationIds, profile \in [Roles -> Profiles] :
             \E health \in Healths(profile) : Ledger!RetriedStart(id, profile, health, TRUE)
      BY <2>1, <2>2, <2>3, StartsAreLedgers
    <3> QED
      BY <3>1, SameHealths DEF Ledger!LedgerNext, Ledger!Roles, Roles
  <2>4. CASE t \in ArriveAnchorCall(Meaning(row)) \cup PingCall(Meaning(row))
                   \cup DownRunnerCall(Meaning(row)) \cup StartReviveCall(Meaning(row))
                   \cup ObserveReviveCall(Meaning(row))
    BY <2>1, <2>2, <2>4, MutationsAreLedgers DEF Ledger!LedgerNext
  <2>5. CASE t \in CompleteCall(Meaning(row)) \cup TimeoutCall(Meaning(row))
                   \cup DefeatCall(Meaning(row)) \cup AbandonCall(Meaning(row))
    BY <2>1, <2>2, <2>5, EndingsAreLedgers DEF Ledger!LedgerNext, Ledger!Roles, Roles
  <2> QED
    BY <2>2, <2>3, <2>4, <2>5 DEF Calls
<1>3. CASE Tick
  BY <1>3, StoredState DEF Tick, Stored, Ledger!LedgerNext, Ledger!LedgerTick
<1> QED
  BY <1>1, <1>2, <1>3 DEF Next

\* Rows, evidence and grants together are the ledger the gateway counts on, and the
\* contract of the relay is kept, whatever is lost or refused in between.
THEOREM StoreImplementsLedger == Spec => ImplementsLedger
<1>1. Init => Ledger!LedgerInit
  BY DEF Init, Ledger!LedgerInit
<1>2. StoreInv /\ [Next]_vars => [Ledger!LedgerNext]_(Ledger!ledger)
  <2>1. ASSUME UNCHANGED vars PROVE UNCHANGED Ledger!ledger
    BY <2>1 DEF vars, Ledger!ledger
  <2> QED
    BY <2>1, StepsAreLedgers
<1> QED
  BY <1>1, <1>2, StoreInvariance, StoreImplementsContract, PTL
  DEF Spec, ImplementsLedger, Ledger!LedgerSpec
=============================================================================
