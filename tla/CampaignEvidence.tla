-------------------------- MODULE CampaignEvidence --------------------------
(***************************************************************************)
(* What the replay accepts of a campaign (src/runtime/replay/campaign).    *)
(* A log is the sequence of rows of one session in the order of their ids; *)
(* the id of a row is its place.  A row of the campaign has to fit the     *)
(* earlier rows of its session.                                            *)
(***************************************************************************)
EXTENDS CampaignDomain, FiniteSetsExt

Row(kind, data) == [kind |-> kind, data |-> data]

\* A checkpoint or an admission of a saved run (then command = None).
Step(op, before, command, after, proof) ==
  [op |-> op, before |-> before, command |-> command, after |-> after, proof |-> proof]
NoCommand == [kind |-> "None"]

OfKind(log, ids, kinds) == {j \in ids : log[j].kind \in kinds}

\* The last campaign row before row i in its session, or 0; and what it admits.
Boundary(log, i) == Max(OfKind(log, 1 .. i - 1, {"Checkpoint", "Resumed"}) \cup {0})
Admitted(log, i) == log[Boundary(log, i)].data.after

-----------------------------------------------------------------------------
(* The stations of Meridian: two errands and a memory.                     *)

Survey == << "meridian_arrival", "meridian_lens", "meridian_gallery" >>
Recovery == << "meridian_log", "meridian_return" >>
Stations == {Survey[i] : i \in DOMAIN Survey} \cup {Recovery[i] : i \in DOMAIN Recovery}
              \cup {"meridian_memory"}

\* An expedition counts the stations visited; at a checkpoint it starts over.
Restored(checkpoint) ==
  [survey |-> CASE checkpoint = 0 -> 0 [] checkpoint = 1 -> 1 [] OTHER -> 3,
   recovery |-> 0, memory |-> FALSE]

Active(e, station) ==
  \/ e.survey < 3 /\ station = Survey[e.survey + 1]
  \/ e.recovery < 2 /\ station = Recovery[e.recovery + 1]
  \/ ~e.memory /\ station = "meridian_memory"

Visited(e, station) ==
  [survey   |-> e.survey + (IF \E i \in DOMAIN Survey : Survey[i] = station THEN 1 ELSE 0),
   recovery |-> e.recovery + (IF \E i \in DOMAIN Recovery : Recovery[i] = station THEN 1 ELSE 0),
   memory   |-> e.memory \/ station = "meridian_memory"]

\* The expedition the replay has before row i.
Replayed(log, i) ==
  LET resumed == OfKind(log, 1 .. i - 1, {"Resumed"})
      fields  == OfKind(log, 1 .. i - 1, {"Field"})
      start   == Restored(IF resumed = {} THEN 0
                          ELSE log[Max(resumed)].data.after.active.checkpoint)
      Count(S) == Cardinality({j \in fields : log[j].data \in S})
  IN  [survey   |-> start.survey + Count({Survey[k] : k \in DOMAIN Survey}),
       recovery |-> Count({Recovery[k] : k \in DOMAIN Recovery}),
       memory   |-> Count({"meridian_memory"}) > 0]

\* A session opens its expedition with its first field row, unless it was resumed.
HasExpedition(log, i) ==
  \/ \E j \in OfKind(log, 1 .. i - 1, {"Field"}) : log[j].data = "started"
  \/ \E j \in OfKind(log, 1 .. i - 1, {"Resumed"}) :
        log[j].data.after.active.chapter = "MeridianReadings"

FieldFits(log, i) ==
  IF log[i].data = "started" THEN ~HasExpedition(log, i)
  ELSE HasExpedition(log, i) /\ Active(Replayed(log, i), log[i].data)

-----------------------------------------------------------------------------
(* The proof of a milestone.                                               *)

Guard(m) ==
  CASE m = "RelayGuardCleared" -> "Drone"
    [] m \in {"ReturnSignalRecovered", "BreachGuardCleared"} -> "Warden"
    [] m = "SupplyGuardCleared" -> "Sentinel"
    [] m = "CounterSupportCleared" -> "Support"
    [] m = "CounterBastionCleared" -> "Elite"
    [] m = "PrismWardenCleared" -> "Prism"
    [] OTHER -> "None"

\* The encounters whose evidence has a validator of its own.
Encounters == {"Support", "Elite", "Prism"}

Station(m) ==
  CASE m = "MeridianReached" -> "meridian_arrival"
    [] m = "SurveyLinked" -> "meridian_gallery"
    [] m = "RecoveryDelivered" -> "meridian_return"
    [] OTHER -> "None"

\* The foe fell after it was met, and not in the time before `since'.
Fallen(log, i, foe, since) ==
  \E j, k \in 1 .. i :
     /\ since < j /\ j < k
     /\ log[j].kind = "Spawned" /\ log[j].data = foe
     /\ log[k].kind = "Died" /\ log[k].data = foe

FoeOfBoundary_(log, proof, m) ==
  LET row == log[proof]
  IN  CASE Station(m) # "None" -> row.kind = "Field" /\ row.data = Station(m)
        [] Guard(m) \in {"Drone", "Warden", "Sentinel"} ->
             row.kind = "Died" /\ row.data = Guard(m) /\ Fallen(log, proof, Guard(m), Boundary(log, proof))
        [] Guard(m) \in Encounters ->
             /\ row.kind = "Objective" /\ row.data = m
             /\ Boundary(log, proof) # 0
             /\ Fallen(log, proof, Guard(m), Boundary(log, proof))
        [] OTHER ->
             /\ row.kind = "Objective" /\ Boundary(log, proof) # 0
             /\ row.data = Authored(Admitted(log, proof).story, m)

Verified(log, proof, m) ==
  LET row == log[proof]
  IN  CASE Station(m) # "None" -> row.kind = "Field" /\ row.data = Station(m)
        [] Guard(m) \in {"Drone", "Warden", "Sentinel"} ->
             row.kind = "Died" /\ row.data = Guard(m) /\ Fallen(log, proof, Guard(m), 0)
        [] Guard(m) \in Encounters ->
             /\ row.kind = "Objective" /\ row.data = m
             /\ Boundary(log, proof) # 0
             /\ Fallen(log, proof, Guard(m), Boundary(log, proof))
        [] OTHER ->
             /\ row.kind = "Objective" /\ Boundary(log, proof) # 0
             /\ row.data = Authored(Admitted(log, proof).story, m)

-----------------------------------------------------------------------------
(* Which rows fit.                                                         *)

\* An objective is the next one of the run admitted last, and the first since.
ObjectiveFits(log, i) ==
  /\ Boundary(log, i) # 0
  /\ LET s == Admitted(log, i)
     IN  /\ s.active # NoRun
         /\ s.active.chapter \in {"BrokenSupplyLine", "CounterSignal", "TheBreach", "PrismCore"}
         /\ Guard(NextMilestone(s)) \in Encounters \cup {"None"}
         /\ log[i].data = Authored(s.story, NextMilestone(s))
  /\ \A j \in 1 .. i - 1 : j > Boundary(log, i) => log[j].kind \notin {"Objective", "Completed"}

\* An encounter is met at its boundary.
SpawnFits(log, i) ==
  log[i].data \in Encounters =>
    /\ Boundary(log, i) # 0
    /\ Admitted(log, i).active # NoRun
    /\ Guard(NextMilestone(Admitted(log, i))) = log[i].data

\* A saved run is resumed in a fresh session, once.
ResumeFits(log, i) ==
  /\ \A j \in 1 .. i - 1 : log[j].kind \in {"Snapshot", "Started"}
  /\ log[i].data.after.active # NoRun /\ ValidState(log[i].data.after)

\* A story row belongs to the checkpoint that follows it.
StoryFits(log, i) ==
  /\ i + 1 \in DOMAIN log /\ log[i + 1].kind = "Checkpoint"
  /\ log[i + 1].data.proof = i /\ log[i + 1].data.command = log[i].data

ProofFits(log, i) ==
  LET row == log[i].data
  IN  CASE row.command.kind = "Enter" -> TRUE
        [] row.command.kind = "Confirm" ->
             /\ row.proof \in Boundary(log, i) + 1 .. i - 1
             /\ Verified(log, row.proof, row.command.milestone)
        [] row.command.kind = "Story" ->
             /\ Boundary(log, i) # 0 /\ row.proof \in Boundary(log, i) + 1 .. i - 1
             /\ log[row.proof].kind = "Story" /\ log[row.proof].data = row.command

\* A checkpoint is a transition of the domain, proved, and continues its session.
CheckpointFits(log, i) ==
  LET row == log[i].data
  IN  /\ Proposes(row.before, row.before.revision, row.command)
      /\ row.after = After(row.before, row.command)
      /\ Boundary(log, i) # 0 => row.before = Admitted(log, i)
      /\ \A j \in OfKind(log, 1 .. i - 1, {"Checkpoint"}) : log[j].data.op # row.op
      /\ ProofFits(log, i)

Fits(log, i) ==
  CASE log[i].kind = "Objective"  -> ObjectiveFits(log, i)
    [] log[i].kind = "Field"      -> FieldFits(log, i)
    [] log[i].kind = "Spawned"    -> SpawnFits(log, i)
    [] log[i].kind = "Resumed"    -> ResumeFits(log, i)
    [] log[i].kind = "Story"      -> StoryFits(log, i)
    [] log[i].kind = "Checkpoint" -> CheckpointFits(log, i)
    [] OTHER -> TRUE

\* Exactly one character was admitted to the session.
Solo(log) == Cardinality(OfKind(log, DOMAIN log, {"Snapshot"})) = 1

\* The session can be reconstructed.
Reconstructs(log) == Solo(log) /\ \A i \in DOMAIN log : Fits(log, i)
=============================================================================
