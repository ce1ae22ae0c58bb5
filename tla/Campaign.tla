------------------------------ MODULE Campaign ------------------------------
(***************************************************************************)
(* The campaign of one character: its journal in the replay log, and the   *)
(* gateways that serve it.  A milestone takes two transactions: the world  *)
(* writes its proof, then the checkpoint is committed under the lock of    *)
(* the character.  Between any two of them the gateway may stop, the       *)
(* answer may get lost, and another gateway may play the same save.        *)
(* Walking and fighting are reduced to their outcome: a place is reached,  *)
(* a foe falls.  A name that ends in an underscore is a faulty variant.    *)
(***************************************************************************)
EXTENDS CampaignEvidence

CONSTANTS
  Gateways,     \* processes that serve the character, one session each
  Origins,      \* saves of earlier days, whose chapters were rewarded then
  MaxEntries,   \* bounds the number of entries
  Recent,       \* bounds practice to so many of the chapters cleared last
  StoryOps      \* operation ids the client uses for the story

ASSUME CampaignAssumption ==
  /\ MaxEntries \in Nat /\ Recent \in Nat
  /\ \A s \in Origins : ValidState(s) /\ s.active = NoRun

VARIABLES
  origin,   \* the save before the first row of the journal
  logs,     \* the rows of each session
  journal,  \* the campaign rows of all sessions by their ids: session and place
  ledger,   \* the rewards granted: session and chapter
  gates,    \* the session of each gateway
  entries   \* how many entries were prepared; each takes a new identity

vars == <<origin, logs, journal, ledger, gates, entries>>

NewSave == [revision |-> 0, cleared |-> 0, active |-> NoRun, story |-> NewStory]
Idle == [id |-> 0, phase |-> "Idle", chapter |-> "None", entry |-> NoCommand, revision |-> 0,
         memory |-> NewSave, foe |-> "None", field |-> Restored(0), proof |-> 0, due |-> "None"]

Data(at) == logs[at[1]][at[2]].data
Checkpoints == {i \in DOMAIN journal : Data(journal[i]).command # NoCommand}
SavedBefore(n) == LET S == {i \in Checkpoints : i < n}
                  IN  IF S = {} THEN origin ELSE Data(journal[Max(S)]).after
Saved == SavedBefore(Len(journal) + 1)

Init == /\ origin \in Origins /\ journal = <<>> /\ ledger = {}
        /\ logs = [id \in 1 .. MaxEntries |-> <<>>]
        /\ gates = [g \in Gateways |-> Idle] /\ entries = 0

Log(g) == logs[gates[g].id]
Stores(g, rows) == logs' = [logs EXCEPT ![gates[g].id] = @ \o rows]

Becomes(g, s) == gates' = [gates EXCEPT ![g] = s]

\* The connection ends, the session is aborted or the gateway stops.
Reset(g) == Becomes(g, Idle)

Leave(g) ==
  /\ gates[g].phase # "Idle"
  /\ Reset(g) /\ UNCHANGED <<origin, logs, journal, ledger, entries>>

\* Rows written one by one; whatever fails on the way aborts the session.
Write(g, rows, s) ==
  /\ \/ Stores(g, rows) /\ Becomes(g, s)
     \/ \E k \in 1 .. Len(rows) : Stores(g, SubSeq(rows, 1, k)) /\ Reset(g)
  /\ UNCHANGED <<origin, journal, ledger, entries>>

-----------------------------------------------------------------------------
(* The transactions of the save.                                           *)

\* apply_campaign_command: the rows a new command adds.
RewardPractice_(c) == c.kind = "Confirm" /\ Ends(Saved)

Rewarded(c) == FirstClear(Saved, c)

Added(g, op, c, proof) ==
  LET told == IF c.kind = "Story" THEN << Row("Story", c) >> ELSE <<>>
      ends == IF c.kind = "Confirm" /\ Ends(Saved) THEN << Row("Completed", "None") >> ELSE <<>>
      paid == IF Rewarded(c) THEN << Row("Loot", "None"), Row("Progression", "None") >> ELSE <<>>
      by   == IF c.kind = "Story" THEN Len(Log(g)) + 1 ELSE proof
  IN  told \o ends \o paid \o << Row("Checkpoint", Step(op, Saved, c, After(Saved, c), by)) >>

\* No operation and no run is stored twice.
Unused(op, c) ==
  \A i \in Checkpoints :
    LET row == Data(journal[i])
    IN  row.op # op /\ (c.kind = "Enter" /\ row.command.kind = "Enter" => row.command.run # c.run)

\* Judged under the lock of the character, on the save as it is.
Accepts(g, op, expected, c, proof) ==
  /\ Proposes(Saved, expected, c) /\ Unused(op, c)
  /\ ChapterOf(Saved, c) = gates[g].chapter
  /\ OfKind(Log(g), DOMAIN Log(g), {"Completed"}) = {}
  /\ Rewarded(c) => \A r \in ledger : r[1] # gates[g].id
  /\ Reconstructs(Log(g) \o Added(g, op, c, proof))

Commit(g, op, expected, c, proof, more) ==
  LET rows == Added(g, op, c, proof)
  IN  /\ Accepts(g, op, expected, c, proof)
      /\ Stores(g, rows \o more)
      /\ journal' = Append(journal, << gates[g].id, Len(Log(g)) + Len(rows) >>)
      /\ ledger' = IF Rewarded(c) THEN ledger \cup {<< gates[g].id, gates[g].chapter >>} ELSE ledger
      /\ UNCHANGED <<origin, entries>>

\* resume_campaign_with_replay: admits the save as it is, and does not change it.
Admission == Row("Resumed", Step("None", Saved, NoCommand, Saved, Max(Checkpoints \cup {0})))

MayResume(g) ==
  /\ Saved.revision = gates[g].revision
  /\ Saved.active # NoRun /\ Saved.active.chapter = gates[g].chapter
  /\ Checkpoints # {}
  /\ Reconstructs(Append(Log(g), Admission))

Resume(g) ==
  /\ MayResume(g) /\ Stores(g, << Admission >>)
  /\ journal' = Append(journal, << gates[g].id, Len(Log(g)) + 1 >>)
  /\ UNCHANGED <<origin, ledger, entries>>

-----------------------------------------------------------------------------
(* Entering.                                                               *)

\* prepare_campaign_entry reads the save and holds no lock.
Prepare(g, command) ==
  /\ gates[g].phase = "Idle" /\ entries < MaxEntries
  /\ IF command = NoCommand THEN Saved.active # NoRun
                            ELSE Proposes(Saved, Saved.revision, command)
  /\ entries' = entries + 1
  /\ Becomes(g, [gates[g] EXCEPT !.id = entries', !.phase = "Prepared",
                   !.chapter = IF command = NoCommand THEN Saved.active.chapter ELSE command.chapter,
                   !.entry = command, !.revision = Saved.revision, !.memory = Saved])
  /\ UNCHANGED <<origin, logs, journal, ledger>>

\* The admission row is stored before the loadout is judged: who is turned away leaves it
\* in a session that nobody is in any more, and that is reset.
Join(g) ==
  /\ gates[g].phase = "Prepared"
  /\ Stores(g, << Row("Snapshot", "None") >>)
  /\ Becomes(g, [gates[g] EXCEPT !.phase = "Joined"]) \/ Reset(g)
  /\ UNCHANGED <<origin, journal, ledger, entries>>

\* The command that opens a new run, or the admission of the open one.
EntryOp(g) == << "entry", gates[g].id >>

Admit(g) ==
  /\ gates[g].phase = "Joined"
  /\ IF gates[g].entry = NoCommand THEN Resume(g)
     ELSE Commit(g, EntryOp(g), gates[g].revision, gates[g].entry, 0, <<>>)
  /\ Becomes(g, [gates[g] EXCEPT !.phase = "Entered", !.memory = Saved']) \/ Reset(g)

\* start_campaign: what is in the world at a checkpoint.
FoeAt(s) ==
  LET at == << s.active.chapter, s.active.checkpoint >>
  IN  CASE at = << "ReturnSignal", 0 >> -> "Drone"
        [] at = << "BrokenSupplyLine", 1 >> -> "Sentinel"
        [] at = << "CounterSignal", 1 >> -> "Support"
        [] at = << "CounterSignal", 4 >> -> "Elite"
        [] at = << "TheBreach", 1 >> -> "Warden"
        [] at = << "TheBreach", 2 >> /\ ~Direct(s.story) -> "Warden"
        [] at = << "PrismCore", 1 >> -> "Prism"
        [] OTHER -> "None"

Spawns(foe) == IF foe = "None" THEN <<>> ELSE << Row("Spawned", foe) >>

Start(g) ==
  /\ gates[g].phase = "Entered"
  /\ LET s     == gates[g].memory
         opens == s.active.chapter = "MeridianReadings" /\ gates[g].entry # NoCommand
         field == IF opens THEN << Row("Field", "started") >> ELSE <<>>
     IN  Write(g, << Row("Started", "None") >> \o Spawns(FoeAt(s)) \o field,
               [gates[g] EXCEPT !.phase = "Playing", !.foe = FoeAt(s),
                                !.field = Restored(s.active.checkpoint)])

-----------------------------------------------------------------------------
(* Playing: every milestone first stores its proof.                        *)

Plays(g) == /\ gates[g].phase = "Playing" /\ gates[g].proof = 0
            /\ gates[g].memory.active # NoRun

\* Handles a row of the world and remembers which milestone it proves.
Prove(g, rows, m, s) ==
  Write(g, rows, [s EXCEPT !.proof = Len(Log(g)) + Len(rows), !.due = m])

\* Where each checkpoint waits for the player.
SupplyPlaces == { << 0, "SupplyRouteReached" >>, << 2, "SupplyCellRecovered" >>, << 3, "SupplyDelivered" >> }
CounterPlaces == { << 0, "CounterApproachReached" >>, << 2, "CounterSignalDecoded" >>,
                   << 3, "CounterBastionReached" >>, << 5, "CounterSignalIsolated" >> }
BreachPlaces(story) == { << 0, "BreachDoorReached" >>, << 3, "BreachCoreReached" >>,
                         << IF Direct(story) THEN 2 ELSE 1, "BreachCircuitStabilized" >> }
PrismPlaces == { << 0, "PrismChamberReached" >>, << 2, "PrismSourceStopped" >>,
                 << 3, "PrismReturnCompleted" >> }

Places(s) ==
  CASE s.active.chapter = "BrokenSupplyLine" -> SupplyPlaces
    [] s.active.chapter = "CounterSignal" -> CounterPlaces
    [] s.active.chapter = "TheBreach" -> BreachPlaces(s.story)
    [] s.active.chapter = "PrismCore" -> PrismPlaces
    [] OTHER -> {}

Visit(g, m) ==
  /\ Plays(g)
  /\ << gates[g].memory.active.checkpoint, m >> \in Places(gates[g].memory)
  /\ Prove(g, << Row("Objective", Authored(gates[g].memory.story, m)) >>, m, gates[g])

\* visit_campaign_meridian: a station of the expedition; recovery follows the survey.
MilestoneAt(station) ==
  CASE station = "meridian_arrival" -> "MeridianReached"
    [] station = "meridian_gallery" -> "SurveyLinked"
    [] station = "meridian_return" -> "RecoveryDelivered"
    [] OTHER -> "None"

MayWalkTo(g, station) ==
  /\ Plays(g) /\ gates[g].memory.active.chapter = "MeridianReadings"
  /\ Active(gates[g].field, station)
  /\ station = "meridian_log" => gates[g].memory.active.checkpoint >= 2

Walk(g, station) ==
  /\ MayWalkTo(g, station)
  /\ LET row == << Row("Field", station) >>
         s   == [gates[g] EXCEPT !.field = Visited(@, station)]
     IN  IF MilestoneAt(station) = "None" THEN Write(g, row, s)
         ELSE Prove(g, row, MilestoneAt(station), s)

\* The relay door of the first chapter wakes its boss.
Door(g) ==
  /\ Plays(g) /\ gates[g].memory.active.chapter = "ReturnSignal" /\ gates[g].foe = "None"
  /\ Write(g, Spawns("Warden"), [gates[g] EXCEPT !.foe = "Warden"])

\* The Warden of the breach takes no damage while its shield is powered.
Shielded(s) == ~Direct(s.story) /\ s.active.chapter = "TheBreach" /\ s.active.checkpoint = 1

Cleared(foe, chapter) ==
  CASE foe = "Drone" -> "RelayGuardCleared"
    [] foe = "Warden" -> IF chapter = "TheBreach" THEN "BreachGuardCleared" ELSE "ReturnSignalRecovered"
    [] foe = "Sentinel" -> "SupplyGuardCleared"
    [] foe = "Support" -> "CounterSupportCleared"
    [] foe = "Elite" -> "CounterBastionCleared"
    [] foe = "Prism" -> "PrismWardenCleared"

Kill(g) ==
  /\ Plays(g) /\ gates[g].foe # "None" /\ ~Shielded(gates[g].memory)
  /\ LET foe  == gates[g].foe
         m    == Cleared(foe, gates[g].memory.active.chapter)
         told == IF foe \in Encounters THEN << Row("Objective", m) >> ELSE <<>>
     IN  Prove(g, << Row("Died", foe) >> \o told, m, [gates[g] EXCEPT !.foe = "None"])

\* What a milestone brings into the world.
FoeAfter(m) ==
  CASE m = "SupplyRouteReached" -> "Sentinel"
    [] m = "CounterApproachReached" -> "Support"
    [] m = "CounterBastionReached" -> "Elite"
    [] m = "BreachDoorReached" -> "Warden"
    [] m = "PrismChamberReached" -> "Prism"
    [] OTHER -> "None"

\* confirm_campaign: the command of the milestone whose proof was stored.
Awaited(g) == Confirm(gates[g].memory.active.run, gates[g].due)
AwaitedOp(g) == << "checkpoint", gates[g].id, gates[g].proof >>

Save(g) ==
  /\ gates[g].phase = "Playing" /\ gates[g].proof # 0
  /\ LET foe  == FoeAfter(gates[g].due)
         Keep(more) == Commit(g, AwaitedOp(g), gates[g].memory.revision, Awaited(g), gates[g].proof, more)
     IN  \/ /\ Keep(Spawns(foe))
            /\ Becomes(g, [gates[g] EXCEPT !.proof = 0, !.due = "None", !.memory = Saved',
                                           !.foe = IF foe = "None" THEN @ ELSE foe])
         \/ Keep(<<>>) /\ Reset(g)

\* interact_campaign_story: an error leaves the session as it is, and a repeated
\* operation shows it the save as it has become.
Told(g, op, expected, c) ==
  \E i \in Checkpoints :
    /\ journal[i][1] = gates[g].id
    /\ LET row == Data(journal[i])
       IN  row.op = op /\ row.command = c /\ row.before.revision = expected

Interact(g, n, expected, a) ==
  LET c  == Tell(gates[g].memory.active.run, StoryPlace(a), a)
      op == << "story", n >>
  IN  /\ Plays(g)
      /\ Proposes(gates[g].memory, gates[g].memory.revision, c)
      /\ \/ /\ Told(g, op, expected, c)
            /\ Becomes(g, [gates[g] EXCEPT !.memory = Saved])
            /\ UNCHANGED <<origin, logs, journal, ledger, entries>>
         \/ /\ Commit(g, op, expected, c, 0, <<>>)
            /\ Becomes(g, [gates[g] EXCEPT !.memory = Saved']) \/ UNCHANGED gates

\* A new run of a chapter, old ones only as far back as `Recent' says.
Entrances ==
  LET chapters == {ch \in ChapterId : Index(ch) + Recent >= Saved.cleared}
  IN  {Enter(entries + 1, ch, mode) : ch \in chapters, mode \in {"Progress", "Practice"}}

Next ==
  \E g \in Gateways :
    \/ /\ gates[g].phase = "Idle"
       /\ \E command \in Entrances \cup {NoCommand} : Prepare(g, command)
    \/ Join(g) \/ Admit(g) \/ Start(g)
    \/ \E place \in Places(gates[g].memory) : Visit(g, place[2])
    \/ \E station \in Stations : Walk(g, station)
    \/ Door(g) \/ Kill(g) \/ Save(g)
    \/ \E n \in StoryOps, a \in StoryAction, back \in 0 .. 1 :
         Interact(g, n, gates[g].memory.revision - back, a)
    \/ Leave(g)

Spec == Init /\ [][Next]_vars

-----------------------------------------------------------------------------
(* Properties.                                                             *)

\* Every variable keeps its type; the save and every memory of it are valid.
TypeOK ==
  /\ ValidState(Saved) /\ entries \in 0 .. MaxEntries
  /\ ledger \subseteq (1 .. entries) \X ChapterId
  /\ \A g \in Gateways :
       /\ gates[g].phase \in {"Idle", "Prepared", "Joined", "Entered", "Playing"}
       /\ gates[g].id \in 0 .. entries
       /\ gates[g].proof # 0 => gates[g].proof \in DOMAIN Log(g)
       /\ ValidState(gates[g].memory) /\ gates[g].memory.revision <= Saved.revision

\* The journal can always be read back: rows continue one another, every admission
\* names the checkpoint it resumes, no operation or run comes twice, each session
\* replays, and a chapter that ended has completed its mission and was paid or not
\* as its first clear says.  Were it refused once, the character could never enter again.
Paid(i) ==
  LET at   == journal[i]
      Rows(kind) == Cardinality(OfKind(logs[at[1]], 1 .. at[2], {kind}))
      Due  == IF FirstClear(Data(at).before, Data(at).command) THEN 1 ELSE 0
  IN  /\ Rows("Completed") = 1 /\ Rows("Loot") = Due /\ Rows("Progression") = Due
      /\ Cardinality({r \in ledger : r[1] = at[1]}) = Due

JournalLoads ==
  /\ TypeOK
  /\ \A i \in DOMAIN journal :
       LET row == Data(journal[i])
       IN  /\ row.before = SavedBefore(i)
           /\ i \notin Checkpoints => row.proof = Max({j \in Checkpoints : j < i})
           /\ \/ \E j \in i + 1 .. Len(journal) : journal[j][1] = journal[i][1]
              \/ Reconstructs(SubSeq(logs[journal[i][1]], 1, journal[i][2]))
           /\ row.before.active # NoRun /\ row.after.active = NoRun => Paid(i)
  /\ \A i, j \in Checkpoints : i < j =>
       /\ Data(journal[i]).op # Data(journal[j]).op
       /\ LET old == Data(journal[i]).command
              new == Data(journal[j]).command
          IN  new.kind = "Enter" => old.run # new.run

\* The first clear of a chapter is rewarded once in the life of the character, whichever
\* gateways play it, however often it is resumed, repeated or practised.
RewardedOncePerChapter ==
  \A ch \in ChapterId :
    Cardinality({r \in ledger : r[2] = ch}) =
      IF Index(ch) \in origin.cleared .. Saved.cleared - 1 THEN 1 ELSE 0

\* Everything that was saved follows from what was saved and proved before it.
JournalIsSound == JournalLoads /\ RewardedOncePerChapter

\* A player who plays the save as it is, is never refused: what the gateway makes of the
\* world proves the next milestone to the replay, after any resume, choice or retry.
\* (A session that a repeated story operation has moved on is excluded: its own rows
\* do not lead to the save it shows.)
HonestStepsAreSaved ==
  \A g \in Gateways :
    /\ gates[g].proof # 0 /\ gates[g].memory = Saved /\ Saved.revision < MaxRevision
         /\ Admitted(Log(g), gates[g].proof) = Saved
       => Accepts(g, AwaitedOp(g), Saved.revision, Awaited(g), gates[g].proof)
    /\ gates[g].phase = "Joined" /\ gates[g].revision = Saved.revision
       => IF gates[g].entry = NoCommand THEN MayResume(g)
          ELSE Accepts(g, EntryOp(g), Saved.revision, gates[g].entry, 0)

Arc(progress) == CASE progress = "Unseen" -> 0 [] progress = "Found" -> 1 [] progress = "Returned" -> 2
Behind(s) == SubSeq(Order(s.story, s.active.chapter), 1, s.active.checkpoint)

\* Cleared chapters and discoveries stay, a run only moves on, and no choice changes
\* which milestones an open run has behind it.
ProgressIsKept ==
  [][journal' # journal /\ Saved' # Saved =>
       /\ Saved'.revision = Saved.revision + 1
       /\ Saved'.cleared \in Saved.cleared .. Saved.cleared + 1
       /\ Arc(Saved'.story.seat) >= Arc(Saved.story.seat)
       /\ Arc(Saved'.story.held) >= Arc(Saved.story.held)
       /\ Saved.active # NoRun /\ Saved'.active # NoRun =>
            /\ Saved'.active.run = Saved.active.run
            /\ Saved'.active.checkpoint >= Saved.active.checkpoint
            /\ SubSeq(Behind(Saved'), 1, Saved.active.checkpoint) = Behind(Saved)]_vars
=============================================================================
