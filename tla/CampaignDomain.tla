--------------------------- MODULE CampaignDomain ---------------------------
(***************************************************************************)
(* The pure rules of the campaign (src/runtime/campaign): six chapters     *)
(* played in order, each a sequence of milestones, the one run a save may  *)
(* have open, and the story choices that are made on the way.              *)
(***************************************************************************)
EXTENDS Naturals, Sequences, FiniteSets

CONSTANTS MaxRevision   \* the highest revision the database can hold

ASSUME MaxRevisionAssumption == MaxRevision \in Nat

Chapters == << "ReturnSignal", "MeridianReadings", "BrokenSupplyLine",
               "CounterSignal", "TheBreach", "PrismCore" >>
ChapterId == {Chapters[i] : i \in DOMAIN Chapters}

\* How many chapters come before ch.
Index(ch) == (CHOOSE i \in DOMAIN Chapters : Chapters[i] = ch) - 1

Milestones == [ch \in ChapterId |->
  CASE ch = "ReturnSignal"     -> << "RelayGuardCleared", "ReturnSignalRecovered" >>
    [] ch = "MeridianReadings" -> << "MeridianReached", "SurveyLinked", "RecoveryDelivered" >>
    [] ch = "BrokenSupplyLine" -> << "SupplyRouteReached", "SupplyGuardCleared",
                                     "SupplyCellRecovered", "SupplyDelivered" >>
    [] ch = "CounterSignal"    -> << "CounterApproachReached", "CounterSupportCleared",
                                     "CounterSignalDecoded", "CounterBastionReached",
                                     "CounterBastionCleared", "CounterSignalIsolated" >>
    [] ch = "TheBreach"        -> << "BreachDoorReached", "BreachCircuitStabilized",
                                     "BreachGuardCleared", "BreachCoreReached" >>
    [] ch = "PrismCore"        -> << "PrismChamberReached", "PrismWardenCleared",
                                     "PrismSourceStopped", "PrismReturnCompleted" >>]

\* Who takes the core directly fights the Warden before draining the circuit.
DirectBreach == << "BreachDoorReached", "BreachGuardCleared",
                   "BreachCircuitStabilized", "BreachCoreReached" >>

-----------------------------------------------------------------------------
(* The state of a save.                                                    *)

NoRun == [run |-> 0, chapter |-> "None", mode |-> "None", checkpoint |-> 0]
NewStory == [supply |-> "None", core |-> "None", seat |-> "Unseen", held |-> "Unseen"]
Story == [supply : {"None", "Covered", "Service"}, core : {"None", "Grounded", "Direct"},
          seat : {"Unseen", "Found", "Returned"}, held : {"Unseen", "Found", "Returned"}]

Direct(story) == story.core = "Direct"
Service(story) == story.supply = "Service"

\* The milestones of a chapter, in the order this save has to reach them.
Order(story, ch) == IF ch = "TheBreach" /\ Direct(story) THEN DirectBreach ELSE Milestones[ch]

\* The milestone the open run waits for.
NextMilestone(s) == Order(s.story, s.active.chapter)[s.active.checkpoint + 1]

ValidState(s) ==
  /\ s.revision <= MaxRevision
  /\ s.cleared <= Len(Chapters)
  /\ s.cleared > 0 => s.revision > 0
  /\ s.active # NoRun =>
       /\ s.active.checkpoint < Len(Milestones[s.active.chapter])
       /\ s.revision > 0
       /\ IF s.active.mode = "Progress" THEN Index(s.active.chapter) = s.cleared
                                        ELSE Index(s.active.chapter) < s.cleared

-----------------------------------------------------------------------------
(* The story: discoveries and choices, each at its place and checkpoint.   *)

Discover(d) == [kind |-> "Discover", what |-> d]
Choose(w) == [kind |-> "Choose", what |-> w]
StoryAction == {Discover(d) : d \in {"SeatMemory", "SeatReturned", "HeldNote", "HeldReturned"}}
                 \cup {Choose(w) : w \in {"Covered", "Service", "Grounded", "Direct"}}

ChooseInBreach_(a) ==
  CASE a.what = "SeatMemory"   -> << "MeridianReadings", {1, 2}, "Memory" >>
    [] a.what = "SeatReturned" -> << "MeridianReadings", {1, 2}, "DepartureBoard" >>
    [] a.what = "HeldNote"     -> << "BrokenSupplyLine", {2, 3}, "MaintenanceNote" >>
    [] a.what = "HeldReturned" -> << "BrokenSupplyLine", {2, 3}, "MaintenanceBench" >>
    [] a.what \in {"Covered", "Service"} -> << "MeridianReadings", {2}, "DepartureBoard" >>
    [] a.what \in {"Grounded", "Direct"} -> << "TheBreach", {2}, "CoreDecision" >>

\* Where a story action is allowed: chapter, checkpoints and place.
StoryContext(a) ==
  CASE a.what = "SeatMemory"   -> << "MeridianReadings", {1, 2}, "Memory" >>
    [] a.what = "SeatReturned" -> << "MeridianReadings", {1, 2}, "DepartureBoard" >>
    [] a.what = "HeldNote"     -> << "BrokenSupplyLine", {2, 3}, "MaintenanceNote" >>
    [] a.what = "HeldReturned" -> << "BrokenSupplyLine", {2, 3}, "MaintenanceBench" >>
    [] a.what \in {"Covered", "Service"} -> << "MeridianReadings", {2}, "DepartureBoard" >>
    [] a.what \in {"Grounded", "Direct"} -> << "CounterSignal", {5}, "CoreDecision" >>
StoryPlace(a) == StoryContext(a)[3]

\* A record is found before it is returned, and is never unfound.
Found(arc) == IF arc = "Unseen" THEN "Found" ELSE arc

StoryAfter(story, a) ==
  CASE a.what \in {"Covered", "Service"} -> [story EXCEPT !.supply = a.what]
    [] a.what \in {"Grounded", "Direct"} -> [story EXCEPT !.core = a.what]
    [] a.what = "SeatMemory"   -> [story EXCEPT !.seat = Found(@)]
    [] a.what = "HeldNote"     -> [story EXCEPT !.held = Found(@)]
    [] a.what = "SeatReturned" -> [story EXCEPT !.seat = "Returned"]
    [] a.what = "HeldReturned" -> [story EXCEPT !.held = "Returned"]

StoryMay(s, a, place) ==
  /\ s.active.chapter = StoryContext(a)[1]
  /\ s.active.checkpoint \in StoryContext(a)[2]
  /\ place = StoryContext(a)[3]
  /\ a.what = "SeatReturned" => s.story.seat # "Unseen"
  /\ a.what = "HeldReturned" => s.story.held # "Unseen"

-----------------------------------------------------------------------------
(* Commands, and the state each proposes.                                  *)

Enter(run, ch, mode) == [kind |-> "Enter", run |-> run, chapter |-> ch, mode |-> mode]
Confirm(run, m) == [kind |-> "Confirm", run |-> run, milestone |-> m]
Tell(run, place, a) == [kind |-> "Story", run |-> run, place |-> place, action |-> a]

MayEnter(s, c) ==
  /\ s.active = NoRun
  /\ IF c.mode = "Progress" THEN Index(c.chapter) = s.cleared
                            ELSE Index(c.chapter) < s.cleared

OwnRun(s, c) == s.active # NoRun /\ s.active.run = c.run

May(s, c) ==
  CASE c.kind = "Enter"   -> MayEnter(s, c)
    [] c.kind = "Confirm" -> OwnRun(s, c) /\ NextMilestone(s) = c.milestone
    [] c.kind = "Story"   -> OwnRun(s, c) /\ StoryMay(s, c.action, c.place)

\* Whether confirming the next milestone ends the open run.
Ends(s) == s.active.checkpoint + 1 = Len(Milestones[s.active.chapter])
FirstClear(s, c) == c.kind = "Confirm" /\ Ends(s) /\ s.active.mode = "Progress"

Reach(s) ==
  IF ~Ends(s) THEN [s EXCEPT !.active.checkpoint = @ + 1]
  ELSE [s EXCEPT !.active = NoRun,
                 !.cleared = IF s.active.mode = "Progress" THEN @ + 1 ELSE @]

\* The state after an accepted command; every one takes a revision.
After(s, c) ==
  [CASE c.kind = "Enter"   -> [s EXCEPT !.active = [run |-> c.run, chapter |-> c.chapter,
                                                    mode |-> c.mode, checkpoint |-> 0]]
     [] c.kind = "Confirm" -> Reach(s)
     [] c.kind = "Story"   -> [s EXCEPT !.story = StoryAfter(@, c.action)]
   EXCEPT !.revision = s.revision + 1]

Proposes(s, expected, c) ==
  /\ ValidState(s)
  /\ expected = s.revision
  /\ s.revision + 1 <= MaxRevision
  /\ May(s, c)
  /\ ValidState(After(s, c))

\* The chapter a command is about.
ChapterOf(s, c) == IF c.kind = "Enter" THEN c.chapter ELSE s.active.chapter

\* What is recorded for reaching a milestone's place: the same for everyone
\* but for the way to the supply route that was chosen.
Authored(story, m) ==
  IF m = "SupplyRouteReached" /\ Service(story) THEN "ServiceRoute" ELSE m
=============================================================================
