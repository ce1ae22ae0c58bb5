-------------------------- MODULE ChallengeSaveProofs --------------------------
(***************************************************************************)
(* Theorems of `ChallengeSave', for any number of gateways, sessions and   *)
(* revisions, any operations, offers and builds: the journal is always     *)
(* read back, a run has one owner who plays the save as it is, no record   *)
(* is lost, and a character is never stuck.                                *)
(***************************************************************************)
EXTENDS ChallengeSave, FiniteSetTheorems, SequenceTheorems, WellFoundedInduction, TLAPS

-----------------------------------------------------------------------------
(* The inductive invariant *)

Opened == 1 .. sessions

\* The rows are those of a journal, and of sessions that have been opened.
JournalInv ==
    /\ Written(journal) /\ readable
    /\ \A i \in DOMAIN journal :
          journal[i].session \in 1 .. MaxSessions => journal[i].session \in Opened

\* The board of the client is a save of the past.
BoardInv == board \in Saves /\ ValidSave(board)

\* The row of a session that no other of it follows.
LastOwn(session, i) ==
    i \in OwnRows(journal, session) /\ \A k \in OwnRows(journal, session) : k <= i

\* A session plays the save as it is and wrote it, or its run is over.
Current(gate) ==
    \/ gate.memory = Saved /\ journal # <<>> /\ journal[Len(journal)].session = gate.session
    \/ Saved.active = None
    \/ Saved.active.id > gate.memory.active.id

\* The session has ended the run it was admitted to.
Over(session) == \E i \in OwnRows(journal, session) : journal[i].after.active = None

\* The run that a session has in memory is its own, or it was told of another's after its end.
Held(gate) ==
    gate.memory.active # None =>
        IF gate.memory.active.id \in OwnRows(journal, gate.session)
        THEN Current(gate) ELSE Over(gate.session)

\* A transaction in hand has read the whole journal, which nobody changes before it ends; the
\* session itself never names a revision at which it has a row.
TxInv(gate) ==
    LET tx == gate.tx
    IN  /\ tx \in Transactions /\ tx.read = Len(journal)
        /\ tx.why = "Entry" => gate.phase = "Prepared"
        /\ tx.why # "Entry" => gate.phase = "Playing" /\ ~Admits(tx.command)
        /\ tx.why \in {"World", "Disconnect"} => tx.expected = gate.memory.revision
        /\ tx.why = "Abandon" => tx.command.kind = "End"

\* A gate has these fields.
IsGate(gate) ==
    gate \in [session : 0 .. sessions, phase : {"Idle", "Prepared", "Playing"}, memory : Saves,
              entry : {gate.entry}, tx : {gate.tx}]

\* A prepared session has no row yet, and one that plays has none newer than its memory.
GateInv(g) ==
    LET gate == gates[g]
    IN  /\ IsGate(gate) /\ ValidSave(gate.memory) /\ gate.memory.revision <= Len(journal)
        /\ (lock = g) = (gate.tx # None)
        /\ gate.tx # None => TxInv(gate)
        /\ gate.phase # "Idle" => gate.session \in Opened
        /\ gate.phase = "Idle" => gate.tx = None
        /\ gate.phase = "Prepared" =>
              /\ OwnRows(journal, gate.session) = {}
              /\ gate.entry.command \in Commands /\ gate.entry.op \in OperationNames
              /\ gate.entry.expected \in Nat
        /\ gate.phase = "Playing" =>
              /\ \E i \in DOMAIN journal : LastOwn(gate.session, i) /\ i <= gate.memory.revision
              /\ Held(gate)

\* The inductive invariant.
SaveInv ==
    /\ JournalInv /\ BoardInv
    /\ lock \in Gateways \cup {None} /\ sessions \in 0 .. MaxSessions
    /\ gates \in [Gateways -> {gates[g] : g \in Gateways}]
    /\ \A g \in Gateways : GateInv(g)
    /\ \A g, h \in Gateways :
          g # h /\ gates[g].phase # "Idle" /\ gates[h].phase # "Idle"
              => gates[g].session # gates[h].session

-----------------------------------------------------------------------------
(* Commands *)

\* The fields of a command of each kind.
LEMMA CommandFields ==
    ASSUME NEW c \in Commands
    PROVE  /\ c.kind \in {"Start", "StartModified", "Retry", "Confirm", "End"}
           /\ c.kind \in {"Start", "StartModified"} =>
                  c.contract \in Contracts /\ c.preset \in Presets /\ c.equipment \in Builds
           /\ c.kind = "Retry" => c.run \in Nat /\ c.equipment \in Builds
           /\ c.kind = "Confirm" => /\ c.run \in Nat /\ c.objective \in AllObjectives
                                    /\ c.elapsed \in Times \cup {None}
           /\ c.kind = "End" => /\ c.run \in Nat
                                /\ c.reason \in {"Interrupted", "Defeated", "Abandoned"}
  BY DEF Commands

\* What the domain asks for and does, kind by kind.
LEMMA CommandOfKind ==
    ASSUME NEW policy, NEW s, NEW c, MayApply(policy, s, c)
    PROVE  LET next == [s EXCEPT !.revision = @ + 1]
           IN  /\ c.kind \in {"Start", "StartModified"} =>
                      /\ s.active = None
                      /\ After(s, c) = NewRun(next, Rules(c.contract, c.preset), c.equipment)
               /\ c.kind = "Retry" => Latest(s) # None /\ After(s, c) = RetryRun(next, c)
               /\ c.kind = "Confirm" => MayConfirm(s, c) /\ After(s, c) = ConfirmRun(next, c)
               /\ c.kind = "End" => s.active # None /\ After(s, c) = EndRun(next, c.reason)
<1>1. CASE c.kind \in {"Start", "StartModified"}
  <2>1. s.active = None
    BY <1>1, Zenon DEF MayApply
  <2>2. After(s, c) = NewRun([s EXCEPT !.revision = @ + 1], Rules(c.contract, c.preset), c.equipment)
    BY <1>1 DEF After
  <2> QED
    BY <1>1, <2>1, <2>2
<1>2. CASE c.kind = "Retry"
  <2>1. Latest(s) # None
    BY <1>2, Zenon DEF MayApply
  <2> QED
    BY <1>2, <2>1 DEF After
<1>3. CASE c.kind = "Confirm"
  <2>1. MayConfirm(s, c)
    BY <1>3, Zenon DEF MayApply
  <2> QED
    BY <1>3, <2>1 DEF After
<1>4. CASE c.kind = "End"
  <2>1. s.active # None
    BY <1>4, Zenon DEF MayApply
  <2> QED
    BY <1>4, <2>1 DEF After
<1> QED
  BY <1>1, <1>2, <1>3, <1>4

\* A record of the new save is at least as good as one of the old.
Improves(s, n) ==
    \A r \in s.records : \E q \in n.records :
        q.rules = r.rules /\ (q = r \/ (r.elapsed # None /\ q.elapsed < r.elapsed))

\* What a command does to a save.
Stepped(s, c, n) ==
    /\ n \in Saves /\ n.revision = s.revision + 1
    /\ Admits(c) => n.active # None /\ n.active.id = n.revision
    /\ ~Admits(c) => /\ s.active # None
                     /\ n.active # None => n.active.id = s.active.id
    /\ c.kind = "End" => n.active = None
    /\ n.active = None => n.last # None /\ n.last.run.id = s.active.id
    /\ Improves(s, n)
    /\ \A rules \in AllRules : Recorded(s, rules) => Recorded(n, rules)
    /\ FirstCompletion(s, c) # None =>
           ~Recorded(s, FirstCompletion(s, c)) /\ Recorded(n, FirstCompletion(s, c))

\* The next revision changes nothing else of a save.
LEMMA SaveFields ==
    ASSUME NEW s \in Saves
    PROVE  LET next == [s EXCEPT !.revision = @ + 1]
           IN  /\ next \in Saves /\ next.revision = s.revision + 1 /\ next.active = s.active
               /\ next.last = s.last /\ next.records = s.records
  BY DEF Saves

\* A new run is named by the revision of its save.
LEMMA RunIsNew ==
    ASSUME NEW s \in Saves, NEW rules \in AllRules, NEW equipment \in Builds
    PROVE  LET n == NewRun(s, rules, equipment)
           IN  /\ n \in Saves /\ n.revision = s.revision /\ n.records = s.records
               /\ n.active \in Runs /\ n.active.id = s.revision
<1> DEFINE run == [id |-> s.revision, rules |-> rules, equipment |-> equipment,
                   done |-> {}, elapsed |-> None]
<1>1. run \in Runs /\ run.id = s.revision
  BY DEF Runs, Saves
<1> HIDE DEF run
<1>2. NewRun(s, rules, equipment) = [s EXCEPT !.active = run]
  BY DEF NewRun, run
<1> QED
  BY <1>1, <1>2 DEF Saves

\* A run that ends leaves the records alone and no run active.
LEMMA RunEnds ==
    ASSUME NEW s \in Saves, s.active \in Runs,
           NEW outcome \in {"Completed", "Interrupted", "Defeated", "Abandoned"}
    PROVE  LET n == EndRun(s, outcome)
           IN  /\ n \in Saves /\ n.revision = s.revision /\ n.records = s.records
               /\ n.active = None /\ n.last # None /\ n.last.run = s.active
<1> DEFINE result == [run |-> s.active, outcome |-> outcome]
<1>1. result \in Results /\ result # None /\ result.run = s.active
  BY NoneAssumption DEF Results
<1> HIDE DEF result
<1>2. EndRun(s, outcome) = [[s EXCEPT !.active = None] EXCEPT !.last = result]
  BY DEF EndRun, result
<1> QED
  BY <1>1, <1>2 DEF Saves

\* A record is added, or a slower one of the same rules replaced.
LEMMA RecordImproves ==
    ASSUME NEW s \in Saves, NEW run \in Runs,
           \A r \in s.records : r.rules = run.rules /\ run.elapsed # None => r.elapsed # None
    PROVE  LET n == Record(s, run)
           IN  /\ n \in Saves /\ n.revision = s.revision /\ n.active = s.active
               /\ Improves(s, n) /\ Recorded(n, run.rules)
               /\ \A rules \in AllRules : Recorded(s, rules) => Recorded(n, rules)
<1> DEFINE faster == {r \in s.records : r.rules = run.rules /\ run.elapsed # None
                                           /\ run.elapsed < r.elapsed}
           n      == Record(s, run)
<1>1. CASE Recorded(s, run.rules) /\ faster = {}
  <2>1. n = s
    BY <1>1 DEF Record
  <2> HIDE DEF n
  <2> QED
    BY <1>1, <2>1 DEF Improves, n
<1>2. CASE ~(Recorded(s, run.rules) /\ faster = {})
  <2> DEFINE records == (s.records \ faster) \cup {run}
  <2>1. n = [s EXCEPT !.records = records]
    BY <1>2 DEF Record
  <2>2. records \in SUBSET Runs
    BY DEF Saves
  <2>3. /\ \A r \in s.records : r \in records \/ r \in faster
        /\ run \in records
    OBVIOUS
  <2>4. \A r \in faster : r.rules = run.rules /\ r.elapsed # None /\ run.elapsed < r.elapsed
    OBVIOUS
  <2> HIDE DEF records, faster, n
  <2>5. /\ n \in Saves /\ n.revision = s.revision /\ n.active = s.active /\ n.records = records
    BY <2>1, <2>2 DEF Saves
  <2>6. Improves(s, n)
    BY <2>3, <2>4, <2>5 DEF Improves
  <2>7. Recorded(n, run.rules)
    BY <2>3, <2>5 DEF Recorded
  <2>8. \A rules \in AllRules : Recorded(s, rules) => Recorded(n, rules)
    BY <2>3, <2>4, <2>5 DEF Recorded
  <2> QED
    BY <2>5, <2>6, <2>7, <2>8 DEF n
<1> QED
  BY <1>1, <1>2

\* A start admits a run where none is active.
LEMMA StartSteps ==
    ASSUME NEW policy, NEW s \in Saves, NEW c \in Commands, MayApply(policy, s, c),
           c.kind \in {"Start", "StartModified"}
    PROVE  Stepped(s, c, After(s, c))
<1> DEFINE next  == [s EXCEPT !.revision = @ + 1]
           rules == Rules(c.contract, c.preset)
           n     == NewRun(next, rules, c.equipment)
<1>1. After(s, c) = n
  BY CommandOfKind
<1>2. rules \in AllRules /\ c.equipment \in Builds
  BY CommandFields DEF Rules, AllRules
<1>3. next \in Saves /\ next.revision = s.revision + 1 /\ next.records = s.records
  BY SaveFields
<1> HIDE DEF next, rules
<1>4. /\ n \in Saves /\ n.revision = next.revision /\ n.records = next.records
      /\ n.active \in Runs /\ n.active.id = next.revision
  BY <1>2, <1>3, RunIsNew
<1>5. n.active # None /\ Admits(c) /\ FirstCompletion(s, c) = None
  BY <1>4, NoneAssumption DEF Admits, FirstCompletion
<1> HIDE DEF n
<1> QED
  BY <1>1, <1>3, <1>4, <1>5 DEF Stepped, Improves, Recorded

\* What a retry repeats.
LEMMA LatestIsRun == ASSUME NEW s \in Saves, Latest(s) # None PROVE Latest(s) \in Runs
  BY DEF Latest, Saves, Results

\* A retry admits a run with the rules of the latest, whether or not that was over.
LEMMA RetrySteps ==
    ASSUME NEW policy, NEW s \in Saves, NEW c \in Commands, MayApply(policy, s, c), c.kind = "Retry"
    PROVE  Stepped(s, c, After(s, c))
<1> DEFINE next  == [s EXCEPT !.revision = @ + 1]
           ended == IF next.active = None THEN next ELSE EndRun(next, "Interrupted")
           rules == Latest(next).rules
           n     == NewRun(ended, rules, c.equipment)
<1>1. After(s, c) = n /\ Latest(s) # None
  BY CommandOfKind DEF RetryRun
<1>2. /\ next \in Saves /\ next.revision = s.revision + 1 /\ next.records = s.records
      /\ next.active = s.active /\ next.last = s.last
  BY SaveFields
<1>3. c.equipment \in Builds
  BY CommandFields
<1> HIDE DEF next
<1>4. rules \in AllRules
  <2>1. Latest(next) # None
    BY <1>1, <1>2 DEF Latest
  <2> QED
    BY <1>2, <2>1, LatestIsRun DEF Runs
<1>5. /\ ended \in Saves /\ ended.revision = next.revision /\ ended.records = next.records
  <2>1. CASE next.active = None
    BY <1>2, <2>1
  <2>2. CASE next.active # None
    <3>1. next.active \in Runs
      BY <1>2, <2>2 DEF Saves
    <3> QED
      BY <1>2, <2>2, <3>1, RunEnds
  <2> QED
    BY <2>1, <2>2
<1> HIDE DEF ended, rules
<1>6. /\ n \in Saves /\ n.revision = ended.revision /\ n.records = ended.records
      /\ n.active \in Runs /\ n.active.id = ended.revision
  BY <1>3, <1>4, <1>5, RunIsNew
<1>7. n.active # None /\ Admits(c) /\ FirstCompletion(s, c) = None
  BY <1>6, NoneAssumption DEF Admits, FirstCompletion
<1> HIDE DEF n
<1> QED
  BY <1>1, <1>2, <1>5, <1>6, <1>7 DEF Stepped, Improves, Recorded

\* An end keeps the records.
LEMMA EndSteps ==
    ASSUME NEW policy, NEW s \in Saves, NEW c \in Commands, MayApply(policy, s, c), c.kind = "End"
    PROVE  Stepped(s, c, After(s, c))
<1> DEFINE next == [s EXCEPT !.revision = @ + 1]
           n    == EndRun(next, c.reason)
<1>1. After(s, c) = n /\ s.active # None
  BY CommandOfKind
<1>2. /\ next \in Saves /\ next.revision = s.revision + 1 /\ next.records = s.records
      /\ next.active = s.active
  BY SaveFields
<1>3. c.reason \in {"Completed", "Interrupted", "Defeated", "Abandoned"} /\ s.active \in Runs
  BY <1>1, CommandFields DEF Saves
<1> HIDE DEF next
<1>4. /\ n \in Saves /\ n.revision = next.revision /\ n.records = next.records /\ n.active = None
      /\ n.last # None /\ n.last.run = s.active
  BY <1>2, <1>3, RunEnds
<1>5. ~Admits(c) /\ FirstCompletion(s, c) = None
  BY DEF Admits, FirstCompletion
<1> HIDE DEF n
<1> QED
  BY <1>1, <1>2, <1>4, <1>5 DEF Stepped, Improves, Recorded

\* A confirmation goes on with the run, or completes it and records it, where a timed run of
\* a valid save always meets a timed record.
LEMMA ConfirmSteps ==
    ASSUME NEW policy, NEW s \in Saves, ValidSave(s), NEW c \in Commands, MayApply(policy, s, c),
           c.kind = "Confirm"
    PROVE  Stepped(s, c, After(s, c))
<1> DEFINE next == [s EXCEPT !.revision = @ + 1]
           run  == [s.active EXCEPT !.done = @ \cup {c.objective}, !.elapsed = c.elapsed]
           kept == Record(next, run)
           both == [kept EXCEPT !.active = run]
           n    == After(s, c)
<1>1. n = ConfirmRun(next, c) /\ MayConfirm(s, c)
  BY CommandOfKind
<1>2. /\ next \in Saves /\ next.revision = s.revision + 1 /\ next.records = s.records
      /\ next.active = s.active
  BY SaveFields
<1>3. s.active \in Runs /\ s.active # None
  BY <1>1 DEF MayConfirm, Saves
<1>4. run \in Runs /\ run.id = s.active.id /\ run.rules = s.active.rules /\ run.elapsed = c.elapsed
  <2> DEFINE first == [s.active EXCEPT !.done = @ \cup {c.objective}]
  <2>1. c.objective \in AllObjectives /\ c.elapsed \in Times \cup {None}
    BY CommandFields
  <2>2. first \in Runs /\ first.id = s.active.id /\ first.rules = s.active.rules
    BY <1>3, <2>1 DEF Runs
  <2>3. run = [first EXCEPT !.elapsed = c.elapsed]
    OBVIOUS
  <2> HIDE DEF first, run
  <2> QED
    BY <2>1, <2>2, <2>3 DEF Runs
<1>5. ~Admits(c) /\ c.kind # "End"
  BY DEF Admits
<1>6. CASE ~Completes(s.active, c.objective)
  <2>1. n = [next EXCEPT !.active = run]
    BY <1>1, <1>2, <1>6 DEF ConfirmRun
  <2>2. FirstCompletion(s, c) = None
    BY <1>6 DEF FirstCompletion
  <2> HIDE DEF next, run, n
  <2>3. n \in Saves /\ n.revision = next.revision /\ n.active = run /\ n.records = next.records
    BY <1>2, <1>4, <2>1 DEF Saves
  <2>4. Stepped(s, c, n)
    BY <1>2, <1>3, <1>4, <1>5, <2>2, <2>3, NoneAssumption DEF Stepped, Improves, Recorded
  <2> QED
    BY <2>4 DEF n
<1>7. CASE Completes(s.active, c.objective)
  <2>1. n = EndRun(both, "Completed")
    BY <1>1, <1>2, <1>7 DEF ConfirmRun
  <2>2. \A r \in next.records : r.rules = run.rules /\ run.elapsed # None => r.elapsed # None
    <3>1. ASSUME NEW r \in s.records PROVE r.elapsed # None <=> Timed(r.rules)
      <4>1. ValidRun(r, s.revision, TRUE)
        BY DEF ValidSave
      <4>2. (r.elapsed # None) = (TRUE /\ Timed(r.rules))
        BY <4>1, Zenon DEF ValidRun
      <4> QED
        BY <4>2 DEF Timed, Has
    <3>2. c.elapsed # None <=> Timed(s.active.rules)
      <4>1. (c.elapsed # None) = (Completes(s.active, c.objective) /\ Timed(s.active.rules))
        BY <1>1, Zenon DEF MayConfirm
      <4> QED
        BY <1>7, <4>1 DEF Timed, Has, Completes
    <3> HIDE DEF next, run
    <3> QED
      BY <1>2, <1>4, <3>1, <3>2
  <2> HIDE DEF next, run
  <2>3. /\ kept \in Saves /\ kept.revision = next.revision
        /\ Improves(next, kept) /\ Recorded(kept, run.rules)
        /\ \A rules \in AllRules : Recorded(next, rules) => Recorded(kept, rules)
    BY <1>2, <1>4, <2>2, RecordImproves
  <2> HIDE DEF kept
  <2>4. /\ both \in Saves /\ both.revision = kept.revision /\ both.records = kept.records
        /\ both.active = run
    BY <1>4, <2>3 DEF Saves
  <2> HIDE DEF both, n
  <2>5. /\ n \in Saves /\ n.revision = both.revision /\ n.records = both.records
        /\ n.active = None /\ n.last # None /\ n.last.run = run
    BY <1>4, <2>1, <2>4, RunEnds
  <2>6. FirstCompletion(s, c) # None =>
            FirstCompletion(s, c) = s.active.rules /\ ~Recorded(s, s.active.rules)
    BY <1>7 DEF FirstCompletion
  <2>7. Improves(s, n)
    BY <1>2, <2>3, <2>4, <2>5 DEF Improves
  <2>8. \A rules : Recorded(n, rules) <=> Recorded(kept, rules)
    BY <2>4, <2>5 DEF Recorded
  <2>9. \A rules : Recorded(s, rules) <=> Recorded(next, rules)
    BY <1>2 DEF Recorded
  <2>10. Stepped(s, c, n)
    BY <1>2, <1>3, <1>4, <1>5, <2>3, <2>4, <2>5, <2>6, <2>7, <2>8, <2>9 DEF Stepped
  <2> QED
    BY <2>10 DEF n
<1> QED
  BY <1>6, <1>7

\* Every command does to a valid save what `Stepped' says.
LEMMA CommandSteps ==
    ASSUME NEW policy, NEW s \in Saves, ValidSave(s), NEW c \in Commands, MayApply(policy, s, c)
    PROVE  Stepped(s, c, After(s, c))
<1>1. c.kind \in {"Start", "StartModified", "Retry", "Confirm", "End"}
  BY CommandFields
<1> QED
  BY <1>1, StartSteps, RetrySteps, ConfirmSteps, EndSteps

-----------------------------------------------------------------------------
(* The journal *)

\* The character before the first row.
LEMMA EmptyIsValid == EmptySave \in Saves /\ ValidSave(EmptySave) /\ EmptySave.revision = 0
                      /\ EmptySave.active = None
<1>1. Cardinality({}) = 0
  BY FS_EmptySet
<1>2. MaxRevision \in Nat
  BY MaxRevisionAssumption
<1> QED
  BY <1>1, <1>2 DEF EmptySave, Saves, ValidSave

\* The save is that of the last row.
LEMMA SavedIsLast ==
    ASSUME NEW rows, Written(rows)
    PROVE  /\ Len(rows) \in Nat /\ DOMAIN rows = 1 .. Len(rows)
           /\ LastOf(rows) \in Saves /\ ValidSave(LastOf(rows))
           /\ LastOf(rows).revision = Len(rows)
           /\ rows # <<>> => Len(rows) \in DOMAIN rows /\ LastOf(rows) = rows[Len(rows)].after
           /\ rows = <<>> => Len(rows) = 0 /\ LastOf(rows) = EmptySave
<1>1. rows \in Seq({rows[i] : i \in DOMAIN rows})
  BY DEF Written
<1>2. Len(rows) \in Nat /\ DOMAIN rows = 1 .. Len(rows)
  BY <1>1, LenProperties
<1>3. CASE rows = <<>>
  BY <1>2, <1>3, EmptyIsValid, EmptySeq DEF LastOf
<1>4. CASE rows # <<>>
  <2>1. Len(rows) \in DOMAIN rows
    BY <1>1, <1>2, <1>4, EmptySeq
  <2>2. LastOf(rows) = rows[Len(rows)].after
    BY <1>4 DEF LastOf
  <2>3. /\ rows[Len(rows)].after \in Saves /\ rows[Len(rows)].after.revision = Len(rows)
        /\ Transition(rows[Len(rows)])
    BY <2>1 DEF Written
  <2>4. ValidSave(rows[Len(rows)].after)
    BY <2>3 DEF Transition, Accepts
  <2> QED
    BY <1>2, <1>4, <2>1, <2>2, <2>3, <2>4
<1> QED
  BY <1>3, <1>4

\* One more row.
Grown(rows, row, new) ==
    /\ Len(rows) \in Nat /\ DOMAIN rows = 1 .. Len(rows)
    /\ DOMAIN new = 1 .. Len(rows) + 1 /\ Len(new) = Len(rows) + 1
    /\ \A i \in DOMAIN rows : new[i] = rows[i]
    /\ new[Len(rows) + 1] = row
    /\ new \in Seq({new[i] : i \in DOMAIN new})
    /\ LastOf(new) = row.after

\* What appending does to the rows.
LEMMA RowAppended ==
    ASSUME NEW rows, rows \in Seq({rows[i] : i \in DOMAIN rows}), NEW row
    PROVE  Grown(rows, row, Append(rows, row))
<1> DEFINE S   == {rows[i] : i \in DOMAIN rows} \cup {row}
           new == Append(rows, row)
<1>1. rows \in Seq(S)
  BY SeqMonotonic
<1>2. /\ new \in Seq(S) /\ new # <<>> /\ Len(new) = Len(rows) + 1
      /\ \A i \in 1 .. Len(rows) : new[i] = rows[i]
      /\ new[Len(rows) + 1] = row
  BY <1>1, AppendProperties
<1>3. Len(rows) \in Nat /\ DOMAIN rows = 1 .. Len(rows) /\ DOMAIN new = 1 .. Len(rows) + 1
  BY <1>1, <1>2, LenProperties
<1>4. LastOf(new) = row.after
  BY <1>2 DEF LastOf
<1> HIDE DEF new
<1>5. new \in Seq({new[i] : i \in DOMAIN new})
  BY <1>2, <1>3, IsASeq
<1> QED
  BY <1>2, <1>3, <1>4, <1>5 DEF Grown, new

\* What is known of each row of a journal.
RowOf(rows, i) ==
    /\ rows[i].session \in Nat /\ rows[i].command \in Commands
    /\ rows[i].before \in Saves /\ rows[i].after \in Saves /\ Transition(rows[i])
    /\ rows[i].before = (IF i = 1 THEN EmptySave ELSE rows[i - 1].after)
    /\ rows[i].after.revision = i
    /\ Admits(rows[i].command) \/ (i > 1 /\ rows[i - 1].session = rows[i].session)
    /\ rows[i].after.active # None =>
           LET k == rows[i].after.active.id
           IN  k \in 1 .. i /\ Admits(rows[k].command) /\ rows[k].session = rows[i].session
    /\ rows[i].first # None => \A j \in i .. Len(rows) : Recorded(rows[j].after, rows[i].first)

\* A journal is written when each of its rows is one of it.
LEMMA WrittenRows ==
    ASSUME NEW rows
    PROVE  Written(rows) <=> /\ rows \in Seq({rows[i] : i \in DOMAIN rows})
                             /\ \A i \in DOMAIN rows : RowOf(rows, i)
  BY Zenon DEF Written, RowOf

\* A row steps from a valid save.
LEMMA RowSteps ==
    ASSUME NEW row, Transition(row), row.before \in Saves, row.command \in Commands
    PROVE  /\ ValidSave(row.before) /\ ValidSave(row.after)
           /\ Stepped(row.before, row.command, row.after)
           /\ row.first = FirstCompletion(row.before, row.command)
           /\ row.first # None => row.first \in AllRules
<1>1. /\ Accepts(PolicyFor(row.before, row.command), row.before, row.before.revision, row.command)
      /\ row.after = After(row.before, row.command)
      /\ row.first = FirstCompletion(row.before, row.command)
  BY DEF Transition
<1>2. /\ ValidSave(row.before) /\ ValidSave(row.after)
      /\ MayApply(PolicyFor(row.before, row.command), row.before, row.command)
  BY <1>1, Zenon DEF Accepts
<1>3. Stepped(row.before, row.command, row.after)
  BY <1>1, <1>2, CommandSteps
<1>4. ASSUME row.first # None PROVE row.first \in AllRules
  <2>1. row.command.kind = "Confirm" /\ row.first = row.before.active.rules
    BY <1>1, <1>4 DEF FirstCompletion
  <2>2. row.before.active # None
    BY <1>3, <2>1 DEF Stepped, Admits
  <2> QED
    BY <2>1, <2>2 DEF Saves, Runs
<1> QED
  BY <1>1, <1>2, <1>3, <1>4

\* The row that is added is one that the journal can have.
Fits(rows, row) ==
    /\ row.session \in Nat /\ row.command \in Commands
    /\ row.before = LastOf(rows) /\ Transition(row)
    /\ Admits(row.command) \/ (rows # <<>> /\ rows[Len(rows)].session = row.session)

\* Such a row keeps the journal written: what was recorded stays recorded, and the run stays
\* in its session.
LEMMA WrittenGrows ==
    ASSUME NEW rows, Written(rows), NEW row, Fits(rows, row)
    PROVE  Written(Append(rows, row))
<1> DEFINE n   == Len(rows) + 1
           new == Append(rows, row)
<1>1. /\ rows \in Seq({rows[i] : i \in DOMAIN rows})
      /\ \A i \in DOMAIN rows : RowOf(rows, i)
  BY WrittenRows
<1>2. Grown(rows, row, new)
  BY <1>1, RowAppended
<1> HIDE DEF new
<1>3. /\ row.before \in Saves /\ row.before.revision = Len(rows)
      /\ rows # <<>> => Len(rows) \in DOMAIN rows /\ row.before = rows[Len(rows)].after
      /\ rows = <<>> => Len(rows) = 0 /\ row.before = EmptySave
  BY SavedIsLast DEF Fits
<1>4. /\ Stepped(row.before, row.command, row.after)
      /\ row.first = FirstCompletion(row.before, row.command)
      /\ row.first # None => row.first \in AllRules
      /\ row.session \in Nat /\ row.command \in Commands /\ Transition(row)
  BY <1>3, RowSteps DEF Fits
<1>5. ASSUME NEW i \in DOMAIN rows PROVE RowOf(new, i)
  <2>1. RowOf(rows, i)
    BY <1>1
  <2>2. i \in 1 .. Len(rows) /\ Len(rows) \in Nat /\ new[i] = rows[i] /\ Len(new) = n
        /\ \A k \in 1 .. Len(rows) : new[k] = rows[k]
    BY <1>2, <1>5 DEF Grown
  <2>3. ASSUME rows[i].first # None, NEW j \in i .. n PROVE Recorded(new[j].after, rows[i].first)
    <3>1. CASE j \in i .. Len(rows)
      BY <2>1, <2>2, <2>3, <3>1 DEF RowOf
    <3>2. CASE j = n
      <4>1. Recorded(rows[Len(rows)].after, rows[i].first)
        BY <2>1, <2>2, <2>3 DEF RowOf
      <4>2. row.before = rows[Len(rows)].after
        BY <1>3, <2>2
      <4>3. rows[i].first \in AllRules
        BY <2>1, <2>3, RowSteps DEF RowOf
      <4>4. Recorded(row.after, rows[i].first)
        BY <1>4, <4>1, <4>2, <4>3 DEF Stepped
      <4> QED
        BY <1>2, <3>2, <4>4 DEF Grown
    <3> QED
      BY <2>2, <2>3, <3>1, <3>2
  <2>4. /\ new[i].before = (IF i = 1 THEN EmptySave ELSE new[i - 1].after)
        /\ Admits(new[i].command) \/ (i > 1 /\ new[i - 1].session = new[i].session)
    BY <2>1, <2>2 DEF RowOf
  <2>5. ASSUME new[i].after.active # None
        PROVE  LET k == new[i].after.active.id
               IN  k \in 1 .. i /\ Admits(new[k].command) /\ new[k].session = new[i].session
    BY <2>1, <2>2, <2>5 DEF RowOf
  <2> QED
    BY <2>1, <2>2, <2>3, <2>4, <2>5 DEF RowOf
<1>6. RowOf(new, n)
  <2>1. /\ new[n] = row /\ Len(new) = n /\ Len(rows) \in Nat /\ n \in Nat
        /\ DOMAIN rows = 1 .. Len(rows) /\ \A k \in 1 .. Len(rows) : new[k] = rows[k]
    BY <1>2 DEF Grown
  <2>2. row.after \in Saves /\ row.after.revision = n
    BY <1>3, <1>4 DEF Stepped
  <2>3. row.before = (IF n = 1 THEN EmptySave ELSE new[n - 1].after)
    BY <1>3, <2>1
  <2>4. Admits(row.command) \/ (n > 1 /\ new[n - 1].session = row.session)
    BY <1>3, <2>1 DEF Fits
  <2>5. ASSUME row.after.active # None
        PROVE  LET k == row.after.active.id
               IN  k \in 1 .. n /\ Admits(new[k].command) /\ new[k].session = row.session
    <3>1. CASE Admits(row.command)
      <4>1. row.after.active.id = n
        BY <1>4, <2>2, <3>1 DEF Stepped
      <4> QED
        BY <2>1, <3>1, <4>1
    <3>2. CASE ~Admits(row.command)
      <4>1. row.before.active # None /\ row.after.active.id = row.before.active.id
        BY <1>4, <2>5, <3>2 DEF Stepped
      <4>2. rows # <<>> /\ rows[Len(rows)].session = row.session
        BY <3>2 DEF Fits
      <4>3. Len(rows) \in DOMAIN rows /\ row.before = rows[Len(rows)].after /\ RowOf(rows, Len(rows))
        BY <1>1, <1>3, <4>2
      <4>4. LET k == row.before.active.id
            IN  k \in 1 .. Len(rows) /\ Admits(rows[k].command) /\ rows[k].session = row.session
        BY <4>1, <4>2, <4>3 DEF RowOf
      <4> QED
        BY <2>1, <4>1, <4>4
    <3> QED
      BY <3>1, <3>2
  <2>6. row.first # None => \A j \in n .. Len(new) : Recorded(new[j].after, row.first)
    BY <1>4, <2>1 DEF Stepped
  <2> QED
    BY <1>3, <1>4, <2>1, <2>2, <2>3, <2>4, <2>5, <2>6 DEF RowOf
<1>7. \A i \in DOMAIN new : RowOf(new, i)
  BY <1>2, <1>5, <1>6 DEF Grown
<1> QED
  BY <1>2, <1>7, WrittenRows DEF Grown, new

\* Each first completion is told once: what was recorded stays recorded.
LEMMA FirstsAreTold == ASSUME Written(journal) PROVE CompletedOnce
<1>1. \A i \in DOMAIN journal : RowOf(journal, i)
  BY WrittenRows
<1>2. Len(journal) \in Nat /\ DOMAIN journal = 1 .. Len(journal)
  BY SavedIsLast
<1>3. ASSUME NEW i \in DOMAIN journal, NEW j \in DOMAIN journal, i < j,
             journal[i].first # None, journal[i].first = journal[j].first
      PROVE  FALSE
  <2>1. RowOf(journal, i) /\ RowOf(journal, j)
    BY <1>1
  <2>2. Recorded(journal[j - 1].after, journal[j].first)
    BY <1>2, <1>3, <2>1 DEF RowOf
  <2>3. journal[j].before = journal[j - 1].after
    BY <1>2, <1>3, <2>1 DEF RowOf
  <2>4. /\ Stepped(journal[j].before, journal[j].command, journal[j].after)
        /\ journal[j].first = FirstCompletion(journal[j].before, journal[j].command)
    BY <2>1, RowSteps DEF RowOf
  <2>5. ~Recorded(journal[j].before, journal[j].first)
    BY <1>3, <2>4 DEF Stepped
  <2> QED
    BY <2>2, <2>3, <2>5
<1> QED
  BY <1>2, <1>3 DEF CompletedOnce

\* A run stays in the session that was admitted to it.
LEMMA RunsStay == ASSUME Written(journal) PROVE OneSessionPerRun
<1>1. \A i \in DOMAIN journal : RowOf(journal, i)
  BY WrittenRows
<1>2. Len(journal) \in Nat /\ DOMAIN journal = 1 .. Len(journal)
  BY SavedIsLast
<1>3. ASSUME NEW i \in DOMAIN journal, NEW j \in DOMAIN journal,
             ~Admits(journal[i].command), Admits(journal[j].command),
             journal[i].before.active # None, journal[j].after.active # None,
             journal[i].before.active.id = journal[j].after.active.id
      PROVE  journal[i].session = journal[j].session
  <2>1. RowOf(journal, i) /\ RowOf(journal, j)
    BY <1>1
  <2>2. journal[j].after.active.id = j
    <3>1. Stepped(journal[j].before, journal[j].command, journal[j].after)
      BY <2>1, RowSteps DEF RowOf
    <3> QED
      BY <1>3, <2>1, <3>1 DEF Stepped, RowOf
  <2>3. i > 1 /\ journal[i - 1].session = journal[i].session
    BY <1>3, <2>1 DEF RowOf
  <2>4. i - 1 \in DOMAIN journal /\ journal[i].before = journal[i - 1].after
    BY <1>2, <2>1, <2>3 DEF RowOf
  <2>5. RowOf(journal, i - 1)
    BY <1>1, <2>4
  <2>6. journal[j].session = journal[i - 1].session
    BY <1>3, <2>2, <2>4, <2>5 DEF RowOf
  <2> QED
    BY <2>3, <2>6
<1> QED
  BY <1>3 DEF OneSessionPerRun

\* What a transaction adds to the journal it has read.
LEMMA AddedRow ==
    ASSUME Written(journal), NEW session \in Nat, NEW tx, tx.read = Len(journal),
           tx.command \in Commands, Added(session, tx) # None
    PROVE  LET row == Added(session, tx)
           IN  /\ row = Row(session, tx.op, Saved, tx.command)
               /\ row.session = session /\ row.op = tx.op /\ row.command = tx.command
               /\ row.before = Saved /\ Transition(row) /\ Follows(journal, row)
               /\ tx.expected = Len(journal) /\ SessionAccepts(Append(journal, row), session)
<1> DEFINE row == Row(session, tx.op, Saved, tx.command)
<1>1. journal \in Seq({journal[i] : i \in DOMAIN journal})
  BY WrittenRows
<1>2. Read(tx) = journal
  BY <1>1, SubSeqFull DEF Read
<1>3. /\ LastOf(Read(tx)) = Saved /\ DOMAIN Read(tx) = DOMAIN journal
      /\ Saved.revision = Len(journal)
  BY <1>2, SavedIsLast DEF Saved
<1>4. /\ ~\E i \in DOMAIN journal : journal[i].op = tx.op
      /\ Accepts(PolicyFor(Saved, tx.command), Saved, tx.expected, tx.command)
      /\ SessionAccepts(Append(journal, row), session)
      /\ Added(session, tx) = row
  BY <1>2, <1>3, Zenon DEF Added
<1>5. tx.expected = Len(journal) /\ Accepts(PolicyFor(Saved, tx.command), Saved, Saved.revision, tx.command)
  BY <1>3, <1>4, Zenon DEF Accepts
<1>6. /\ row.session = session /\ row.op = tx.op /\ row.command = tx.command
      /\ row.before = Saved /\ row.after = After(Saved, tx.command)
      /\ row.first = FirstCompletion(Saved, tx.command)
  BY DEF Row
<1> HIDE DEF row
<1>7. Transition(row)
  BY <1>5, <1>6, Zenon DEF Transition
<1>8. Follows(journal, row)
  BY <1>4, <1>6, <1>7, Zenon DEF Follows, Saved
<1> QED
  BY <1>4, <1>5, <1>6, <1>7, <1>8 DEF row

\* The first row of a session admits its run, and each later one goes on where the last
\* row of the session ended: no row of another session is between them.
LEMMA SessionSteps ==
    ASSUME Written(journal), NEW row, Follows(journal, row)
    PROVE  /\ OwnRows(journal, row.session) = {} => Admits(row.command)
           /\ (\E k \in DOMAIN journal : LastOwn(row.session, k)) =>
                  ~Admits(row.command) /\ journal # <<>>
                  /\ journal[Len(journal)].session = row.session
<1> DEFINE n   == Len(journal) + 1
           new == Append(journal, row)
           own == OwnRows(new, row.session)
<1>1. journal \in Seq({journal[i] : i \in DOMAIN journal}) /\ \A i \in DOMAIN journal : RowOf(journal, i)
  BY WrittenRows
<1>2. Grown(journal, row, new)
  BY <1>1, RowAppended
<1>3. /\ \A i \in own : Admits(new[i].command) <=> \A k \in own : i <= k
      /\ \A i, k \in own :
            k < i /\ (\A m \in own : m <= k \/ i <= m) =>
                new[i].before = new[k].after /\ new[k].after.active # None
      /\ row.before = Saved
  BY Zenon DEF Follows, SessionAccepts, Saved
<1>4. /\ Len(journal) \in Nat /\ DOMAIN journal = 1 .. Len(journal) /\ new[n] = row
      /\ \A i \in DOMAIN journal : new[i] = journal[i]
      /\ own = OwnRows(journal, row.session) \cup {n}
  BY <1>2 DEF Grown, OwnRows
<1> HIDE DEF new, own
<1>5. ASSUME OwnRows(journal, row.session) = {} PROVE Admits(row.command)
  BY <1>3, <1>4, <1>5
<1>6. ASSUME NEW k \in DOMAIN journal, LastOwn(row.session, k)
      PROVE  ~Admits(row.command) /\ journal # <<>> /\ journal[Len(journal)].session = row.session
  <2>1. /\ k \in own /\ n \in own /\ k \in 1 .. Len(journal) /\ k < n
        /\ \A m \in own : m <= k \/ n <= m
    BY <1>4, <1>6 DEF LastOwn, OwnRows
  <2>2. ~Admits(row.command)
    BY <1>3, <1>4, <2>1
  <2>3. Saved = journal[k].after
    BY <1>3, <1>4, <2>1
  <2>4. journal[k].after.revision = k /\ journal[k].session = row.session
    BY <1>1, <1>6 DEF RowOf, LastOwn, OwnRows
  <2>5. k = Len(journal)
    BY <2>3, <2>4, SavedIsLast DEF Saved
  <2>6. journal # <<>>
    BY <2>1, SavedIsLast
  <2>7. journal[Len(journal)].session = row.session
    BY <2>4, <2>5
  <2> QED
    BY <2>2, <2>6, <2>7
<1> QED
  BY <1>5, <1>6

\* What is stored is the row that was added; it may show that its goal was reached.
Stored(row, x) ==
    /\ x.session = row.session /\ x.op = row.op /\ x.before = row.before
    /\ x.command = row.command /\ x.after = row.after /\ x.first = row.first

\* The mark of a goal that was reached changes nothing else of a row.
LEMMA RowIsStored ==
    ASSUME NEW session, NEW op, NEW before, NEW c, NEW clean
    PROVE  Stored(Row(session, op, before, c), [Row(session, op, before, c) EXCEPT !.clean = clean])
  BY DEF Stored, Row

\* The journal as the transaction leaves it.
LEMMA JournalGrows ==
    ASSUME Written(journal), NEW row, NEW x, Follows(journal, row), Stored(row, x),
           row.session \in Nat, row.command \in Commands,
           \/ OwnRows(journal, row.session) = {}
           \/ \E k \in DOMAIN journal : LastOwn(row.session, k)
    PROVE  /\ Written(Append(journal, x)) /\ Grown(journal, x, Append(journal, x))
           /\ Stepped(Saved, row.command, row.after) /\ ValidSave(row.after)
           /\ row.before = Saved /\ Saved.revision = Len(journal)
<1>1. row.before = Saved /\ Transition(row)
  BY Zenon DEF Follows, Saved
<1>2. Transition(x)
  BY <1>1 DEF Stored, Transition
<1>3. Fits(journal, x)
  BY <1>1, <1>2, SessionSteps DEF Stored, Fits, Saved
<1>4. Saved \in Saves /\ Saved.revision = Len(journal)
  BY SavedIsLast DEF Saved
<1>5. Stepped(Saved, row.command, row.after) /\ ValidSave(row.after)
  BY <1>1, <1>4, RowSteps
<1> QED
  BY <1>1, <1>3, <1>4, <1>5, WrittenGrows, WrittenRows, RowAppended

-----------------------------------------------------------------------------
(* The steps that leave the journal alone *)

\* The parts of the invariant of a session that the journal decides.
LEMMA GateKept ==
    ASSUME SaveInv, NEW h \in Gateways, UNCHANGED journal, gates'[h] = gates[h],
           (lock' = h) <=> (lock = h),
           sessions' \in Nat, sessions <= sessions'
    PROVE  GateInv(h)'
<1> DEFINE gate == gates[h]
<1>1. GateInv(h) /\ sessions \in Nat
  BY SaveAssumption DEF SaveInv
<1>2. IsGate(gate)'
  <2>1. IsGate(gate)
    BY <1>1 DEF GateInv
  <2> QED
    BY <1>1, <2>1 DEF IsGate
<1>3. gate.tx # None => TxInv(gate)'
  <2>1. ASSUME gate.tx # None PROVE TxInv(gate)'
    <3>1. TxInv(gate)
      BY <1>1, <2>1 DEF GateInv
    <3> QED
      BY <3>1 DEF TxInv
  <2> QED
    BY <2>1
<1>4. gate.phase # "Idle" => gate.session \in Opened'
  <2>1. gate.phase # "Idle" => gate.session \in Opened
    BY <1>1 DEF GateInv
  <2> QED
    BY <1>1, <2>1 DEF Opened
<1>5. gate.phase = "Prepared" =>
              /\ OwnRows(journal, gate.session)' = {}
              /\ gate.entry.command \in Commands /\ gate.entry.op \in OperationNames
              /\ gate.entry.expected \in Nat
  BY <1>1 DEF GateInv
<1>6. gate.phase = "Playing" =>
              /\ \E i \in DOMAIN journal : LastOwn(gate.session, i)' /\ i <= gate.memory.revision
              /\ Held(gate)'
  <2>1. /\ \A i \in DOMAIN journal : LastOwn(gate.session, i)' <=> LastOwn(gate.session, i)
        /\ Held(gate)' <=> Held(gate)
    BY DEF LastOwn, Held, Current, Over, OwnRows, Saved
  <2> QED
    BY <1>1, <2>1 DEF GateInv
<1> QED
  BY <1>1, <1>2, <1>3, <1>4, <1>5, <1>6, Zenon DEF GateInv

\* A step of one session that leaves the journal and the board alone, and the lock as far as
\* others are concerned.
GateSteps(g, new) ==
    /\ UNCHANGED <<journal, readable, board>>
    /\ sessions' \in sessions .. MaxSessions /\ gates' = [gates EXCEPT ![g] = new]
    /\ lock' \in Gateways \cup {None}
    /\ \A h \in Gateways \ {g} : (lock' = h) <=> (lock = h)
    /\ new.phase # "Idle" =>
           \A h \in Gateways \ {g} : gates[h].phase # "Idle" => gates[h].session # new.session

\* Such a step keeps the invariant when it keeps that of its own session.
LEMMA GateStep ==
    ASSUME SaveInv, NEW g \in Gateways, NEW new, GateSteps(g, new), GateInv(g)'
    PROVE  SaveInv'
<1>0. /\ UNCHANGED <<journal, readable, board>>
      /\ sessions' \in sessions .. MaxSessions /\ gates' = [gates EXCEPT ![g] = new]
      /\ lock' \in Gateways \cup {None}
      /\ \A h \in Gateways \ {g} : (lock' = h) <=> (lock = h)
      /\ new.phase # "Idle" =>
             \A h \in Gateways \ {g} : gates[h].phase # "Idle" => gates[h].session # new.session
  BY DEF GateSteps
<1>1. /\ sessions \in Nat /\ sessions' \in Nat /\ sessions <= sessions' /\ sessions' <= MaxSessions
      /\ MaxSessions \in Nat /\ board.revision \in Nat /\ sessions' \in 0 .. MaxSessions
  BY <1>0, SaveAssumption DEF SaveInv, BoardInv, Saves
<1>2. /\ gates \in [Gateways -> {gates[h] : h \in Gateways}]
      /\ gates'[g] = new /\ \A h \in Gateways \ {g} : gates'[h] = gates[h]
      /\ gates' \in [Gateways -> {gates'[h] : h \in Gateways}]
  BY <1>0 DEF SaveInv
<1>3. \A h \in Gateways : GateInv(h)'
  <2>1. ASSUME NEW h \in Gateways, h # g PROVE GateInv(h)'
    BY <1>0, <1>1, <1>2, <2>1, GateKept
  <2> QED
    BY <2>1
<1>4. JournalInv' /\ BoardInv'
  <2>1. JournalInv /\ BoardInv
    BY DEF SaveInv
  <2>2. \A j \in DOMAIN journal : journal[j].session \in Opened' => journal[j].session \in Opened
    BY <1>0, <1>1, <2>1 DEF JournalInv, Opened
  <2>3. Opened \subseteq Opened'
    BY <1>1 DEF Opened
  <2> QED
    BY <1>0, <2>1, <2>2, <2>3 DEF JournalInv, BoardInv
<1>5. \A h, k \in Gateways :
          h # k /\ gates'[h].phase # "Idle" /\ gates'[k].phase # "Idle"
              => gates'[h].session # gates'[k].session
  <2>1. \A h, k \in Gateways :
            h # k /\ gates[h].phase # "Idle" /\ gates[k].phase # "Idle"
                => gates[h].session # gates[k].session
    BY DEF SaveInv
  <2> QED
    BY <1>0, <1>2, <2>1
<1> QED
  BY <1>0, <1>1, <1>2, <1>3, <1>4, <1>5, Zenon DEF SaveInv

\* A session that is over.
LEMMA ResetKeeps ==
    ASSUME SaveInv, NEW g \in Gateways, UNCHANGED <<journal, readable, board, sessions>>,
           Reset(g), Unlock(g) \/ (UNCHANGED lock /\ gates[g].tx = None)
    PROVE  SaveInv'
<1>1. /\ sessions \in 0 .. MaxSessions /\ MaxSessions \in Nat /\ GateInv(g)
      /\ lock \in Gateways \cup {None} /\ Len(journal) \in Nat
  BY SaveAssumption, SavedIsLast DEF SaveInv, JournalInv
<1>2. /\ gates' = [gates EXCEPT ![g] = Idle(0)] /\ gates'[g] = Idle(0)
  BY DEF Reset, SaveInv
<1>3. /\ lock' \in Gateways \cup {None} /\ lock' # g
      /\ \A h \in Gateways \ {g} : (lock' = h) <=> (lock = h)
  BY <1>1, NoneAssumption DEF Unlock, GateInv
<1>4. GateInv(g)'
  <2>1. IsGate(Idle(0))'
    BY <1>1, EmptyIsValid DEF IsGate, Idle
  <2>2. /\ Idle(0).tx = None /\ Idle(0).phase = "Idle" /\ Idle(0).memory = EmptySave
    BY DEF Idle
  <2> QED
    BY <1>1, <1>2, <1>3, <2>1, <2>2, EmptyIsValid DEF GateInv
<1>5. Idle(0).phase = "Idle"
  BY DEF Idle
<1>6. GateSteps(g, Idle(0))
  BY <1>1, <1>2, <1>3, <1>5 DEF GateSteps
<1> QED
  BY <1>4, <1>6, GateStep

\* A transaction that a session may begin.
Begins(g, why, op, expected, c) ==
    /\ why \in {"Entry", "World", "Abandon", "Disconnect"} /\ op \in OperationNames
    /\ expected \in Nat /\ c \in Commands
    /\ why = "Entry" => gates[g].phase = "Prepared"
    /\ why # "Entry" => gates[g].phase = "Playing" /\ ~Admits(c)
    /\ why \in {"World", "Disconnect"} => expected = gates[g].memory.revision
    /\ why = "Abandon" => c.kind = "End"

\* A transaction that begins holds the character and has read the whole journal.
LEMMA BeginKeeps ==
    ASSUME SaveInv, NEW g \in Gateways, NEW why, NEW op, NEW expected, NEW c,
           Begin(g, why, op, expected, c), Begins(g, why, op, expected, c)
    PROVE  SaveInv'
<1>a. PICK tx : tx = [why |-> why, op |-> op, expected |-> expected, command |-> c,
                      read |-> Len(journal)]
  OBVIOUS
<1>b. PICK new : new = [gates[g] EXCEPT !.tx = tx]
  OBVIOUS
<1>1. /\ GateInv(g) /\ sessions \in 0 .. MaxSessions /\ MaxSessions \in Nat
      /\ Len(journal) \in Nat /\ gates \in [Gateways -> {gates[h] : h \in Gateways}]
      /\ journal \in Seq({journal[i] : i \in DOMAIN journal})
  BY SaveAssumption, SavedIsLast, WrittenRows DEF SaveInv, JournalInv
<1>2. /\ UNCHANGED <<journal, readable, board, sessions>> /\ lock = None /\ lock' = g
      /\ gates' = [gates EXCEPT ![g] = new] /\ gates'[g] = new
  BY <1>a, <1>b, <1>1 DEF Begin, Waits
<1>3. /\ tx \in Transactions /\ tx # None /\ tx.why = why /\ tx.op = op
      /\ tx.expected = expected /\ tx.command = c /\ tx.read = Len(journal)
  BY <1>a, <1>1, NoneAssumption DEF Begins, Transactions
<1>4. /\ new.phase = gates[g].phase /\ new.session = gates[g].session
      /\ new.memory = gates[g].memory /\ new.entry = gates[g].entry /\ new.tx = tx
      /\ IsGate(new)
  BY <1>b, <1>1 DEF GateInv, IsGate
<1>5. TxInv(new)
  BY <1>3, <1>4 DEF TxInv, Begins
<1>6. GateInv(g)'
  <2>1. TxInv(new)' /\ IsGate(new)'
    BY <1>2, <1>4, <1>5 DEF TxInv, IsGate
  <2>2. /\ new.phase # "Idle" => new.session \in Opened'
        /\ OwnRows(journal, new.session)' = OwnRows(journal, new.session)
        /\ Held(new)' <=> Held(gates[g])
        /\ \A i \in DOMAIN journal : LastOwn(new.session, i)' <=> LastOwn(gates[g].session, i)
    BY <1>1, <1>2, <1>4 DEF GateInv, Opened, Held, Current, Over, OwnRows, LastOwn, Saved
  <2>3. new.phase # "Idle"
    BY <1>4 DEF Begins
  <2> QED
    BY <1>1, <1>2, <1>3, <1>4, <2>1, <2>2, <2>3, Zenon DEF GateInv
<1>7. GateSteps(g, new)
  <2>1. \A h \in Gateways \ {g} : (lock' = h) <=> (lock = h)
    BY <1>2, NoneAssumption
  <2>2. new.phase # "Idle" =>
            \A h \in Gateways \ {g} : gates[h].phase # "Idle" => gates[h].session # new.session
    BY <1>4 DEF SaveInv
  <2> QED
    BY <1>1, <1>2, <2>1, <2>2 DEF GateSteps
<1> QED
  BY <1>6, <1>7, GateStep

\* The board of the client is the save.
LEMMA ShowBoardKeeps == ASSUME SaveInv, ShowBoard PROVE SaveInv'
<1>1. /\ UNCHANGED <<journal, readable, lock, gates, sessions>> /\ board' = Saved
  BY DEF ShowBoard
<1>2. /\ Saved \in Saves /\ ValidSave(Saved) /\ Saved.revision = Len(journal)
      /\ Len(journal) \in Nat /\ DOMAIN journal = 1 .. Len(journal)
  BY SavedIsLast DEF SaveInv, JournalInv, Saved
<1>3. sessions \in Nat
  BY SaveAssumption DEF SaveInv
<1>4. \A h \in Gateways : GateInv(h)'
  BY <1>1, <1>2, <1>3, GateKept
<1>5. JournalInv' /\ BoardInv'
  <2>1. BoardInv'
    BY <1>1, <1>2 DEF BoardInv
  <2> QED
    BY <1>1, <2>1 DEF SaveInv, JournalInv, Opened
<1> QED
  BY <1>1, <1>4, <1>5 DEF SaveInv

\* A session is prepared from the save the board shows, under a number of its own.
LEMMA PrepareKeeps ==
    ASSUME SaveInv, NEW g \in Gateways, NEW policy, NEW op \in Operations, NEW rules \in Offers,
           NEW again \in BOOLEAN, NEW build \in Builds, Prepare(g, policy, op, rules, again, build)
    PROVE  SaveInv'
<1>1. /\ GateInv(g) /\ sessions \in 0 .. MaxSessions /\ MaxSessions \in Nat
      /\ sessions < MaxSessions /\ gates \in [Gateways -> {gates[h] : h \in Gateways}]
      /\ lock \in Gateways \cup {None} /\ gates[g].phase = "Idle" /\ gates[g].tx = None
      /\ board \in Saves /\ board.revision \in Nat
  BY SaveAssumption DEF SaveInv, Prepare, GateInv, BoardInv, Saves
<1>2. Saved \in Saves /\ ValidSave(Saved) /\ Saved.revision = Len(journal) /\ Len(journal) \in Nat
  BY SavedIsLast DEF SaveInv, JournalInv, Saved
<1>3. EntryCommand(rules, again, build) \in Commands
  <2>1. CASE again
    <3>1. Latest(Saved) \in Runs /\ Latest(Saved).id = Latest(board).id
      BY <1>2, <2>1, LatestIsRun DEF Prepare
    <3> QED
      BY <2>1, <3>1 DEF EntryCommand, RetryOf, Commands, Runs
  <2>2. CASE ~again
    <3>1. rules.contract \in Contracts /\ rules.preset \in Presets
      BY SaveAssumption DEF AllRules
    <3> QED
      BY <2>2, <3>1 DEF EntryCommand, StartOf, Commands
  <2> QED
    BY <2>1, <2>2
<1>4. <<op>> \in OperationNames
  BY DEF OperationNames
<1>a. PICK entry : entry = [policy |-> policy, op |-> <<op>>, expected |-> board.revision,
                            command |-> EntryCommand(rules, again, build)]
  OBVIOUS
<1>b. PICK new : new = [session |-> sessions + 1, phase |-> "Prepared", memory |-> Saved,
                        tx |-> None, entry |-> entry]
  OBVIOUS
<1>5. /\ UNCHANGED <<journal, readable, lock, board>> /\ sessions' = sessions + 1
      /\ gates' = [gates EXCEPT ![g] = new] /\ gates'[g] = new
  BY <1>a, <1>b, <1>1 DEF Prepare
<1>6. /\ new.session = sessions + 1 /\ new.phase = "Prepared" /\ new.memory = Saved
      /\ new.tx = None /\ new.entry.command \in Commands /\ new.entry.op \in OperationNames
      /\ new.entry.expected = board.revision
  BY <1>a, <1>b, <1>3, <1>4
<1>7. OwnRows(journal, sessions + 1) = {}
  <2>1. ASSUME NEW i \in DOMAIN journal, journal[i].session = sessions + 1 PROVE FALSE
    <3>1. journal[i].session \in 1 .. MaxSessions => journal[i].session \in 1 .. sessions
      BY Zenon DEF SaveInv, JournalInv, Opened
    <3>2. journal[i].session \in 1 .. MaxSessions /\ journal[i].session \notin 1 .. sessions
      BY <1>1, <2>1
    <3> QED
      BY <3>1, <3>2
  <2> QED
    BY <2>1 DEF OwnRows
<1>8. GateInv(g)'
  <2>1. IsGate(new)'
    <3>1. sessions + 1 \in 0 .. sessions'
      BY <1>1, <1>5
    <3> QED
      BY <1>b, <1>2, <3>1 DEF IsGate
  <2>2. /\ (lock' = g) = (new.tx # None) /\ new.session \in Opened'
    BY <1>1, <1>5, <1>6 DEF GateInv, Opened
  <2>3. ValidSave(new.memory) /\ new.memory.revision <= Len(journal')
    BY <1>2, <1>5, <1>6
  <2>4. OwnRows(journal, new.session)' = {}
    BY <1>5, <1>6, <1>7 DEF OwnRows
  <2>5. new.entry.expected \in Nat
    BY <1>1, <1>6
  <2> QED
    BY <1>5, <1>6, <2>1, <2>2, <2>3, <2>4, <2>5 DEF GateInv
<1>9. GateSteps(g, new)
  <2>1. \A h \in Gateways : gates[h].phase # "Idle" => gates[h].session # new.session
    <3>1. \A h \in Gateways : gates[h].phase # "Idle" => gates[h].session \in Opened
      BY DEF SaveInv, GateInv
    <3> QED
      BY <1>1, <1>6, <3>1 DEF Opened
  <2> QED
    BY <1>1, <1>5, <2>1 DEF GateSteps
<1> QED
  BY <1>8, <1>9, GateStep

\* The admission of a prepared session.
LEMMA EnterKeeps == ASSUME SaveInv, NEW g \in Gateways, Enter(g) PROVE SaveInv'
<1>1. GateInv(g)
  BY DEF SaveInv
<1>2. Begins(g, "Entry", gates[g].entry.op, gates[g].entry.expected, gates[g].entry.command)
  BY <1>1 DEF Enter, GateInv, Begins
<1> QED
  BY <1>2, BeginKeeps DEF Enter

\* The operations of a session itself have names of their own.
LEMMA OwnNames ==
    ASSUME SaveInv, NEW g \in Gateways, NEW what \in {"world", "disconnect"}
    PROVE  OwnOperation(g, what) \in OperationNames
<1>1. gates[g].session \in Nat /\ gates[g].memory.revision \in Nat
  BY SaveAssumption DEF SaveInv, GateInv, IsGate, Saves
<1> QED
  BY <1>1 DEF OwnOperation, OperationNames

\* The world of a session confirms an objective or ends the run.
LEMMA WorldKeeps == ASSUME SaveInv, NEW g \in Gateways, World(g) PROVE SaveInv'
<1>1. PICK c \in Earned(gates[g].entry.policy, gates[g].memory) :
          Begin(g, "World", OwnOperation(g, "world"), gates[g].memory.revision, c)
  BY DEF World
<1>2. /\ gates[g].memory \in Saves /\ gates[g].memory.active \in Runs
      /\ gates[g].phase = "Playing"
  <2>1. gates[g].memory \in Saves /\ gates[g].memory.active # None /\ gates[g].phase = "Playing"
    BY DEF SaveInv, GateInv, IsGate, World
  <2> QED
    BY <2>1 DEF Saves
<1>3. c \in Commands /\ ~Admits(c)
  <2> DEFINE run == gates[g].memory.active
  <2>1. run.id \in Nat /\ run.rules \in AllRules
    BY <1>2 DEF Runs
  <2>2. ObjectiveSet(run.rules) \subseteq AllObjectives
    BY <2>1 DEF AllObjectives
  <2>3. \/ \E o \in ObjectiveSet(run.rules), t \in Times \cup {None} : c = ConfirmOf(run.id, o, t)
        \/ c = EndOf(run.id, "Defeated")
    BY <1>1 DEF Earned
  <2> HIDE DEF run
  <2>4. CASE c = EndOf(run.id, "Defeated")
    BY <2>1, <2>4 DEF EndOf, Commands, Admits
  <2>5. ASSUME NEW o \in ObjectiveSet(run.rules), NEW t \in Times \cup {None},
               c = ConfirmOf(run.id, o, t)
        PROVE  c \in Commands /\ ~Admits(c)
    BY <2>1, <2>2, <2>5 DEF ConfirmOf, Commands, Admits
  <2> QED
    BY <2>3, <2>4, <2>5
<1>4. Begins(g, "World", OwnOperation(g, "world"), gates[g].memory.revision, c)
  BY <1>2, <1>3, OwnNames DEF Begins, Saves
<1> QED
  BY <1>1, <1>4, BeginKeeps

\* A connection that ends interrupts the run.
LEMMA DisconnectKeeps == ASSUME SaveInv, NEW g \in Gateways, Disconnect(g) PROVE SaveInv'
<1> DEFINE c == EndOf(gates[g].memory.active.id, "Interrupted")
<1>1. CASE gates[g].memory.active = None
  BY <1>1, ResetKeeps DEF Disconnect
<1>2. CASE gates[g].memory.active # None
  <2>1. gates[g].memory \in Saves /\ gates[g].memory.active \in Runs
    <3>1. gates[g].memory \in Saves
      BY DEF SaveInv, GateInv, IsGate
    <3> QED
      BY <1>2, <3>1 DEF Saves
  <2>2. c \in Commands /\ ~Admits(c)
    BY <2>1 DEF EndOf, Commands, Admits, Runs
  <2>3. Begin(g, "Disconnect", OwnOperation(g, "disconnect"), gates[g].memory.revision, c)
        /\ gates[g].phase = "Playing"
    BY <1>2 DEF Disconnect
  <2> HIDE DEF c
  <2>4. Begins(g, "Disconnect", OwnOperation(g, "disconnect"), gates[g].memory.revision, c)
    BY <2>1, <2>2, <2>3, OwnNames DEF Begins, Saves
  <2> QED
    BY <2>3, <2>4, BeginKeeps
<1> QED
  BY <1>1, <1>2

\* A transaction that fails resets its session.
LEMMA FailKeeps == ASSUME SaveInv, NEW g \in Gateways, Fail(g) PROVE SaveInv'
  BY ResetKeeps DEF Fail

\* The rows of a session that plays are older than its memory.
LEMMA OwnRowsAreOlder ==
    ASSUME SaveInv, NEW g \in Gateways, gates[g].phase = "Playing",
           NEW i \in DOMAIN journal, journal[i].session = gates[g].session
    PROVE  /\ RowOf(journal, i) /\ journal[i].before.revision = i - 1
           /\ i \in Nat /\ i <= gates[g].memory.revision
<1>1. RowOf(journal, i) /\ Len(journal) \in Nat /\ DOMAIN journal = 1 .. Len(journal)
  BY WrittenRows, SavedIsLast DEF SaveInv, JournalInv
<1>2. journal[i].before.revision = i - 1
  <2>1. CASE i = 1
    BY <1>1, <2>1, EmptyIsValid DEF RowOf
  <2>2. CASE i # 1
    <3>1. i - 1 \in DOMAIN journal
      BY <1>1, <2>2
    <3>2. RowOf(journal, i - 1)
      BY <3>1, WrittenRows DEF SaveInv, JournalInv
    <3> QED
      BY <1>1, <2>2, <3>2 DEF RowOf
  <2> QED
    BY <2>1, <2>2
<1>3. PICK k \in DOMAIN journal : LastOwn(gates[g].session, k) /\ k <= gates[g].memory.revision
  BY DEF SaveInv, GateInv
<1>4. gates[g].memory.revision \in Nat
  BY DEF SaveInv, GateInv, IsGate, Saves
<1>5. i <= k
  BY <1>3 DEF LastOwn, OwnRows
<1> QED
  BY <1>1, <1>2, <1>3, <1>4, <1>5

\* The client abandons a run that it names.
LEMMA AbandonKeeps ==
    ASSUME SaveInv, NEW g \in Gateways, NEW op \in Operations, NEW i \in DOMAIN journal,
           Abandon(g, op, journal[i].after)
    PROVE  SaveInv'
<1>a. PICK s : s = journal[i].after
  OBVIOUS
<1> DEFINE c == EndOf(Latest(s).id, "Abandoned")
<1>1. s \in Saves
  BY <1>a, WrittenRows DEF SaveInv, JournalInv, RowOf
<1>2. gates[g].phase = "Playing" /\ Latest(s) # None /\ Begin(g, "Abandon", <<op>>, s.revision, c)
  BY <1>a DEF Abandon
<1>3. Latest(s).id \in Nat
  BY <1>1, <1>2, LatestIsRun DEF Runs
<1>4. c \in Commands /\ ~Admits(c) /\ c.kind = "End"
  BY <1>3 DEF EndOf, Commands, Admits
<1>5. <<op>> \in OperationNames /\ s.revision \in Nat
  BY <1>1 DEF OperationNames, Saves
<1> HIDE DEF c
<1>6. Begins(g, "Abandon", <<op>>, s.revision, c)
  BY <1>2, <1>4, <1>5 DEF Begins
<1> QED
  BY <1>2, <1>6, BeginKeeps

\* An active run belongs to the session of the last row.
LEMMA ActiveIsOwned ==
    ASSUME NEW rows, Written(rows), LastOf(rows).active # None
    PROVE  /\ rows # <<>> /\ LastOf(rows).active.id \in DOMAIN rows
           /\ rows[LastOf(rows).active.id].session = rows[Len(rows)].session
<1>1. /\ Len(rows) \in Nat /\ DOMAIN rows = 1 .. Len(rows)
      /\ rows # <<>> => Len(rows) \in DOMAIN rows /\ LastOf(rows) = rows[Len(rows)].after
      /\ rows = <<>> => LastOf(rows) = EmptySave
  BY SavedIsLast
<1>2. rows # <<>>
  BY <1>1, EmptyIsValid
<1>3. RowOf(rows, Len(rows))
  BY <1>1, <1>2, WrittenRows
<1> QED
  BY <1>1, <1>2, <1>3 DEF RowOf

\* An operation that is repeated is answered; only one that ended a run can be, and the save it
\* is answered with may hold a run of another session.
LEMMA RepeatKeeps == ASSUME SaveInv, NEW g \in Gateways, Repeat(g) PROVE SaveInv'
<1> DEFINE tx == gates[g].tx
<1>1. /\ GateInv(g) /\ TxInv(gates[g]) /\ tx # None /\ Known(gates[g].session, tx)
      /\ UNCHANGED <<journal, readable, board, sessions>> /\ Unlock(g)
  BY DEF Repeat, SaveInv, GateInv
<1>2. /\ Saved \in Saves /\ ValidSave(Saved) /\ Saved.revision = Len(journal)
      /\ Len(journal) \in Nat /\ DOMAIN journal = 1 .. Len(journal)
      /\ journal \in Seq({journal[i] : i \in DOMAIN journal})
  BY SavedIsLast, WrittenRows DEF SaveInv, JournalInv, Saved
<1>3. Read(tx) = journal
  BY <1>1, <1>2, SubSeqFull DEF Read, TxInv
<1>4. PICK i \in DOMAIN journal : Replayed(gates[g].session, tx, journal[i])
  BY <1>1, <1>3 DEF Known
<1>5. gates[g].phase = "Playing"
  <2>1. OwnRows(journal, gates[g].session) # {}
    BY <1>4 DEF Replayed, OwnRows
  <2> QED
    BY <1>1, <2>1 DEF GateInv, IsGate
<1>6. i \in Nat /\ i <= gates[g].memory.revision /\ tx.expected = i - 1
  BY <1>4, <1>5, OwnRowsAreOlder DEF Replayed
<1>7. tx.why = "Abandon" /\ tx.command.kind = "End"
  <2>1. gates[g].memory.revision \in Nat
    BY DEF SaveInv, GateInv, IsGate, Saves
  <2> QED
    BY <1>1, <1>5, <1>6, <2>1 DEF TxInv, Transactions
<1>b. Over(gates[g].session)
  <2>1. RowOf(journal, i) /\ journal[i].command.kind = "End" /\ journal[i].session = gates[g].session
    BY <1>4, <1>7, WrittenRows DEF Replayed, SaveInv, JournalInv
  <2>2. journal[i].after.active = None
    BY <2>1, RowSteps DEF RowOf, Stepped
  <2> QED
    BY <2>1, <2>2 DEF Over, OwnRows
<1>a. PICK new : new = [gates[g] EXCEPT !.tx = None, !.memory = Saved, !.phase = "Playing"]
  OBVIOUS
<1>8. gates' = [gates EXCEPT ![g] = new] /\ gates'[g] = new
  BY <1>a, <1>3, <1>7 DEF Repeat, Acknowledge, Saved, SaveInv
<1>9. /\ new.tx = None /\ new.memory = Saved /\ new.phase = "Playing"
      /\ new.session = gates[g].session /\ IsGate(new)
  BY <1>a, <1>1, <1>2 DEF GateInv, IsGate
<1>10. lock = g /\ lock' = None
  BY <1>1 DEF GateInv, Unlock
<1>c. Held(new)
  <2>1. ASSUME Saved.active # None, Saved.active.id \in OwnRows(journal, new.session)
        PROVE  Current(new)
    <3>1. /\ journal # <<>>
          /\ journal[Saved.active.id].session = journal[Len(journal)].session
      BY <2>1, ActiveIsOwned DEF SaveInv, JournalInv, Saved
    <3>2. journal[Saved.active.id].session = new.session
      BY <2>1 DEF OwnRows
    <3> QED
      BY <1>9, <3>1, <3>2 DEF Current
  <2> QED
    BY <1>b, <1>9, <2>1 DEF Held
<1>11. GateInv(g)'
  <2>1. IsGate(new)' /\ (new.session \in Opened)'
    BY <1>1, <1>5, <1>9 DEF IsGate, GateInv, Opened
  <2>2. \E k \in DOMAIN journal' : LastOwn(new.session, k)' /\ k <= new.memory.revision
    <3>1. PICK k \in DOMAIN journal : LastOwn(gates[g].session, k)
      BY <1>1, <1>5 DEF GateInv
    <3>2. k <= Len(journal)
      BY <1>2
    <3> QED
      BY <1>1, <1>2, <1>9, <3>1, <3>2 DEF LastOwn
  <2>3. (lock' = g) = (new.tx # None)
    BY <1>9, <1>10, NoneAssumption
  <2>4. Held(new)'
    BY <1>1, <1>c DEF Held, Current, Over, OwnRows, Saved
  <2> QED
    BY <1>1, <1>2, <1>8, <1>9, <2>1, <2>2, <2>3, <2>4 DEF GateInv
<1>12. GateSteps(g, new)
  <2>1. \A h \in Gateways \ {g} : (lock' = h) <=> (lock = h)
    BY <1>10, NoneAssumption
  <2>2. \A h \in Gateways \ {g} : gates[h].phase # "Idle" => gates[h].session # new.session
    BY <1>5, <1>9 DEF SaveInv
  <2>3. sessions' \in sessions .. MaxSessions
    BY <1>1, SaveAssumption DEF SaveInv
  <2> QED
    BY <1>1, <1>8, <1>10, <2>1, <2>2, <2>3 DEF GateSteps
<1> QED
  BY <1>11, <1>12, GateStep

-----------------------------------------------------------------------------
(* The step that adds a row *)

\* What a commit does: the row it adds, what is stored of it, and the session it leaves.
Commits(g, row, x, new) ==
    /\ Follows(journal, row) /\ Stored(row, x)
    /\ row.session = gates[g].session /\ row.command = gates[g].tx.command
    /\ gates[g].tx.expected = Len(journal)
    /\ journal' = Append(journal, x) /\ readable' = TRUE
    /\ gates' = [gates EXCEPT ![g] = new]
    /\ \/ new = Idle(0)
       \/ new = [gates[g] EXCEPT !.tx = None, !.memory = row.after, !.phase = "Playing"]
    /\ lock = g /\ lock' = None /\ UNCHANGED <<board, sessions>>

\* Every commit is of that form.
LEMMA CommitCommits ==
    ASSUME SaveInv, NEW g \in Gateways, Commit(g)
    PROVE  \E row, x, new : Commits(g, row, x, new)
<1> DEFINE tx == gates[g].tx
<1>1. /\ GateInv(g) /\ TxInv(gates[g]) /\ tx # None /\ Written(journal)
      /\ UNCHANGED <<board, sessions>> /\ Unlock(g)
  BY DEF Commit, SaveInv, GateInv, JournalInv
<1>2. lock = g /\ lock' = None
  BY <1>1 DEF GateInv, Unlock
<1>a. PICK row : row = Added(gates[g].session, tx)
  OBVIOUS
<1>3. /\ row # None /\ readable' = Follows(journal, row)
      /\ \E clean \in BOOLEAN : journal' = Append(journal, [row EXCEPT !.clean = clean])
      /\ Acknowledge(g, row.after) \/ Reset(g)
  BY <1>a DEF Commit
<1>4. PICK clean \in BOOLEAN : journal' = Append(journal, [row EXCEPT !.clean = clean])
  BY <1>3
<1>b. PICK x : x = [row EXCEPT !.clean = clean]
  OBVIOUS
<1>5. gates[g].session \in Nat /\ tx.command \in Commands /\ tx.read = Len(journal)
  BY <1>1, SaveAssumption DEF GateInv, IsGate, TxInv, Transactions, SaveInv
<1>6. /\ row = Row(gates[g].session, tx.op, Saved, tx.command)
      /\ row.session = gates[g].session /\ row.command = tx.command /\ Follows(journal, row)
      /\ tx.expected = Len(journal)
  BY <1>a, <1>1, <1>3, <1>5, AddedRow
<1>7. Stored(row, x)
  BY <1>b, <1>6, RowIsStored
<1>8. readable' = TRUE
  BY <1>3, <1>6, Zenon DEF Follows
<1>9. \E new : /\ gates' = [gates EXCEPT ![g] = new]
               /\ \/ new = Idle(0)
                  \/ new = [gates[g] EXCEPT !.tx = None, !.memory = row.after, !.phase = "Playing"]
  BY <1>3 DEF Acknowledge, Reset
<1> QED
  BY <1>b, <1>1, <1>2, <1>4, <1>6, <1>7, <1>8, <1>9 DEF Commits

\* What follows for the journal.
Committed(g, row, x) ==
    /\ Written(journal') /\ Grown(journal, x, journal') /\ Stored(row, x)
    /\ Stepped(Saved, row.command, row.after) /\ ValidSave(row.after)
    /\ Saved \in Saves /\ Saved.revision = Len(journal) /\ row.session = gates[g].session
    /\ gates[g].tx \in Transactions /\ gates[g].tx.command = row.command
    /\ gates[g].tx.expected = Len(journal) /\ gates[g].session \in Opened
    /\ ~Admits(row.command) =>
           journal # <<>> /\ journal[Len(journal)].session = gates[g].session
    /\ gates[g].phase # "Idle"

\* The row that is added keeps the journal written.
LEMMA CommitWrites ==
    ASSUME SaveInv, NEW g \in Gateways, NEW row, NEW x, NEW new, Commits(g, row, x, new)
    PROVE  Committed(g, row, x)
<1>1. /\ GateInv(g) /\ Written(journal) /\ Saved \in Saves /\ Saved.revision = Len(journal)
  BY SavedIsLast DEF SaveInv, JournalInv, Saved
<1>2. TxInv(gates[g]) /\ gates[g].tx # None
  <2>1. lock = g
    BY DEF Commits
  <2> QED
    BY <1>1, <2>1 DEF GateInv
<1>3. /\ gates[g].tx \in Transactions /\ gates[g].tx.command = row.command
      /\ row.command \in Commands /\ row.session \in Nat /\ row.session = gates[g].session
      /\ gates[g].session \in Opened /\ gates[g].phase # "Idle"
      /\ gates[g].tx.expected = Len(journal)
  <2>1. /\ gates[g].tx.command = row.command /\ row.session = gates[g].session
        /\ gates[g].tx.expected = Len(journal)
    BY DEF Commits
  <2>2. gates[g].tx \in Transactions /\ gates[g].phase # "Idle" /\ gates[g].session \in Opened
    BY <1>1, <1>2 DEF TxInv, GateInv
  <2> QED
    BY <1>1, <2>1, <2>2, SaveAssumption DEF Transactions, Opened, SaveInv
<1>4. \/ gates[g].tx.why = "Entry" /\ OwnRows(journal, row.session) = {}
      \/ gates[g].tx.why # "Entry" /\ \E k \in DOMAIN journal : LastOwn(row.session, k)
  BY <1>1, <1>2, <1>3 DEF TxInv, GateInv
<1>5. /\ Written(Append(journal, x)) /\ Grown(journal, x, Append(journal, x))
      /\ Stepped(Saved, row.command, row.after) /\ ValidSave(row.after)
  BY <1>1, <1>3, <1>4, JournalGrows DEF Commits
<1>6. /\ gates[g].tx.why = "Entry" => Admits(row.command)
      /\ gates[g].tx.why # "Entry" =>
             ~Admits(row.command) /\ journal # <<>>
             /\ journal[Len(journal)].session = gates[g].session
  BY <1>1, <1>3, <1>4, SessionSteps DEF Commits
<1> QED
  BY <1>1, <1>3, <1>5, <1>6 DEF Committed, Commits

\* The save after the commit, and the rows of the sessions.
LEMMA CommitSaves ==
    ASSUME NEW g, NEW row, NEW x, Committed(g, row, x)
    PROVE  /\ Saved' = row.after /\ Len(journal') = Len(journal) + 1 /\ Len(journal) \in Nat
           /\ DOMAIN journal = 1 .. Len(journal) /\ DOMAIN journal' = 1 .. Len(journal) + 1
           /\ row.after \in Saves /\ ValidSave(row.after)
           /\ row.after.revision = Len(journal) + 1
           /\ \A i \in DOMAIN journal : journal'[i] = journal[i]
           /\ journal'[Len(journal) + 1].session = gates[g].session
           /\ journal'[Len(journal) + 1].command = row.command
           /\ journal' # <<>>
           /\ \A session : OwnRows(journal', session) =
                  OwnRows(journal, session) \cup
                  (IF session = gates[g].session THEN {Len(journal) + 1} ELSE {})
<1>1. Grown(journal, x, journal') /\ Stored(row, x) /\ Stepped(Saved, row.command, row.after)
      /\ ValidSave(row.after) /\ Saved.revision = Len(journal) /\ row.session = gates[g].session
  BY DEF Committed
<1>2. /\ Len(journal) \in Nat /\ DOMAIN journal = 1 .. Len(journal)
      /\ DOMAIN journal' = 1 .. Len(journal) + 1 /\ Len(journal') = Len(journal) + 1
      /\ \A i \in DOMAIN journal : journal'[i] = journal[i]
      /\ journal'[Len(journal) + 1] = x /\ LastOf(journal') = x.after
  BY <1>1 DEF Grown
<1>3. /\ row.after \in Saves /\ row.after.revision = Len(journal) + 1
      /\ x.after = row.after /\ x.command = row.command /\ x.session = gates[g].session
  BY <1>1 DEF Stepped, Stored
<1>4. journal' # <<>>
  <2>1. Written(journal')
    BY DEF Committed
  <2> QED
    BY <1>2, <2>1, SavedIsLast
<1>5. ASSUME NEW session
      PROVE  OwnRows(journal', session) =
                 OwnRows(journal, session) \cup
                 (IF session = gates[g].session THEN {Len(journal) + 1} ELSE {})
  BY <1>2, <1>3 DEF OwnRows
<1> QED
  BY <1>1, <1>2, <1>3, <1>4, <1>5 DEF Saved

\* The new row belongs to a session that was opened.
LEMMA CommitKeepsJournal ==
    ASSUME SaveInv, NEW g \in Gateways, NEW row, NEW x, NEW new, Commits(g, row, x, new)
    PROVE  JournalInv' /\ BoardInv'
<1>1. Committed(g, row, x) /\ UNCHANGED <<board, sessions>> /\ readable'
  BY CommitWrites DEF Commits
<1>2. JournalInv /\ BoardInv
  BY DEF SaveInv
<1>3. /\ Len(journal') = Len(journal) + 1 /\ Len(journal) \in Nat
      /\ DOMAIN journal = 1 .. Len(journal) /\ DOMAIN journal' = 1 .. Len(journal) + 1
      /\ \A i \in DOMAIN journal : journal'[i] = journal[i]
      /\ journal'[Len(journal) + 1].session = gates[g].session
      /\ journal'[Len(journal) + 1].command = row.command
  BY <1>1, CommitSaves
<1>4. Written(journal') /\ gates[g].session \in Opened
  BY <1>1 DEF Committed
<1>5. JournalInv'
  <2>1. \A i \in DOMAIN journal' :
            journal'[i].session \in 1 .. MaxSessions => journal'[i].session \in Opened
    BY <1>2, <1>3, <1>4 DEF JournalInv
  <2> QED
    BY <1>1, <1>4, <2>1 DEF JournalInv, Opened
<1>6. BoardInv'
  BY <1>1, <1>2 DEF BoardInv
<1> QED
  BY <1>5, <1>6

\* The session that committed plays the save it wrote, or is over.
LEMMA CommitKeepsGate ==
    ASSUME SaveInv, NEW g \in Gateways, NEW row, NEW x, NEW new, Commits(g, row, x, new)
    PROVE  /\ GateInv(g)' /\ gates'[g] = new /\ new.phase \in {"Idle", "Playing"}
           /\ new.phase # "Idle" => new.session = gates[g].session
<1>1. /\ Committed(g, row, x) /\ UNCHANGED <<board, sessions>> /\ lock' = None
      /\ gates' = [gates EXCEPT ![g] = new]
      /\ \/ new = Idle(0)
         \/ new = [gates[g] EXCEPT !.tx = None, !.memory = row.after, !.phase = "Playing"]
  BY CommitWrites DEF Commits
<1>2. GateInv(g) /\ gates'[g] = new /\ sessions \in Nat
  BY <1>1, SaveAssumption DEF SaveInv
<1>3. /\ Saved' = row.after /\ Len(journal') = Len(journal) + 1 /\ Len(journal) \in Nat
      /\ DOMAIN journal = 1 .. Len(journal) /\ DOMAIN journal' = 1 .. Len(journal) + 1
      /\ row.after \in Saves /\ ValidSave(row.after) /\ row.after.revision = Len(journal) + 1
      /\ journal' # <<>> /\ journal'[Len(journal) + 1].session = gates[g].session
      /\ OwnRows(journal', gates[g].session) =
             OwnRows(journal, gates[g].session) \cup {Len(journal) + 1}
  BY <1>1, CommitSaves
<1>4. (lock' = g) = FALSE
  BY <1>1, NoneAssumption
<1>5. CASE new = Idle(0)
  <2>1. /\ new.phase = "Idle" /\ new.tx = None /\ new.memory = EmptySave
        /\ new.memory.revision <= Len(journal')
    BY <1>3, <1>5, EmptyIsValid DEF Idle
  <2>2. IsGate(new)'
    BY <1>1, <1>2, <1>5, EmptyIsValid DEF IsGate, Idle
  <2> QED
    BY <1>2, <1>4, <2>1, <2>2, EmptyIsValid DEF GateInv
<1>6. CASE new = [gates[g] EXCEPT !.tx = None, !.memory = row.after, !.phase = "Playing"]
  <2>1. /\ new.phase = "Playing" /\ new.tx = None /\ new.memory = row.after
        /\ new.session = gates[g].session /\ IsGate(new)
    BY <1>2, <1>3, <1>6 DEF GateInv, IsGate
  <2>2. IsGate(new)' /\ (new.session \in Opened)'
    BY <1>1, <2>1 DEF IsGate, Opened, Committed
  <2>a. PICK n : n = Len(journal) + 1
    OBVIOUS
  <2>3. LastOwn(new.session, n)'
    <3>1. \A k \in OwnRows(journal, gates[g].session) : k \in 1 .. Len(journal)
      BY <1>3 DEF OwnRows
    <3>2. n \in OwnRows(journal', new.session) /\ \A k \in OwnRows(journal', new.session) : k <= n
      BY <1>3, <2>a, <2>1, <3>1
    <3> QED
      BY <3>2 DEF LastOwn
  <2>4. Held(new)'
    <3>1. ASSUME row.after.active # None
          PROVE  row.after.active.id \in OwnRows(journal', new.session)
      <4>1. Written(journal')
        BY <1>1 DEF Committed
      <4>2. /\ row.after.active.id \in DOMAIN journal'
            /\ journal'[row.after.active.id].session = journal'[Len(journal')].session
        <5>1. PICK rows : rows = journal'
          OBVIOUS
        <5>2. Written(rows) /\ LastOf(rows) = row.after
          BY <1>3, <4>1, <5>1 DEF Saved
        <5> QED
          BY <3>1, <5>1, <5>2, ActiveIsOwned
      <4> QED
        BY <1>3, <2>1, <4>2 DEF OwnRows
    <3> QED
      BY <1>3, <2>1, <3>1 DEF Held, Current
  <2>5. \E i \in DOMAIN journal' : LastOwn(new.session, i)' /\ i <= new.memory.revision
    BY <1>3, <2>a, <2>1, <2>3
  <2> QED
    BY <1>2, <1>3, <1>4, <2>1, <2>2, <2>4, <2>5 DEF GateInv
<1> QED
  BY <1>1, <1>2, <1>5, <1>6 DEF Idle

\* A valid save knows only runs of its past.
LEMMA ActiveIsPast ==
    ASSUME NEW s \in Saves, ValidSave(s), s.active # None
    PROVE  s.active.id \in Nat /\ s.active.id <= s.revision /\ s.revision \in Nat
<1>1. ValidRun(s.active, s.revision, FALSE) /\ s.revision \in Nat
  BY DEF ValidSave, Saves
<1>2. s.active.id \in 1 .. s.revision
  BY <1>1, Zenon DEF ValidRun
<1> QED
  BY <1>1, <1>2

\* The run of another session goes on as it is, or is replaced by a newer one.
LEMMA CommitKeepsOther ==
    ASSUME SaveInv, NEW g \in Gateways, NEW row, NEW x, NEW new, Commits(g, row, x, new),
           NEW h \in Gateways, h # g
    PROVE  GateInv(h)'
<1> DEFINE gate == gates[h]
<1>1. /\ Committed(g, row, x) /\ UNCHANGED <<board, sessions>> /\ lock = g /\ lock' = None
      /\ gates' = [gates EXCEPT ![g] = new]
  BY CommitWrites DEF Commits
<1>2. GateInv(h) /\ gates'[h] = gate /\ sessions \in Nat
  BY <1>1, SaveAssumption DEF SaveInv
<1>3. /\ Saved' = row.after /\ Len(journal') = Len(journal) + 1 /\ Len(journal) \in Nat
      /\ DOMAIN journal = 1 .. Len(journal) /\ DOMAIN journal' = 1 .. Len(journal) + 1
      /\ row.after.revision = Len(journal) + 1
      /\ \A i \in DOMAIN journal : journal'[i] = journal[i]
      /\ \A session : OwnRows(journal', session) =
             OwnRows(journal, session) \cup
             (IF session = gates[g].session THEN {Len(journal) + 1} ELSE {})
  BY <1>1, CommitSaves
<1>4. gate.tx = None /\ (lock' = h) = FALSE
  BY <1>1, <1>2, NoneAssumption DEF GateInv
<1>5. gate.memory \in Saves /\ gate.memory.revision \in Nat /\ ValidSave(gate.memory)
      /\ gate.memory.revision <= Len(journal)
  BY <1>2 DEF GateInv, IsGate, Saves
<1>6. ASSUME gate.phase # "Idle"
      PROVE  /\ gate.session # gates[g].session
             /\ OwnRows(journal', gate.session) = OwnRows(journal, gate.session)
  BY <1>1, <1>3, <1>6 DEF SaveInv, Committed
<1>7. ASSUME gate.phase = "Playing", gate.memory.active # None,
             gate.memory.active.id \in OwnRows(journal, gate.session)
      PROVE  Current(gate)'
  <2>1. Stepped(Saved, row.command, row.after)
    BY <1>1 DEF Committed
  <2>2. gate.memory.active.id \in Nat /\ gate.memory.active.id <= Len(journal)
    BY <1>5, <1>7, ActiveIsPast
  <2>3. CASE Admits(row.command)
    <3>1. row.after.active.id = Len(journal) + 1
      BY <1>3, <2>1, <2>3 DEF Stepped
    <3> QED
      BY <1>2, <1>3, <2>2, <3>1 DEF Current
  <2>4. CASE ~Admits(row.command)
    <3>1. /\ Saved.active # None
          /\ row.after.active = None \/ row.after.active.id = Saved.active.id
          /\ journal[Len(journal)].session = gates[g].session
      BY <1>1, <2>1, <2>4 DEF Stepped, Committed
    <3>2. Saved.active.id > gate.memory.active.id
      <4>1. Held(gate)
        BY <1>2, <1>7 DEF GateInv
      <4> QED
        BY <1>6, <1>7, <3>1, <4>1 DEF Held, Current
    <3> QED
      BY <1>2, <1>3, <3>1, <3>2 DEF Current
  <2> QED
    BY <2>3, <2>4
<1>a. ASSUME gate.phase = "Playing" PROVE Held(gate)'
  <2>1. Held(gate) /\ OwnRows(journal', gate.session) = OwnRows(journal, gate.session)
    BY <1>2, <1>6, <1>a DEF GateInv
  <2>2. ASSUME Over(gate.session) PROVE Over(gate.session)'
    <3>1. PICK i \in OwnRows(journal, gate.session) : journal[i].after.active = None
      BY <2>2 DEF Over
    <3>2. journal'[i] = journal[i]
      BY <1>3, <3>1 DEF OwnRows
    <3> QED
      BY <1>2, <2>1, <3>1, <3>2 DEF Over
  <2> QED
    BY <1>2, <1>7, <1>a, <2>1, <2>2 DEF Held
<1>8. IsGate(gate)' /\ (gate.phase # "Idle" => (gate.session \in Opened)')
  BY <1>1, <1>2 DEF GateInv, IsGate, Opened
<1>9. ASSUME gate.phase = "Prepared"
      PROVE  /\ OwnRows(journal', gate.session) = {}
             /\ gate.entry.command \in Commands /\ gate.entry.op \in OperationNames
             /\ gate.entry.expected \in Nat
  BY <1>2, <1>6, <1>9 DEF GateInv
<1>10. ASSUME gate.phase = "Playing"
       PROVE  \E i \in DOMAIN journal' : LastOwn(gate.session, i)' /\ i <= gate.memory.revision
  <2>1. PICK i \in DOMAIN journal : LastOwn(gate.session, i) /\ i <= gate.memory.revision
    BY <1>2, <1>10 DEF GateInv
  <2>2. LastOwn(gate.session, i)'
    BY <1>2, <1>6, <1>10, <2>1 DEF LastOwn
  <2> QED
    BY <1>2, <1>3, <2>1, <2>2
<1>11. (gate.memory.revision <= Len(journal))'
  BY <1>2, <1>3, <1>5
<1> QED
  BY <1>2, <1>4, <1>5, <1>a, <1>8, <1>9, <1>10, <1>11 DEF GateInv

\* The step that adds a row keeps the invariant.
LEMMA CommitKeeps == ASSUME SaveInv, NEW g \in Gateways, Commit(g) PROVE SaveInv'
<1>1. PICK row, x, new : Commits(g, row, x, new)
  BY CommitCommits
<1>2. /\ gates' = [gates EXCEPT ![g] = new] /\ UNCHANGED <<board, sessions>> /\ lock' = None
  BY <1>1 DEF Commits
<1>3. /\ JournalInv' /\ BoardInv' /\ gates'[g] = new
      /\ new.phase # "Idle" => new.session = gates[g].session
      /\ GateInv(g)'
  BY <1>1, CommitKeepsJournal, CommitKeepsGate
<1>4. \A h \in Gateways : GateInv(h)'
  BY <1>1, <1>3, CommitKeepsOther
<1>5. /\ gates \in [Gateways -> {gates[h] : h \in Gateways}]
      /\ \A h \in Gateways \ {g} : gates'[h] = gates[h]
      /\ gates' \in [Gateways -> {gates'[h] : h \in Gateways}]
      /\ sessions \in 0 .. MaxSessions /\ gates[g].phase # "Idle"
  BY <1>1, <1>2, CommitWrites DEF SaveInv, Committed
<1>6. \A h, k \in Gateways :
          h # k /\ gates'[h].phase # "Idle" /\ gates'[k].phase # "Idle"
              => gates'[h].session # gates'[k].session
  <2>1. \A h, k \in Gateways :
            h # k /\ gates[h].phase # "Idle" /\ gates[k].phase # "Idle"
                => gates[h].session # gates[k].session
    BY DEF SaveInv
  <2>2. \A h \in Gateways : gates'[h].phase # "Idle" =>
            gates[h].phase # "Idle" /\ gates'[h].session = gates[h].session
    <3>1. new.phase # "Idle" => new.session = gates[g].session
      BY <1>3
    <3>2. ASSUME NEW h \in Gateways, gates'[h].phase # "Idle"
          PROVE  gates[h].phase # "Idle" /\ gates'[h].session = gates[h].session
      <4>1. CASE h = g
        BY <1>3, <1>5, <3>1, <3>2, <4>1
      <4>2. CASE h # g
        BY <1>5, <3>2, <4>2
      <4> QED
        BY <4>1, <4>2
    <3> QED
      BY <3>2
  <2> QED
    BY <2>1, <2>2
<1> QED
  BY <1>2, <1>3, <1>4, <1>5, <1>6 DEF SaveInv

-----------------------------------------------------------------------------
(* The theorems *)

\* A journal of earlier days, with all gateways idle, satisfies the invariant.
LEMMA InitEstablishes == Init => SaveInv
<1> SUFFICES ASSUME Init PROVE SaveInv
  OBVIOUS
<1>1. /\ journal \in Histories /\ lock = None /\ board = EmptySave /\ sessions = 0
      /\ gates = [g \in Gateways |-> Idle(0)]
  BY Zenon DEF Init
<1>2. /\ Written(journal)
      /\ \A i \in DOMAIN journal : Follows(SubSeq(journal, 1, i - 1), journal[i])
                                    /\ journal[i].session \notin 1 .. MaxSessions
  BY <1>1, HistoryAssumption
<1>3. readable
  BY <1>2, Zenon DEF Init
<1>4. MaxSessions \in Nat /\ Len(journal) \in Nat
  BY <1>2, SaveAssumption, SavedIsLast
<1>5. JournalInv
  BY <1>2, <1>3 DEF JournalInv
<1>6. BoardInv
  <2>1. Opened = {}
    BY <1>1 DEF Opened
  <2> QED
    BY <1>1, <1>4, <2>1, EmptyIsValid DEF BoardInv
<1>7. ASSUME NEW g \in Gateways PROVE GateInv(g)
  <2>1. gates[g] = Idle(0)
    BY <1>1
  <2>2. /\ Idle(0).phase = "Idle" /\ Idle(0).tx = None /\ Idle(0).memory = EmptySave
        /\ IsGate(Idle(0))
    BY <1>1, EmptyIsValid DEF Idle, IsGate
  <2>3. (lock = g) = FALSE
    BY <1>1, NoneAssumption
  <2> QED
    BY <1>4, <2>1, <2>2, <2>3, EmptyIsValid DEF GateInv
<1>8. /\ gates \in [Gateways -> {gates[g] : g \in Gateways}]
      /\ \A g \in Gateways : gates[g].phase = "Idle"
  BY <1>1 DEF Idle
<1> QED
  BY <1>1, <1>4, <1>5, <1>6, <1>7, <1>8 DEF SaveInv

\* Every step keeps the invariant.
LEMMA NextKeeps == SaveInv /\ [Next]_vars => SaveInv'
<1> SUFFICES ASSUME SaveInv, [Next]_vars PROVE SaveInv'
  OBVIOUS
<1>1. ASSUME ShowBoard PROVE SaveInv'
  BY <1>1, ShowBoardKeeps
<1>2. ASSUME NEW g \in Gateways, NEW policy \in Clients, NEW op \in Operations, NEW rules \in Offers,
             NEW again \in BOOLEAN, NEW build \in Builds,
             Prepare(g, policy, op, rules, again, build)
      PROVE  SaveInv'
  BY <1>2, PrepareKeeps
<1>3. ASSUME NEW g \in Gateways, NEW op \in Operations, NEW i \in DOMAIN journal,
             Abandon(g, op, journal[i].after)
      PROVE  SaveInv'
  BY <1>3, AbandonKeeps
<1>4. ASSUME NEW g \in Gateways,
             Enter(g) \/ World(g) \/ Disconnect(g) \/ Repeat(g) \/ Commit(g) \/ Fail(g)
      PROVE  SaveInv'
  BY <1>4, EnterKeeps, WorldKeeps, DisconnectKeeps, RepeatKeeps, CommitKeeps, FailKeeps
<1>5. CASE UNCHANGED vars
  <2>1. /\ UNCHANGED <<journal, readable, lock, gates, board, sessions>>
    BY <1>5 DEF vars
  <2>2. SaveInv /\ sessions \in Nat
    BY SaveAssumption DEF SaveInv
  <2>3. \A h \in Gateways : GateInv(h)'
    BY <2>1, <2>2, GateKept
  <2>4. JournalInv' /\ BoardInv'
    BY <2>1 DEF SaveInv, JournalInv, BoardInv, Opened
  <2> QED
    BY <2>1, <2>3, <2>4 DEF SaveInv
<1> QED
  BY <1>1, <1>2, <1>3, <1>4, <1>5 DEF Next

\* The rows are those of a journal that is read back, whatever the client repeats at whatever
\* time, however admissions race with the abandonment of a run, and wherever a transaction
\* fails; a session holds its own run as it is saved, or has ended it.
THEOREM SaveInvariant == Spec => []SaveInv
<1> QED
  BY InitEstablishes, NextKeeps, PTL DEF Spec

\* The invariant gives the soundness of the journal.
LEMMA InvAccepts == SaveInv => JournalIsAccepted
<1> SUFFICES ASSUME SaveInv PROVE JournalIsAccepted
  OBVIOUS
<1>1. Written(journal) /\ readable /\ ValidSave(board)
  BY DEF SaveInv, JournalInv, BoardInv
<1>2. ValidSave(Saved)
  BY <1>1, SavedIsLast DEF Saved
<1>3. ASSUME NEW g \in Gateways
      PROVE  /\ gates[g].phase \in {"Idle", "Prepared", "Playing"}
             /\ gates[g].session \in 0 .. sessions /\ ValidSave(gates[g].memory)
             /\ (lock = g) = (gates[g].tx # None)
  BY DEF SaveInv, GateInv, IsGate
<1>4. TypeOK
  BY <1>1, <1>2, <1>3 DEF TypeOK, SaveInv
<1> QED
  BY <1>1, <1>4, FirstsAreTold DEF JournalIsAccepted, JournalIsRead

\* Every row the character ever gets is accepted when the journal is read back, and no
\* first completion is told twice.
THEOREM JournalAccepted == Spec => []JournalIsAccepted
<1> QED
  BY SaveInvariant, InvAccepts, PTL

\* The invariant gives every run its one owner.
LEMMA InvOwns == SaveInv => RunsHaveOneOwner
<1> SUFFICES ASSUME SaveInv PROVE RunsHaveOneOwner
  OBVIOUS
<1>1. OneSessionPerRun
  BY RunsStay DEF SaveInv, JournalInv
<1>2. MemoryIsCurrent
  BY DEF SaveInv, GateInv, Held, Current, Over, MemoryIsCurrent
<1> QED
  BY <1>1, <1>2 DEF RunsHaveOneOwner

\* No two sessions act on the same run: who was admitted to one acts on the save as it is, and
\* who is told of another's by the answer to an old abandonment has ended its own.
THEOREM OneOwner == Spec => []RunsHaveOneOwner
<1> QED
  BY SaveInvariant, InvOwns, PTL

\* Only a commit changes the journal, and its command only improves records.
LEMMA StepImproves ==
    SaveInv /\ [Next]_vars =>
        [journal' # journal =>
            \A r \in Saved.records : \E q \in Saved'.records :
              q.rules = r.rules /\ (q = r \/ (r.elapsed # None /\ q.elapsed < r.elapsed))]_vars
<1> SUFFICES ASSUME SaveInv, Next, journal' # journal
             PROVE  \A r \in Saved.records : \E q \in Saved'.records :
                       q.rules = r.rules /\ (q = r \/ (r.elapsed # None /\ q.elapsed < r.elapsed))
  OBVIOUS
<1>1. \E g \in Gateways : Commit(g)
  BY DEF Next, ShowBoard, Prepare, Enter, World, Disconnect, Abandon, Begin, Repeat, Fail
<1>2. PICK g : g \in Gateways /\ Commit(g)
  BY <1>1
<1>a. PICK row, x : Committed(g, row, x)
  BY <1>2, CommitCommits, CommitWrites
<1>3. Saved' = row.after /\ Stepped(Saved, row.command, row.after)
  BY <1>a, CommitSaves DEF Committed
<1> QED
  BY <1>3 DEF Stepped, Improves

\* What a character has recorded stays, or is replaced by a faster run of the same rules.
THEOREM RecordsImprove == Spec => RecordsOnlyImprove
<1> QED
  BY SaveInvariant, StepImproves, PTL DEF Spec, RecordsOnlyImprove

-----------------------------------------------------------------------------
(* The catalog *)

\* The names of the catalog; every contract was published by one of the policies.
LEMMA CatalogNames ==
    /\ Contracts = {"CloseQuarters", "MeridianCircuit", "CoolantRecovery", "BastionLink",
                    "PrismDiscipline", "DistantSignal", "LastReserve", "RelayGauntlet"}
    /\ Presets = {"Baseline", "WestApproach", "BastionFirst", "SingleReserve", "Pace",
                  "WestApproachPace", "BastionFirstSingleReserve", "SingleReservePace"}
    /\ \A c \in Contracts : PublishedBy[c] \in 1 .. 8
  BY DEF Contracts, Presets, PublishedBy, Modifiers

\* Only the published combinations are available: sixteen of them.
Published ==
    [contract : Contracts, preset : {"Baseline"}]
    \cup [contract : {"MeridianCircuit"}, preset : {"WestApproach", "Pace", "WestApproachPace"}]
    \cup [contract : {"RelayGauntlet"},
          preset : {"BastionFirst", "SingleReserve", "Pace", "BastionFirstSingleReserve",
                    "SingleReservePace"}]

\* Whatever is available is one of them.
LEMMA AvailableIsPublished ==
    ASSUME NEW rules \in AllRules, AvailableFor(rules.preset, rules.contract)
    PROVE  rules \in Published
<1>1. /\ rules.contract \in Contracts /\ rules.preset \in Presets
      /\ rules = [contract |-> rules.contract, preset |-> rules.preset]
  BY DEF AllRules
<1>2. Modifiers[rules.preset] \subseteq AllowedModifiers(rules.contract)
  BY DEF AvailableFor
<1>3. CASE rules.preset = "Baseline"
  BY <1>1, <1>3 DEF Published
<1>4. CASE rules.preset # "Baseline"
  <2>1. /\ rules.preset \in {"WestApproach", "WestApproachPace"} => "WestApproach" \in Modifiers[rules.preset]
        /\ rules.preset \in {"BastionFirst", "BastionFirstSingleReserve"} => "BastionFirst" \in Modifiers[rules.preset]
        /\ rules.preset \in {"SingleReserve", "SingleReservePace"} => "SingleReserve" \in Modifiers[rules.preset]
        /\ rules.preset = "Pace" => "Pace" \in Modifiers[rules.preset]
    BY DEF Modifiers
  <2>2. CASE rules.contract = "MeridianCircuit"
    <3>1. AllowedModifiers(rules.contract) = {"WestApproach", "Pace"}
      BY <2>2 DEF AllowedModifiers
    <3>2. rules.preset \in {"WestApproach", "Pace", "WestApproachPace"}
      BY <1>1, <1>2, <1>4, <2>1, <3>1, CatalogNames
    <3> QED
      BY <1>1, <2>2, <3>2 DEF Published
  <2>3. CASE rules.contract = "RelayGauntlet"
    <3>1. AllowedModifiers(rules.contract) = {"BastionFirst", "SingleReserve", "Pace"}
      BY <2>3 DEF AllowedModifiers
    <3>2. rules.preset \in {"BastionFirst", "SingleReserve", "Pace", "BastionFirstSingleReserve",
                            "SingleReservePace"}
      BY <1>1, <1>2, <1>4, <2>1, <3>1, CatalogNames
    <3> QED
      BY <1>1, <2>3, <3>2 DEF Published
  <2>4. CASE rules.contract \notin {"MeridianCircuit", "RelayGauntlet"}
    <3>1. AllowedModifiers(rules.contract) = {}
      BY <2>4 DEF AllowedModifiers
    <3> QED
      BY <1>1, <1>2, <1>4, <2>1, <3>1, CatalogNames
  <2> QED
    BY <2>2, <2>3, <2>4
<1> QED
  BY <1>3, <1>4

\* They are sixteen at most.
LEMMA PublishedAreFew == IsFiniteSet(Published) /\ Cardinality(Published) <= 16
<1> DEFINE names == <<"CloseQuarters", "MeridianCircuit", "CoolantRecovery", "BastionLink",
                      "PrismDiscipline", "DistantSignal", "LastReserve", "RelayGauntlet">>
           west  == <<"WestApproach", "Pace", "WestApproachPace">>
           more  == <<"BastionFirst", "SingleReserve", "Pace", "BastionFirstSingleReserve",
                      "SingleReservePace">>
           f     == [i \in 1 .. 16 |->
                        IF i <= 8 THEN [contract |-> names[i], preset |-> "Baseline"]
                        ELSE IF i <= 11 THEN [contract |-> "MeridianCircuit", preset |-> west[i - 8]]
                        ELSE [contract |-> "RelayGauntlet", preset |-> more[i - 11]]]
<1>1. /\ \A i \in 1 .. 8 : names[i] \in Contracts
      /\ \A c \in Contracts : \E i \in 1 .. 8 : names[i] = c
  BY CatalogNames
<1>2. /\ \A i \in 1 .. 3 : west[i] \in {"WestApproach", "Pace", "WestApproachPace"}
      /\ \A p \in {"WestApproach", "Pace", "WestApproachPace"} : \E i \in 1 .. 3 : west[i] = p
  OBVIOUS
<1>3. /\ \A i \in 1 .. 5 : more[i] \in {"BastionFirst", "SingleReserve", "Pace",
                                        "BastionFirstSingleReserve", "SingleReservePace"}
      /\ \A p \in {"BastionFirst", "SingleReserve", "Pace", "BastionFirstSingleReserve",
                   "SingleReservePace"} : \E i \in 1 .. 5 : more[i] = p
  OBVIOUS
<1> HIDE DEF names, west, more
<1>4. f \in [1 .. 16 -> Published]
  <2>1. ASSUME NEW i \in 1 .. 16 PROVE f[i] \in Published
    <3>1. CASE i <= 8
      BY <1>1, <3>1 DEF Published
    <3>2. CASE i > 8 /\ i <= 11
      <4>1. i - 8 \in 1 .. 3
        BY <3>2
      <4> QED
        BY <1>2, <3>2, <4>1 DEF Published
    <3>3. CASE i > 11
      <4>1. i - 11 \in 1 .. 5
        BY <3>3
      <4> QED
        BY <1>3, <3>3, <4>1 DEF Published
    <3> QED
      BY <3>1, <3>2, <3>3
  <2> QED
    BY <2>1
<1>5. ASSUME NEW r \in Published PROVE \E i \in 1 .. 16 : f[i] = r
  <2>1. CASE r \in [contract : Contracts, preset : {"Baseline"}]
    <3>1. PICK i \in 1 .. 8 : names[i] = r.contract
      BY <1>1, <2>1
    <3>2. f[i] = r
      BY <2>1, <3>1
    <3> QED
      BY <3>2
  <2>2. CASE r \in [contract : {"MeridianCircuit"}, preset : {"WestApproach", "Pace", "WestApproachPace"}]
    <3>1. PICK i \in 1 .. 3 : west[i] = r.preset
      BY <1>2, <2>2
    <3>2. i + 8 \in 1 .. 16 /\ ~(i + 8 <= 8) /\ i + 8 <= 11 /\ i + 8 - 8 = i
      BY <3>1
    <3>3. f[i + 8] = r
      BY <2>2, <3>1, <3>2
    <3> QED
      BY <3>2, <3>3
  <2>3. CASE r \in [contract : {"RelayGauntlet"},
                    preset : {"BastionFirst", "SingleReserve", "Pace", "BastionFirstSingleReserve",
                              "SingleReservePace"}]
    <3>1. PICK i \in 1 .. 5 : more[i] = r.preset
      BY <1>3, <2>3
    <3>2. i + 11 \in 1 .. 16 /\ ~(i + 11 <= 8) /\ ~(i + 11 <= 11) /\ i + 11 - 11 = i
      BY <3>1
    <3>3. f[i + 11] = r
      BY <2>3, <3>1, <3>2
    <3> QED
      BY <3>2, <3>3
  <2> QED
    BY <2>1, <2>2, <2>3 DEF Published
<1> HIDE DEF f
<1>6. f \in Surjection(1 .. 16, Published)
  BY <1>4, <1>5 DEF Surjection
<1>7. IsFiniteSet(1 .. 16) /\ Cardinality(1 .. 16) = 16
  <2>1. 1 \in Int /\ 16 \in Int
    OBVIOUS
  <2>2. IsFiniteSet(1 .. 16) /\ Cardinality(1 .. 16) = IF 1 > 16 THEN 0 ELSE 16 - 1 + 1
    BY ONLY <2>1, FS_Interval, Zenon
  <2> QED
    BY <2>2
<1> QED
  BY <1>6, <1>7, FS_Surjection

\* Records of different rules are not more than the rules.
LEMMA RecordsAreFew ==
    ASSUME NEW records \in SUBSET Runs,
           \A r \in records : AvailableFor(r.rules.preset, r.rules.contract),
           \A r \in records : \A q \in records \ {r} : q.rules # r.rules
    PROVE  Cardinality(records) <= 16 /\ Cardinality(records) \in Nat
<1> DEFINE f == [r \in records |-> r.rules]
<1>1. f \in [records -> Published]
  <2>1. \A r \in records : r.rules \in AllRules
    BY DEF Runs
  <2>2. \A r \in records : r.rules \in Published
    BY <2>1, AvailableIsPublished
  <2> QED
    BY <2>2
<1>2. \A r, q \in records : f[r] = f[q] => r = q
  OBVIOUS
<1>3. f \in Injection(records, Published)
  BY <1>1, <1>2 DEF Injection, IsInjective
<1> HIDE DEF f
<1>4. IsFiniteSet(records) /\ Cardinality(records) <= Cardinality(Published)
  BY <1>3, PublishedAreFew, FS_Injection
<1>5. Cardinality(records) \in Nat /\ Cardinality(Published) \in Nat
  BY <1>4, PublishedAreFew, FS_CardinalityType
<1> QED
  BY <1>4, <1>5, PublishedAreFew

\* The objectives of each contract, in a list of one to four; those that are taken in order are
\* three different ones, and only the circuit ends with the way back.
Listed(rules, list) ==
    /\ \E n \in 1 .. 4 : DOMAIN list = 1 .. n
    /\ Ordered(rules) =>
          /\ DOMAIN list = 1 .. 3
          /\ list[1] # list[2] /\ list[1] # list[3] /\ list[2] # list[3]
          /\ \A i \in 1 .. 3 : list[i] # "Returned"
    /\ (\E i \in DOMAIN list : list[i] = "Returned") =>
          ~Ordered(rules) /\ DOMAIN list = 1 .. 4 /\ list[4] = "Returned"

\* The objectives of every contract and preset are listed like that.
LEMMA ObjectivesListed == \A rules \in AllRules : Listed(rules, Objectives(rules))
<1> SUFFICES ASSUME NEW rules \in AllRules PROVE Listed(rules, Objectives(rules))
  OBVIOUS
<1> DEFINE list == Objectives(rules)
<1>1. CASE rules.contract \in {"CloseQuarters", "BastionLink"}
  <2>1. /\ DOMAIN list = 1 .. 2 /\ list[1] # "Returned" /\ list[2] # "Returned"
    <3>1. CASE rules.contract = "CloseQuarters"
      BY <3>1 DEF Objectives
    <3>2. CASE rules.contract = "BastionLink"
      BY <3>2 DEF Objectives
    <3> QED
      BY <1>1, <3>1, <3>2
  <2>2. ~Ordered(rules)
    BY <1>1 DEF Ordered
  <2> HIDE DEF list
  <2>3. Listed(rules, list)
    BY <2>1, <2>2 DEF Listed
  <2> QED
    BY <2>3 DEF list
<1>2. CASE rules.contract \in {"PrismDiscipline", "DistantSignal"}
  <2>1. /\ DOMAIN list = 1 .. 1 /\ list[1] # "Returned"
    BY <1>2 DEF Objectives
  <2>2. ~Ordered(rules)
    BY <1>2 DEF Ordered
  <2> HIDE DEF list
  <2>3. Listed(rules, list)
    BY <2>1, <2>2 DEF Listed
  <2> QED
    BY <2>3 DEF list
<1>3. CASE rules.contract = "MeridianCircuit"
  <2>1. DOMAIN list = 1 .. 4 /\ list[4] = "Returned"
    BY <1>3 DEF Objectives
  <2>2. ~Ordered(rules)
    BY <1>3 DEF Ordered
  <2> HIDE DEF list
  <2>3. Listed(rules, list)
    BY <2>1, <2>2 DEF Listed
  <2> QED
    BY <2>3 DEF list
<1>4. CASE rules.contract \in {"CoolantRecovery", "LastReserve", "RelayGauntlet"}
  <2>1. /\ DOMAIN list = 1 .. 3
        /\ list[1] # list[2] /\ list[1] # list[3] /\ list[2] # list[3]
        /\ list[1] # "Returned" /\ list[2] # "Returned" /\ list[3] # "Returned"
    <3>1. CASE rules.contract = "CoolantRecovery"
      BY <3>1 DEF Objectives
    <3>2. CASE rules.contract = "LastReserve"
      BY <3>2 DEF Objectives
    <3>3. CASE rules.contract = "RelayGauntlet"
      <4>1. list = GauntletStages(rules)
        BY <3>3 DEF Objectives
      <4>2. CASE Has(rules, "BastionFirst")
        BY <4>1, <4>2 DEF GauntletStages
      <4>3. CASE ~Has(rules, "BastionFirst")
        BY <4>1, <4>3 DEF GauntletStages
      <4> QED
        BY <4>2, <4>3
    <3> QED
      BY <1>4, <3>1, <3>2, <3>3
  <2> HIDE DEF list
  <2>2. Listed(rules, list)
    BY <2>1 DEF Listed
  <2> QED
    BY <2>2 DEF list
<1>5. rules.contract \in Contracts
  BY DEF AllRules
<1> QED
  BY <1>1, <1>2, <1>3, <1>4, <1>5, CatalogNames

\* The objectives of a run are a finite set that is not empty; those taken in order are counted
\* by how far the run is, and the way back comes after all the others.
LEMMA ObjectivesCounted ==
    ASSUME NEW rules \in AllRules
    PROVE  /\ IsFiniteSet(ObjectiveSet(rules)) /\ ObjectiveSet(rules) # {}
           /\ Ordered(rules) =>
                 /\ Prefix(rules, 0) = {} /\ Prefix(rules, 3) = ObjectiveSet(rules)
                 /\ \A n \in 0 .. 3 : Cardinality(Prefix(rules, n)) = n
                 /\ \A n \in 0 .. 2 :
                       Prefix(rules, n + 1) = Prefix(rules, n) \cup {Objectives(rules)[n + 1]}
                 /\ "Returned" \notin ObjectiveSet(rules)
           /\ "Returned" \in ObjectiveSet(rules) =>
                 Prefix(rules, 3) \cup {"Returned"} = ObjectiveSet(rules)
<1>1. PICK list : list = Objectives(rules)
  OBVIOUS
<1>2. Listed(rules, list)
  BY <1>1, ObjectivesListed
<1>3. /\ ObjectiveSet(rules) = {list[i] : i \in DOMAIN list}
      /\ \A n : Prefix(rules, n) = {list[i] : i \in 1 .. n}
  BY <1>1 DEF ObjectiveSet, Prefix
<1>4. PICK n \in 1 .. 4 : DOMAIN list = 1 .. n
  BY <1>2 DEF Listed
<1>5. IsFiniteSet(ObjectiveSet(rules))
  <2> DEFINE f == [i \in 1 .. n |-> list[i]]
  <2>1. f \in Surjection(1 .. n, ObjectiveSet(rules))
    BY <1>3, <1>4 DEF Surjection
  <2>2. 1 \in Int /\ n \in Int
    BY <1>4
  <2>3. IsFiniteSet(1 .. n)
    BY <2>2, FS_Interval
  <2> HIDE DEF f
  <2> QED
    BY <2>1, <2>3, FS_Surjection
<1>6. ObjectiveSet(rules) # {}
  <2>1. 1 \in DOMAIN list
    BY <1>4
  <2> QED
    BY <1>3, <2>1
<1>7. ASSUME Ordered(rules)
      PROVE  /\ Prefix(rules, 0) = {} /\ Prefix(rules, 3) = ObjectiveSet(rules)
             /\ \A m \in 0 .. 3 : Cardinality(Prefix(rules, m)) = m
             /\ \A m \in 0 .. 2 : Prefix(rules, m + 1) = Prefix(rules, m) \cup {list[m + 1]}
             /\ "Returned" \notin ObjectiveSet(rules)
  <2>1. /\ DOMAIN list = 1 .. 3
        /\ list[1] # list[2] /\ list[1] # list[3] /\ list[2] # list[3]
        /\ \A i \in 1 .. 3 : list[i] # "Returned"
    BY <1>2, <1>7 DEF Listed
  <2>2. Prefix(rules, 3) = ObjectiveSet(rules) /\ "Returned" \notin ObjectiveSet(rules)
    BY <1>3, <2>1
  <2>3. /\ Prefix(rules, 0) = {} /\ Prefix(rules, 1) = {list[1]}
        /\ Prefix(rules, 2) = Prefix(rules, 1) \cup {list[2]}
        /\ Prefix(rules, 3) = Prefix(rules, 2) \cup {list[3]}
    BY <1>3
  <2>4. \A m \in 0 .. 2 : Prefix(rules, m + 1) = Prefix(rules, m) \cup {list[m + 1]}
    <3>1. 0 + 1 = 1 /\ 1 + 1 = 2 /\ 2 + 1 = 3 /\ 0 .. 2 = {0, 1, 2}
      OBVIOUS
    <3> QED
      BY <2>3, <3>1
  <2>5. list[2] \notin Prefix(rules, 1) /\ list[3] \notin Prefix(rules, 2)
    BY <2>1, <2>3
  <2>6. IsFiniteSet(Prefix(rules, 0)) /\ Cardinality(Prefix(rules, 0)) = 0
    BY <2>3, FS_EmptySet
  <2>7. IsFiniteSet(Prefix(rules, 1)) /\ Cardinality(Prefix(rules, 1)) = 1
    <3>1. Prefix(rules, 1) = {list[1]}
      BY <2>3
    <3>2. IsFiniteSet({list[1]}) /\ Cardinality({list[1]}) = 1
      BY ONLY FS_Singleton, Zenon
    <3> QED
      BY ONLY <3>1, <3>2, Zenon
  <2>8. IsFiniteSet(Prefix(rules, 2)) /\ Cardinality(Prefix(rules, 2)) = 2
    BY <2>3, <2>5, <2>7, FS_AddElement
  <2>9. Cardinality(Prefix(rules, 3)) = 3
    BY <2>3, <2>5, <2>8, FS_AddElement
  <2>10. \A m \in 0 .. 3 : Cardinality(Prefix(rules, m)) = m
    <3>1. 0 .. 3 = {0, 1, 2, 3}
      OBVIOUS
    <3> QED
      BY <2>6, <2>7, <2>8, <2>9, <3>1
  <2> QED
    BY <2>2, <2>3, <2>4, <2>10
<1>8. ASSUME "Returned" \in ObjectiveSet(rules)
      PROVE  Prefix(rules, 3) \cup {"Returned"} = ObjectiveSet(rules)
  <2>1. DOMAIN list = 1 .. 4 /\ list[4] = "Returned"
    BY <1>2, <1>3, <1>8 DEF Listed
  <2>2. 1 .. 4 = (1 .. 3) \cup {4}
    OBVIOUS
  <2>3. {list[i] : i \in 1 .. 4} = {list[i] : i \in 1 .. 3} \cup {list[4]}
    BY <2>2
  <2> QED
    BY <1>3, <2>1, <2>3
<1> QED
  BY <1>1, <1>5, <1>6, <1>7, <1>8

-----------------------------------------------------------------------------
(* Valid saves *)

\* What makes a run valid beside its number and the number of its objectives.
Fit(run, completed) ==
    /\ AvailableFor(run.rules.preset, run.rules.contract)
    /\ run.done \subseteq ObjectiveSet(run.rules)
    /\ (run.elapsed # None) = (completed /\ Timed(run.rules))
    /\ (run.done = ObjectiveSet(run.rules)) = completed
    /\ Ordered(run.rules) => \E n \in 0 .. 3 : run.done = Prefix(run.rules, n)
    /\ "Returned" \in run.done => completed
    /\ Equips(run.equipment, run.rules.contract)

\* A valid run is one that fits its rules, with no more objectives than revisions since it began.
LEMMA RunIsFit ==
    ASSUME NEW run, NEW revision, NEW completed
    PROVE  ValidRun(run, revision, completed) <=>
               /\ run.id \in 1 .. revision /\ Cardinality(run.done) <= revision - run.id
               /\ Fit(run, completed)
  BY Zenon DEF ValidRun, Fit

\* A valid run is available, equips the character, and has a finite set of objectives done.
LEMMA FitRun ==
    ASSUME NEW run \in Runs, NEW completed, Fit(run, completed)
    PROVE  /\ AvailableFor(run.rules.preset, run.rules.contract)
           /\ Equips(run.equipment, run.rules.contract)
           /\ IsFiniteSet(run.done) /\ Cardinality(run.done) \in Nat
<1>1. /\ AvailableFor(run.rules.preset, run.rules.contract)
      /\ Equips(run.equipment, run.rules.contract)
      /\ run.done \subseteq ObjectiveSet(run.rules)
  BY Zenon DEF Fit
<1>2. run.rules \in AllRules
  BY DEF Runs
<1>3. IsFiniteSet(ObjectiveSet(run.rules))
  BY <1>2, ObjectivesCounted
<1>4. IsFiniteSet(run.done)
  BY <1>1, <1>3, FS_Subset
<1> QED
  BY <1>1, <1>4, FS_CardinalityType

\* A run stays valid while the revisions of its save grow.
LEMMA RunStaysValid ==
    ASSUME NEW run \in Runs, NEW revision \in Nat, NEW completed, ValidRun(run, revision, completed)
    PROVE  /\ ValidRun(run, revision + 1, completed)
           /\ run.id \in Nat /\ run.id <= revision
<1>1. /\ run.id \in 1 .. revision /\ Cardinality(run.done) <= revision - run.id
      /\ Fit(run, completed)
  BY RunIsFit
<1>2. Cardinality(run.done) \in Nat
  BY <1>1, FitRun
<1>3. run.id \in 1 .. revision + 1 /\ Cardinality(run.done) <= (revision + 1) - run.id
  BY <1>1, <1>2
<1> QED
  BY <1>1, <1>3, RunIsFit

\* A run that begins is valid, and nothing of it is done.
LEMMA NewRunIsValid ==
    ASSUME NEW revision \in Nat \ {0}, NEW rules \in AllRules, NEW equipment \in Builds,
           AvailableFor(rules.preset, rules.contract), Equips(equipment, rules.contract)
    PROVE  ValidRun([id |-> revision, rules |-> rules, equipment |-> equipment,
                     done |-> {}, elapsed |-> None], revision, FALSE)
<1>1. PICK run : run = [id |-> revision, rules |-> rules, equipment |-> equipment,
                        done |-> {}, elapsed |-> None]
  OBVIOUS
<1>2. /\ run.id = revision /\ run.rules = rules /\ run.equipment = equipment
      /\ run.done = {} /\ run.elapsed = None
  BY <1>1
<1>3. ObjectiveSet(rules) # {} /\ (Ordered(rules) => Prefix(rules, 0) = {})
  BY ObjectivesCounted
<1>4. Cardinality(run.done) = 0
  BY <1>2, FS_EmptySet
<1>5. run.id \in 1 .. revision /\ Cardinality(run.done) <= revision - run.id
  BY <1>2, <1>4
<1>6. Ordered(run.rules) => \E n \in 0 .. 3 : run.done = Prefix(run.rules, n)
  <2>1. 0 \in 0 .. 3
    OBVIOUS
  <2> QED
    BY <1>2, <1>3, <2>1
<1>7. /\ (run.elapsed # None) = (FALSE /\ Timed(run.rules))
      /\ (run.done = ObjectiveSet(run.rules)) = FALSE
  BY <1>2, <1>3, Zenon
<1>8. Fit(run, FALSE)
  <2>1. /\ AvailableFor(run.rules.preset, run.rules.contract)
        /\ Equips(run.equipment, run.rules.contract)
        /\ run.done \subseteq ObjectiveSet(run.rules) /\ "Returned" \notin run.done
    BY <1>2
  <2> QED
    BY <1>6, <1>7, <2>1, Zenon DEF Fit
<1>9. ValidRun(run, revision, FALSE)
  BY <1>5, <1>8, RunIsFit
<1> QED
  BY <1>1, <1>9

\* The parts of a valid save: its run, its last result, and each record.
ActiveValid(s) == s.active # None => ValidRun(s.active, s.revision, FALSE)

LastValid(s) ==
    s.last # None =>
        /\ ValidRun(s.last.run, s.revision, s.last.outcome = "Completed")
        /\ s.active # None => s.active.id > s.last.run.id
        /\ s.last.outcome = "Completed" => Recorded(s, s.last.run.rules)

RecordValid(s, r) ==
    /\ ValidRun(r, s.revision, TRUE)
    /\ \A q \in s.records \ {r} : q.rules # r.rules /\ q.id # r.id
    /\ s.active # None => s.active.id > r.id
    /\ s.last # None /\ s.last.run.id >= r.id
    /\ s.last.run.id = r.id => s.last.run = r

Sound(s) ==
    /\ s.revision \in 0 .. MaxRevision
    /\ ActiveValid(s) /\ LastValid(s) /\ \A r \in s.records : RecordValid(s, r)

\* Every run of the save began before its revision.
Older(s) ==
    /\ s.active # None => s.active.id < s.revision
    /\ s.last # None => s.last.run.id < s.revision
    /\ \A r \in s.records : r.id < s.revision

\* A valid save is a sound one with a run in it; the bound on the records follows.
LEMMA SaveIsSound ==
    ASSUME NEW s \in Saves
    PROVE  ValidSave(s) <=> Sound(s) /\ (s.revision > 0 => s.active # None \/ s.last # None)
<1>1. ValidSave(s) => Sound(s) /\ (s.revision > 0 => s.active # None \/ s.last # None)
  BY Zenon DEF ValidSave, Sound, ActiveValid, LastValid, RecordValid, Recorded
<1>2. ASSUME Sound(s), s.revision > 0 => s.active # None \/ s.last # None
      PROVE  ValidSave(s)
  <2>1. s.records \in SUBSET Runs
    BY DEF Saves
  <2>2. ASSUME NEW r \in s.records PROVE AvailableFor(r.rules.preset, r.rules.contract)
    <3>1. RecordValid(s, r)
      BY <1>2 DEF Sound
    <3>2. ValidRun(r, s.revision, TRUE)
      BY <3>1, Zenon DEF RecordValid
    <3> QED
      BY <3>2, Zenon DEF ValidRun
  <2>3. \A r \in s.records : \A q \in s.records \ {r} : q.rules # r.rules
    BY <1>2, Zenon DEF Sound, RecordValid
  <2>4. Cardinality(s.records) <= 16
    BY <2>1, <2>2, <2>3, RecordsAreFew
  <2> QED
    BY <1>2, <2>4, Zenon DEF ValidSave, Sound, ActiveValid, LastValid, RecordValid, Recorded
<1> QED
  BY <1>1, <1>2

\* With one more revision, the runs are as they were and all older.
LEMMA NextIsSound ==
    ASSUME NEW s \in Saves, ValidSave(s), s.revision < MaxRevision
    PROVE  LET next == [s EXCEPT !.revision = @ + 1]
           IN  Sound(next) /\ Older(next) /\ next.revision \in Nat \ {0}
<1> DEFINE next == [s EXCEPT !.revision = @ + 1]
<1>1. /\ next \in Saves /\ next.revision = s.revision + 1 /\ next.active = s.active
      /\ next.last = s.last /\ next.records = s.records
  BY SaveFields
<1>2. s.revision \in Nat /\ MaxRevision \in Nat
  BY MaxRevisionAssumption DEF Saves
<1>3. Sound(s)
  BY SaveIsSound
<1> HIDE DEF next
<1>4. ActiveValid(next) /\ (next.active # None => next.active.id < next.revision)
  <2>1. CASE s.active # None
    <3>1. s.active \in Runs /\ ValidRun(s.active, s.revision, FALSE)
      BY <1>3, <2>1 DEF Saves, Sound, ActiveValid
    <3>2. /\ ValidRun(s.active, s.revision + 1, FALSE)
          /\ s.active.id \in Nat /\ s.active.id <= s.revision
      BY <1>2, <3>1, RunStaysValid
    <3>3. ValidRun(next.active, next.revision, FALSE)
      BY <1>1, <3>2, Zenon
    <3>4. next.active.id < next.revision
      BY <1>1, <1>2, <3>2
    <3> QED
      BY <3>3, <3>4, Zenon DEF ActiveValid
  <2> QED
    BY <1>1, <2>1 DEF ActiveValid
<1>5. LastValid(next) /\ (next.last # None => next.last.run.id < next.revision)
  <2>1. CASE s.last # None
    <3> DEFINE completed == s.last.outcome = "Completed"
    <3>1. /\ s.last.run \in Runs /\ ValidRun(s.last.run, s.revision, completed)
          /\ s.active # None => s.active.id > s.last.run.id
          /\ completed => Recorded(s, s.last.run.rules)
      BY <1>3, <2>1 DEF Saves, Results, Sound, LastValid
    <3> HIDE DEF completed
    <3>2. /\ ValidRun(s.last.run, s.revision + 1, completed)
          /\ s.last.run.id \in Nat /\ s.last.run.id <= s.revision
      BY <1>2, <3>1, RunStaysValid
    <3>3. Recorded(s, s.last.run.rules) => Recorded(next, next.last.run.rules)
      BY <1>1 DEF Recorded
    <3> QED
      BY <1>1, <1>2, <3>1, <3>2, <3>3 DEF LastValid, completed
  <2> QED
    BY <1>1, <2>1 DEF LastValid
<1>6. ASSUME NEW r \in next.records PROVE RecordValid(next, r) /\ r.id < next.revision
  <2>1. r \in s.records /\ r \in Runs
    BY <1>1 DEF Saves
  <2>2. RecordValid(s, r)
    BY <1>3, <2>1 DEF Sound
  <2>3. ValidRun(r, s.revision, TRUE)
    BY <2>2, Zenon DEF RecordValid
  <2>4. ValidRun(r, next.revision, TRUE) /\ r.id \in Nat /\ r.id <= s.revision
    BY <1>1, <1>2, <2>1, <2>3, RunStaysValid
  <2>5. RecordValid(next, r)
    BY <1>1, <2>2, <2>4, Zenon DEF RecordValid
  <2> QED
    BY <1>1, <1>2, <2>4, <2>5
<1>7. next.revision \in 0 .. MaxRevision /\ next.revision \in Nat \ {0}
  BY <1>1, <1>2
<1> QED
  BY <1>4, <1>5, <1>6, <1>7 DEF Sound, Older, next

\* The end of a run that was not completed leaves a sound save, with that run as its last.
LEMMA EndIsSound ==
    ASSUME NEW s \in Saves, Sound(s), Older(s), s.active # None,
           NEW outcome \in {"Interrupted", "Defeated", "Abandoned"}
    PROVE  LET n == EndRun(s, outcome)
           IN  /\ n \in Saves /\ n.revision = s.revision /\ n.active = None
               /\ Sound(n) /\ Older(n) /\ n.last # None
<1> DEFINE n == EndRun(s, outcome)
<1>1. s.active \in Runs
  BY DEF Saves
<1>2. n \in Saves /\ n.revision = s.revision /\ n.records = s.records /\ n.active = None
  BY <1>1, RunEnds
<1>3. /\ n.last = [run |-> s.active, outcome |-> outcome]
      /\ n.last.run = s.active /\ n.last.outcome = outcome /\ outcome # "Completed"
  BY DEF EndRun, Saves
<1>4. n.last # None
  <2>1. [run |-> s.active, outcome |-> outcome] \in Results
    BY <1>1 DEF Results
  <2> QED
    BY <1>3, <2>1, NoneAssumption
<1>5. s.active.id \in Nat /\ s.active.id < s.revision
  BY <1>1 DEF Older, Runs
<1> HIDE DEF n
<1>6. ValidRun(s.active, s.revision, FALSE)
  BY DEF Sound, ActiveValid
<1>7. LastValid(n)
  <2>1. (n.last.outcome = "Completed") = FALSE
    BY <1>3
  <2>2. ValidRun(n.last.run, n.revision, n.last.outcome = "Completed")
    BY <1>2, <1>3, <1>6, <2>1, Zenon
  <2> QED
    BY <1>2, <2>1, <2>2, Zenon DEF LastValid
<1>8. ASSUME NEW r \in n.records PROVE RecordValid(n, r)
  <2>1. RecordValid(s, r) /\ r \in Runs
    BY <1>2, <1>8 DEF Sound, Saves
  <2>2. s.active.id > r.id
    BY <2>1, Zenon DEF RecordValid
  <2>3. r.id \in Nat
    BY <2>1 DEF Runs
  <2>4. n.last.run.id >= r.id /\ n.last.run.id # r.id
    BY <1>3, <1>5, <2>2, <2>3
  <2> QED
    BY <1>2, <1>4, <2>1, <2>4, Zenon DEF RecordValid
<1>9. ActiveValid(n) /\ Older(n)
  BY <1>2, <1>3, <1>5 DEF ActiveValid, Older
<1>10. Sound(n)
  BY <1>2, <1>7, <1>8, <1>9 DEF Sound
<1> QED
  BY <1>2, <1>4, <1>9, <1>10 DEF n

\* A save in which a new run begins is valid.
LEMMA NewIsValid ==
    ASSUME NEW s \in Saves, Sound(s), Older(s), s.active = None, s.revision \in Nat \ {0},
           NEW rules \in AllRules, NEW equipment \in Builds,
           AvailableFor(rules.preset, rules.contract), Equips(equipment, rules.contract)
    PROVE  ValidSave(NewRun(s, rules, equipment))
<1> DEFINE n   == NewRun(s, rules, equipment)
           run == [id |-> s.revision, rules |-> rules, equipment |-> equipment,
                   done |-> {}, elapsed |-> None]
<1>1. /\ n \in Saves /\ n.revision = s.revision /\ n.records = s.records
      /\ n.active \in Runs /\ n.active.id = s.revision
  BY RunIsNew
<1>2. n.active = run /\ n.last = s.last
  BY DEF NewRun, Saves
<1>3. ValidRun(run, s.revision, FALSE)
  BY NewRunIsValid
<1> HIDE DEF n, run
<1>4. n.active # None
  BY <1>1, NoneAssumption
<1>5. ActiveValid(n)
  BY <1>1, <1>2, <1>3 DEF ActiveValid
<1>6. LastValid(n)
  <2>1. CASE s.last # None
    <3>1. s.last.run.id < s.revision /\ s.last.run.id \in Nat
      BY <2>1 DEF Older, Saves, Results, Runs
    <3>2. n.active.id > n.last.run.id
      BY <1>1, <1>2, <3>1
    <3>3. Recorded(s, s.last.run.rules) => Recorded(n, s.last.run.rules)
      BY <1>1 DEF Recorded
    <3>4. LastValid(s)
      BY DEF Sound
    <3> QED
      BY <1>1, <1>2, <2>1, <3>2, <3>3, <3>4, Zenon DEF LastValid
  <2> QED
    BY <1>2, <2>1 DEF LastValid
<1>7. ASSUME NEW r \in n.records PROVE RecordValid(n, r)
  <2>1. RecordValid(s, r) /\ r \in Runs /\ r.id < s.revision
    BY <1>1 DEF Sound, Saves, Older
  <2>2. n.active.id > r.id
    BY <1>1, <2>1 DEF Runs
  <2> QED
    BY <1>1, <1>2, <2>1, <2>2, Zenon DEF RecordValid
<1>8. Sound(n)
  BY <1>1, <1>5, <1>6, <1>7 DEF Sound
<1>9. ValidSave(n)
  BY <1>1, <1>4, <1>8, SaveIsSound
<1> QED
  BY <1>9 DEF n

\* What a start makes of a valid save is valid again.
LEMMA StartIsValid ==
    ASSUME NEW policy, NEW s \in Saves, ValidSave(s), s.revision < MaxRevision,
           NEW c \in Commands, c.kind \in {"Start", "StartModified"}, MayApply(policy, s, c)
    PROVE  ValidSave(After(s, c))
<1> DEFINE next  == [s EXCEPT !.revision = @ + 1]
           rules == Rules(c.contract, c.preset)
<1>1. After(s, c) = NewRun(next, rules, c.equipment) /\ s.active = None
  BY CommandOfKind
<1>2. AvailableFor(c.preset, c.contract) /\ Equips(c.equipment, c.contract)
  BY Zenon DEF MayApply
<1>3. /\ rules \in AllRules /\ c.equipment \in Builds
      /\ rules.preset = c.preset /\ rules.contract = c.contract
  BY CommandFields DEF Rules, AllRules
<1>4. next \in Saves /\ next.active = None
  BY <1>1, SaveFields
<1>5. Sound(next) /\ Older(next) /\ next.revision \in Nat \ {0}
  BY NextIsSound
<1> HIDE DEF next, rules
<1>6. AvailableFor(rules.preset, rules.contract) /\ Equips(c.equipment, rules.contract)
  BY <1>2, <1>3
<1>7. ValidSave(NewRun(next, rules, c.equipment))
  BY <1>3, <1>4, <1>5, <1>6, NewIsValid
<1> QED
  BY <1>1, <1>7

\* The latest run of a sound save is available.
LEMMA LatestIsAvailable ==
    ASSUME NEW s \in Saves, Sound(s), Latest(s) # None
    PROVE  Latest(s) \in Runs /\ AvailableFor(Latest(s).rules.preset, Latest(s).rules.contract)
<1>1. CASE s.active # None
  <2>1. Latest(s) = s.active
    BY <1>1 DEF Latest
  <2>2. ValidRun(s.active, s.revision, FALSE)
    BY <1>1 DEF Sound, ActiveValid
  <2> QED
    BY <2>1, <2>2, LatestIsRun, Zenon DEF ValidRun
<1>2. CASE s.active = None
  <2>1. s.last # None /\ Latest(s) = s.last.run
    BY <1>2 DEF Latest
  <2>2. ValidRun(s.last.run, s.revision, s.last.outcome = "Completed")
    BY <2>1, Zenon DEF Sound, LastValid
  <2> QED
    BY <2>1, <2>2, LatestIsRun, Zenon DEF ValidRun
<1> QED
  BY <1>1, <1>2

\* A retry of the latest run, ended first when it is still active.
LEMMA RetryIsValid ==
    ASSUME NEW policy, NEW s \in Saves, ValidSave(s), s.revision < MaxRevision,
           NEW c \in Commands, c.kind = "Retry", MayApply(policy, s, c)
    PROVE  ValidSave(After(s, c))
<1> DEFINE next  == [s EXCEPT !.revision = @ + 1]
           ended == IF next.active = None THEN next ELSE EndRun(next, "Interrupted")
           rules == Latest(next).rules
<1>1. After(s, c) = NewRun(ended, rules, c.equipment) /\ Latest(s) # None
  BY CommandOfKind DEF RetryRun
<1>2. Equips(c.equipment, Latest(s).rules.contract)
  BY Zenon DEF MayApply
<1>3. next \in Saves /\ next.active = s.active /\ next.last = s.last
  BY SaveFields
<1>4. Sound(next) /\ Older(next) /\ next.revision \in Nat \ {0}
  BY NextIsSound
<1>5. c.equipment \in Builds
  BY CommandFields
<1> HIDE DEF next
<1>6. Latest(next) = Latest(s)
  BY <1>3 DEF Latest
<1>7. rules \in AllRules /\ AvailableFor(rules.preset, rules.contract)
  <2>1. /\ Latest(next) \in Runs
        /\ AvailableFor(Latest(next).rules.preset, Latest(next).rules.contract)
    BY <1>1, <1>3, <1>4, <1>6, LatestIsAvailable
  <2> QED
    BY <2>1 DEF Runs
<1>8. /\ ended \in Saves /\ Sound(ended) /\ Older(ended) /\ ended.active = None
      /\ ended.revision \in Nat \ {0}
  <2>1. CASE next.active = None
    BY <1>3, <1>4, <2>1
  <2>2. CASE next.active # None
    <3>1. ended = EndRun(next, "Interrupted")
      BY <2>2
    <3> HIDE DEF ended
    <3>2. "Interrupted" \in {"Interrupted", "Defeated", "Abandoned"}
      OBVIOUS
    <3>3. PICK n : n = EndRun(next, "Interrupted")
      OBVIOUS
    <3>4. /\ n \in Saves /\ n.revision = next.revision /\ n.active = None
          /\ Sound(n) /\ Older(n)
      BY <1>3, <1>4, <2>2, <3>2, <3>3, EndIsSound
    <3> QED
      BY <1>4, <3>1, <3>3, <3>4
  <2> QED
    BY <2>1, <2>2
<1>9. Equips(c.equipment, rules.contract)
  BY <1>2, <1>6
<1> HIDE DEF ended, rules
<1>10. ValidSave(NewRun(ended, rules, c.equipment))
  BY <1>5, <1>7, <1>8, <1>9, NewIsValid
<1> QED
  BY <1>1, <1>10

\* An end of the active run.
LEMMA EndIsValid ==
    ASSUME NEW policy, NEW s \in Saves, ValidSave(s), s.revision < MaxRevision,
           NEW c \in Commands, c.kind = "End", MayApply(policy, s, c)
    PROVE  ValidSave(After(s, c))
<1> DEFINE next == [s EXCEPT !.revision = @ + 1]
<1>1. After(s, c) = EndRun(next, c.reason) /\ s.active # None
  BY CommandOfKind
<1>2. c.reason \in {"Interrupted", "Defeated", "Abandoned"}
  BY CommandFields
<1>3. next \in Saves /\ next.active = s.active
  BY SaveFields
<1>4. Sound(next) /\ Older(next)
  BY NextIsSound
<1> HIDE DEF next
<1>5. PICK n : n = EndRun(next, c.reason)
  OBVIOUS
<1>6. n \in Saves /\ Sound(n) /\ n.last # None
  BY <1>1, <1>2, <1>3, <1>4, <1>5, EndIsSound
<1>7. ValidSave(n)
  BY <1>6, SaveIsSound
<1> QED
  BY <1>1, <1>5, <1>7

\* The run of a confirmation: one more objective, and the time of the last one.
Confirmed(s, c) == [s.active EXCEPT !.done = @ \cup {c.objective}, !.elapsed = c.elapsed]

\* Its fields.
LEMMA ConfirmedFields ==
    ASSUME NEW s \in Saves, s.active \in Runs, NEW c \in Commands, c.kind = "Confirm"
    PROVE  LET run == Confirmed(s, c)
           IN  /\ run \in Runs /\ run.id = s.active.id /\ run.rules = s.active.rules
               /\ run.equipment = s.active.equipment /\ run.elapsed = c.elapsed
               /\ run.done = s.active.done \cup {c.objective}
<1> DEFINE first == [s.active EXCEPT !.done = @ \cup {c.objective}]
           run   == Confirmed(s, c)
<1>1. c.objective \in AllObjectives /\ c.elapsed \in Times \cup {None}
  BY CommandFields
<1>2. /\ first \in Runs /\ first.id = s.active.id /\ first.rules = s.active.rules
      /\ first.equipment = s.active.equipment /\ first.done = s.active.done \cup {c.objective}
  BY <1>1 DEF Runs
<1>3. run = [first EXCEPT !.elapsed = c.elapsed]
  BY DEF Confirmed
<1> HIDE DEF first, run
<1>4. /\ run \in Runs /\ run.id = first.id /\ run.rules = first.rules
      /\ run.equipment = first.equipment /\ run.elapsed = c.elapsed /\ run.done = first.done
  BY <1>1, <1>2, <1>3 DEF Runs
<1> QED
  BY <1>2, <1>4 DEF run

\* It is valid with the next revision, completed when no objective is left.
LEMMA ConfirmedIsValid ==
    ASSUME NEW s \in Saves, ValidSave(s), NEW c \in Commands, c.kind = "Confirm", MayConfirm(s, c)
    PROVE  ValidRun(Confirmed(s, c), s.revision + 1, Completes(s.active, c.objective))
<1> DEFINE run       == Confirmed(s, c)
           rules     == s.active.rules
           done      == s.active.done
           completed == Completes(s.active, c.objective)
<1>1. s.active # None /\ s.active \in Runs /\ rules \in AllRules /\ s.revision \in Nat
  BY DEF MayConfirm, Saves, Runs
<1>2. ValidRun(s.active, s.revision, FALSE)
  BY <1>1, SaveIsSound DEF Sound, ActiveValid
<1>3. /\ s.active.id \in 1 .. s.revision /\ Cardinality(done) <= s.revision - s.active.id
      /\ Fit(s.active, FALSE)
  BY <1>2, RunIsFit
<1>4. IsFiniteSet(done) /\ Cardinality(done) \in Nat
  BY <1>1, <1>3, FitRun
<1>5. /\ run.id = s.active.id /\ run.rules = rules /\ run.equipment = s.active.equipment
      /\ run.elapsed = c.elapsed /\ run.done = done \cup {c.objective}
  BY <1>1, ConfirmedFields
<1>6. /\ c.objective \in ObjectiveSet(rules) \ done
      /\ c.objective = "Returned" => done = Prefix(rules, 3)
      /\ Ordered(rules) => c.objective = Objectives(rules)[Cardinality(done) + 1]
      /\ (c.elapsed # None) = (completed /\ Timed(rules))
  BY Zenon DEF MayConfirm
<1>7. completed = (done \cup {c.objective} = ObjectiveSet(rules))
  BY Zenon DEF Completes
<1>8. /\ AvailableFor(rules.preset, rules.contract) /\ done \subseteq ObjectiveSet(rules)
      /\ (done = ObjectiveSet(rules)) = FALSE
      /\ Ordered(rules) => \E n \in 0 .. 3 : done = Prefix(rules, n)
      /\ "Returned" \notin done /\ Equips(s.active.equipment, rules.contract)
  BY <1>3, Zenon DEF Fit
<1> HIDE DEF run, rules, done, completed
<1>9. Cardinality(run.done) <= (s.revision + 1) - run.id /\ run.id \in 1 .. s.revision + 1
  <2>1. Cardinality(run.done) = Cardinality(done) + 1
    BY <1>4, <1>5, <1>6, FS_AddElement
  <2> QED
    BY <1>1, <1>3, <1>4, <1>5, <2>1
<1>10. ASSUME Ordered(rules) PROVE \E n \in 0 .. 3 : run.done = Prefix(rules, n)
  <2>1. PICK n \in 0 .. 3 : done = Prefix(rules, n)
    BY <1>8, <1>10
  <2>2. /\ \A m \in 0 .. 3 : Cardinality(Prefix(rules, m)) = m
        /\ Prefix(rules, 3) = ObjectiveSet(rules)
        /\ \A m \in 0 .. 2 :
              Prefix(rules, m + 1) = Prefix(rules, m) \cup {Objectives(rules)[m + 1]}
    BY <1>1, <1>10, ObjectivesCounted
  <2>3. n # 3
    BY <1>8, <2>1, <2>2
  <2>4. n \in 0 .. 2 /\ n + 1 \in 0 .. 3
    BY <2>3
  <2>5. Cardinality(done) = n
    BY <2>1, <2>2
  <2>6. c.objective = Objectives(rules)[n + 1]
    BY <1>6, <1>10, <2>5
  <2>7. run.done = Prefix(rules, n + 1)
    BY <1>5, <2>1, <2>2, <2>4, <2>6
  <2> QED
    BY <2>4, <2>7
<1>11. ASSUME "Returned" \in run.done PROVE completed
  <2>1. c.objective = "Returned"
    BY <1>5, <1>8, <1>11
  <2>2. Prefix(rules, 3) \cup {"Returned"} = ObjectiveSet(rules)
    BY <1>1, <1>6, <2>1, ObjectivesCounted
  <2> QED
    BY <1>6, <1>7, <2>1, <2>2
<1>12. run.done \subseteq ObjectiveSet(rules)
  BY <1>5, <1>6, <1>8
<1>13. /\ (run.elapsed # None) = (completed /\ Timed(run.rules))
       /\ (run.done = ObjectiveSet(run.rules)) = completed
  BY <1>5, <1>6, <1>7, Zenon
<1>14. Fit(run, completed)
  BY <1>5, <1>8, <1>10, <1>11, <1>12, <1>13, Zenon DEF Fit
<1>15. ValidRun(run, s.revision + 1, completed)
  BY <1>9, <1>14, RunIsFit, Zenon
<1> QED
  BY <1>15 DEF run, completed

\* A run that goes on leaves a valid save.
LEMMA ProgressIsValid ==
    ASSUME NEW s \in Saves, Sound(s), s.active # None,
           NEW run \in Runs, run.id = s.active.id, ValidRun(run, s.revision, FALSE)
    PROVE  ValidSave([s EXCEPT !.active = run])
<1> DEFINE n == [s EXCEPT !.active = run]
<1>1. /\ n \in Saves /\ n.revision = s.revision /\ n.active = run /\ n.last = s.last
      /\ n.records = s.records
  BY DEF Saves
<1> HIDE DEF n
<1>2. ActiveValid(n) /\ n.active # None
  BY <1>1, NoneAssumption DEF ActiveValid
<1>3. LastValid(n)
  <2>1. LastValid(s)
    BY DEF Sound
  <2>2. \A rules : Recorded(s, rules) => Recorded(n, rules)
    BY <1>1 DEF Recorded
  <2> QED
    BY <1>1, <2>1, <2>2, Zenon DEF LastValid
<1>4. ASSUME NEW r \in n.records PROVE RecordValid(n, r)
  <2>1. RecordValid(s, r)
    BY <1>1 DEF Sound
  <2> QED
    BY <1>1, <2>1, Zenon DEF RecordValid
<1>5. Sound(n)
  BY <1>1, <1>2, <1>3, <1>4 DEF Sound
<1>6. ValidSave(n)
  BY <1>1, <1>2, <1>5, SaveIsSound
<1> QED
  BY <1>6 DEF n

\* The records with a run in them: those that were there, but for slower ones of its rules.
LEMMA RecordedOnce ==
    ASSUME NEW s \in Saves, NEW run \in Runs,
           \A r \in s.records : \A q \in s.records \ {r} : q.rules # r.rules
    PROVE  LET n == Record(s, run)
           IN  /\ n.records \subseteq s.records \cup {run}
               /\ \A r, q \in n.records : r # q => r.rules # q.rules
               /\ n \in Saves /\ n.revision = s.revision /\ n.last = s.last
               /\ n.active = s.active /\ Recorded(n, run.rules)
<1> DEFINE faster == {r \in s.records : r.rules = run.rules /\ run.elapsed # None
                                           /\ run.elapsed < r.elapsed}
           n      == Record(s, run)
<1>1. \A r \in faster : r.rules = run.rules /\ r \in s.records
  OBVIOUS
<1>2. CASE Recorded(s, run.rules) /\ faster = {}
  <2>1. n = s
    BY <1>2 DEF Record
  <2> HIDE DEF n
  <2>2. \A r, q \in n.records : r # q => r.rules # q.rules
    BY <2>1
  <2> QED
    BY <1>2, <2>1, <2>2 DEF n
<1>3. CASE ~(Recorded(s, run.rules) /\ faster = {})
  <2> DEFINE records == (s.records \ faster) \cup {run}
  <2>1. n = [s EXCEPT !.records = records]
    BY <1>3 DEF Record
  <2>2. records \in SUBSET Runs /\ records \subseteq s.records \cup {run} /\ run \in records
    BY DEF Saves
  <2>3. \A r \in records : r = run \/ r.rules # run.rules
    <3>1. CASE ~Recorded(s, run.rules)
      BY <3>1 DEF Recorded
    <3>2. CASE faster # {}
      <4>1. PICK f \in faster : TRUE
        BY <3>2
      <4>2. f \in s.records /\ f.rules = run.rules
        BY <1>1
      <4>3. \A r \in s.records : r.rules = run.rules => r = f
        BY <4>2
      <4> HIDE DEF faster
      <4> QED
        BY <4>1, <4>3
    <3> QED
      BY <1>3, <3>1, <3>2
  <2>4. \A r, q \in records : r # q => r.rules # q.rules
    <3>1. \A r \in records : r = run \/ r \in s.records
      BY <2>2
    <3> HIDE DEF records
    <3> QED
      BY <2>3, <3>1
  <2> HIDE DEF records, n
  <2>5. /\ n \in Saves /\ n.revision = s.revision /\ n.active = s.active /\ n.last = s.last
        /\ n.records = records
    BY <2>1, <2>2 DEF Saves
  <2>6. Recorded(n, run.rules)
    BY <2>2, <2>5 DEF Recorded
  <2> QED
    BY <2>2, <2>4, <2>5, <2>6 DEF n
<1> QED
  BY <1>2, <1>3

\* A run that is completed leaves a valid save, with that run as its last and on record.
LEMMA CompletionIsValid ==
    ASSUME NEW s \in Saves, Sound(s), Older(s), s.active # None,
           NEW run \in Runs, run.id = s.active.id, ValidRun(run, s.revision, TRUE)
    PROVE  ValidSave(EndRun([Record(s, run) EXCEPT !.active = run], "Completed"))
<1> DEFINE kept == Record(s, run)
           both == [kept EXCEPT !.active = run]
           n    == EndRun(both, "Completed")
<1>1. /\ kept.records \subseteq s.records \cup {run}
      /\ \A r, q \in kept.records : r # q => r.rules # q.rules
      /\ kept \in Saves /\ kept.revision = s.revision /\ Recorded(kept, run.rules)
  <2>1. \A r \in s.records : \A q \in s.records \ {r} : q.rules # r.rules
    BY Zenon DEF Sound, RecordValid
  <2> QED
    BY <2>1, RecordedOnce
<1> HIDE DEF kept
<1>2. /\ both \in Saves /\ both.revision = s.revision /\ both.records = kept.records
      /\ both.active = run
  BY <1>1 DEF Saves
<1> HIDE DEF both
<1>3. /\ n \in Saves /\ n.revision = s.revision /\ n.records = kept.records /\ n.active = None
  BY <1>2, RunEnds
<1>4. n.last = [run |-> run, outcome |-> "Completed"]
  BY <1>2 DEF EndRun, Saves
<1> HIDE DEF n
<1>5. n.last.run = run /\ n.last.outcome = "Completed"
  BY <1>4
<1>6. n.last # None
  <2>1. [run |-> run, outcome |-> "Completed"] \in Results
    BY DEF Results
  <2> QED
    BY <1>4, <2>1, NoneAssumption
<1>7. LastValid(n)
  <2>1. Recorded(n, run.rules)
    BY <1>1, <1>3 DEF Recorded
  <2>2. (n.last.outcome = "Completed") = TRUE
    BY <1>5
  <2> QED
    BY <1>3, <1>5, <2>1, <2>2, Zenon DEF LastValid
<1>8. ASSUME NEW r \in s.records
      PROVE  r \in Runs /\ ValidRun(r, s.revision, TRUE) /\ run.id > r.id
  <2>1. RecordValid(s, r) /\ r \in Runs
    BY DEF Sound, Saves
  <2>2. ValidRun(r, s.revision, TRUE) /\ s.active.id > r.id
    BY <2>1, Zenon DEF RecordValid
  <2> QED
    BY <2>1, <2>2
<1>9. ASSUME NEW r \in s.records, NEW q \in s.records, r # q PROVE r.id # q.id
  <2>1. RecordValid(s, r)
    BY DEF Sound
  <2>2. q \in s.records \ {r}
    BY <1>9
  <2> QED
    BY <2>1, <2>2, Zenon DEF RecordValid
<1>10. \A r \in s.records : r.id \in Nat /\ run.id \in Nat /\ run.id > r.id /\ r.id # run.id
  <2>1. \A r \in Runs : r.id \in Nat
    BY DEF Runs
  <2>2. ASSUME NEW r \in s.records PROVE r.id \in Nat /\ run.id > r.id
    BY <1>8, <2>1
  <2> QED
    BY <2>1, <2>2
<1>11. ASSUME NEW r \in n.records PROVE RecordValid(n, r)
  <2>1. r = run \/ r \in s.records
    BY <1>1, <1>3
  <2>2. ValidRun(r, n.revision, TRUE)
    BY <1>3, <1>8, <2>1
  <2>3. ASSUME NEW q \in n.records \ {r} PROVE q.rules # r.rules /\ q.id # r.id
    <3>1. q = run \/ q \in s.records
      BY <1>1, <1>3
    <3>2. q.rules # r.rules
      BY <1>1, <1>3
    <3>3. q.id # r.id
      BY <1>9, <1>10, <2>1, <3>1
    <3> QED
      BY <3>2, <3>3
  <2>4. n.last.run.id >= r.id /\ (n.last.run.id = r.id => n.last.run = r)
    <3>1. run.id \in Nat
      BY DEF Runs
    <3> QED
      BY <1>5, <1>10, <2>1, <3>1
  <2> QED
    BY <1>3, <1>6, <2>2, <2>3, <2>4, Zenon DEF RecordValid
<1>12. n.revision \in 0 .. MaxRevision /\ ActiveValid(n)
  BY <1>3 DEF Sound, ActiveValid
<1>13. ValidSave(n)
  BY <1>3, <1>6, <1>7, <1>11, <1>12, SaveIsSound DEF Sound
<1> QED
  BY <1>13 DEF n, both, kept

\* A confirmation, of the last objective or of an earlier one.
LEMMA ConfirmIsValid ==
    ASSUME NEW policy, NEW s \in Saves, ValidSave(s), s.revision < MaxRevision,
           NEW c \in Commands, c.kind = "Confirm", MayApply(policy, s, c)
    PROVE  ValidSave(After(s, c))
<1> DEFINE next == [s EXCEPT !.revision = @ + 1]
<1>1. After(s, c) = ConfirmRun(next, c) /\ MayConfirm(s, c)
  BY CommandOfKind
<1>2. /\ next \in Saves /\ next.revision = s.revision + 1 /\ next.active = s.active
  BY SaveFields
<1>3. Sound(next) /\ Older(next)
  BY NextIsSound
<1>4. s.active # None /\ s.active \in Runs
  BY <1>1 DEF MayConfirm, Saves
<1>5. PICK run : run = Confirmed(s, c)
  OBVIOUS
<1>6. run \in Runs /\ run.id = s.active.id
  BY <1>4, <1>5, ConfirmedFields
<1>7. ValidRun(Confirmed(s, c), s.revision + 1, Completes(s.active, c.objective))
  BY <1>1, ConfirmedIsValid
<1> HIDE DEF next
<1>8. run = [next.active EXCEPT !.done = @ \cup {c.objective}, !.elapsed = c.elapsed]
  BY <1>2, <1>5 DEF Confirmed
<1>9. CASE ~Completes(s.active, c.objective)
  <2>1. Completes(s.active, c.objective) = FALSE
    BY <1>9, Zenon DEF Completes
  <2>2. ValidRun(run, next.revision, FALSE)
    BY <1>2, <1>5, <1>7, <2>1, Zenon
  <2>3. After(s, c) = [next EXCEPT !.active = run]
    BY <1>1, <1>2, <1>8, <1>9 DEF ConfirmRun
  <2>4. ValidSave([next EXCEPT !.active = run])
    BY <1>2, <1>3, <1>4, <1>6, <2>2, ProgressIsValid
  <2> QED
    BY <2>3, <2>4
<1>10. CASE Completes(s.active, c.objective)
  <2>1. Completes(s.active, c.objective) = TRUE
    BY <1>10, Zenon DEF Completes
  <2>2. ValidRun(run, next.revision, TRUE)
    BY <1>2, <1>5, <1>7, <2>1, Zenon
  <2>3. After(s, c) = EndRun([Record(next, run) EXCEPT !.active = run], "Completed")
    BY <1>1, <1>2, <1>8, <1>10 DEF ConfirmRun
  <2>4. ValidSave(EndRun([Record(next, run) EXCEPT !.active = run], "Completed"))
    BY <1>2, <1>3, <1>4, <1>6, <2>2, CompletionIsValid
  <2> QED
    BY <2>3, <2>4
<1> QED
  BY <1>9, <1>10

\* Every command that may be applied to a valid save with revisions left keeps it valid.
LEMMA CommandsKeepValid ==
    ASSUME NEW policy, NEW s \in Saves, ValidSave(s), s.revision < MaxRevision,
           NEW c \in Commands, MayApply(policy, s, c)
    PROVE  ValidSave(After(s, c))
<1>1. c.kind \in {"Start", "StartModified", "Retry", "Confirm", "End"}
  BY CommandFields
<1> QED
  BY <1>1, StartIsValid, RetryIsValid, ConfirmIsValid, EndIsValid

-----------------------------------------------------------------------------
(* A character is never stuck *)

\* The last policy knows whatever a save holds.
LEMMA ModifiedSupports ==
    ASSUME NEW s \in Saves PROVE Supports(s, Modified)
<1>1. \A run \in RunsOf(s) : run \in Runs
  BY DEF RunsOf, Saves, Results
<1>2. ASSUME NEW rules \in AllRules PROVE AvailableIn(rules, Modified)
  <2>1. PublishedBy[rules.contract] \in 1 .. 8
    BY CatalogNames DEF AllRules
  <2> QED
    BY <2>1 DEF AvailableIn, Modified
<1>3. \A run \in Runs : run.rules \in AllRules
  BY DEF Runs
<1> QED
  BY <1>1, <1>2, <1>3, Zenon DEF Supports

\* The policy chosen for a command supports the save: some policy does, the last one.
LEMMA PolicySupports ==
    ASSUME NEW s \in Saves, NEW c, c.kind \in {"Confirm", "End"}
    PROVE  Supports(s, PolicyFor(s, c))
<1> DEFINE fits(p) == /\ Supports(s, p)
                      /\ c.kind = "StartModified" => p = Modified
                      /\ c.kind = "Start" => PublishedBy[c.contract] <= p
           policy == CHOOSE p \in Policies : fits(p) /\ \A q \in 1 .. (p - 1) : ~fits(q)
<1>1. PolicyFor(s, c) = (IF \E p \in Policies : fits(p) THEN policy ELSE Modified)
  BY DEF PolicyFor
<1>2. Supports(s, Modified)
  BY ModifiedSupports
<1>3. CASE \E p \in Policies : fits(p)
  <2>1. \E p \in Policies : fits(p) /\ \A q \in 1 .. (p - 1) : ~fits(q)
    <3> HIDE DEF fits
    <3> QED
      BY <1>3 DEF Policies
  <2>2. fits(policy)
    <3> HIDE DEF fits
    <3> QED
      BY <2>1
  <2> HIDE DEF policy
  <2> QED
    BY <1>1, <1>3, <2>2
<1>4. CASE ~\E p \in Policies : fits(p)
  BY <1>1, <1>2, <1>4
<1> QED
  BY <1>3, <1>4

\* A valid save with revisions left can be played on.
LEMMA ValidIsPlayable == ASSUME Saved \in Saves, ValidSave(Saved) PROVE AlwaysPlayable
<1> SUFFICES ASSUME Saved.revision < MaxRevision PROVE AlwaysPlayable
  BY DEF AlwaysPlayable
<1>1. PICK s : s = Saved
  OBVIOUS
<1>2. s \in Saves /\ ValidSave(s) /\ s.revision < MaxRevision
  BY <1>1
<1>3. ASSUME s.active = None, NEW r \in Offers, NEW b \in Builds, Equips(b, r.contract)
      PROVE  Accepts(Modified, s, s.revision, StartOf(r.contract, r.preset, b))
  <2>1. PICK c : c = StartOf(r.contract, r.preset, b)
    OBVIOUS
  <2>2. r \in AllRules /\ AvailableFor(r.preset, r.contract)
    BY SaveAssumption
  <2>3. /\ c \in Commands /\ c.kind \in {"Start", "StartModified"}
        /\ c.contract = r.contract /\ c.preset = r.preset /\ c.equipment = b
    BY <2>1, <2>2 DEF StartOf, Commands, AllRules
  <2>4. AvailableIn(Rules(c.contract, c.preset), Modified)
    <3>1. PublishedBy[r.contract] \in 1 .. 8
      BY <2>2, CatalogNames DEF AllRules
    <3> QED
      BY <2>3, <3>1 DEF AvailableIn, Rules, Modified
  <2>5. MayApply(Modified, s, c)
    <3>1. AvailableFor(c.preset, c.contract) /\ Equips(c.equipment, c.contract)
      BY <1>3, <2>2, <2>3
    <3> QED
      BY <1>3, <2>3, <2>4, <3>1, Zenon DEF MayApply
  <2>6. ValidSave(After(s, c))
    BY <1>2, <2>3, <2>5, CommandsKeepValid
  <2> QED
    BY <1>2, <2>1, <2>5, <2>6, ModifiedSupports, Zenon DEF Accepts
<1>4. ASSUME s.active # None
      PROVE  \E b \in Builds : Accepts(Modified, s, s.revision, RetryOf(s.active.id, b))
  <2>1. s.active \in Runs /\ s.active.equipment \in Builds /\ s.active.id \in Nat
    BY <1>2, <1>4 DEF Saves, Runs
  <2>2. PICK c : c = RetryOf(s.active.id, s.active.equipment)
    OBVIOUS
  <2>3. /\ c \in Commands /\ c.kind = "Retry" /\ c.run = s.active.id
        /\ c.equipment = s.active.equipment
    BY <2>1, <2>2 DEF RetryOf, Commands
  <2>4. Latest(s) = s.active
    BY <1>4 DEF Latest
  <2>5. Equips(s.active.equipment, s.active.rules.contract)
    <3>1. ValidRun(s.active, s.revision, FALSE)
      BY <1>2, <1>4, SaveIsSound DEF Sound, ActiveValid
    <3> QED
      BY <3>1, Zenon DEF ValidRun
  <2>6. MayApply(Modified, s, c)
    BY <1>4, <2>3, <2>4, <2>5, Zenon DEF MayApply
  <2>7. ValidSave(After(s, c))
    BY <1>2, <2>3, <2>6, CommandsKeepValid
  <2>8. Accepts(Modified, s, s.revision, c)
    BY <1>2, <2>6, <2>7, ModifiedSupports, Zenon DEF Accepts
  <2> QED
    BY <2>1, <2>2, <2>8
<1>5. ASSUME s.active # None, NEW c \in Earned(Modified, s)
      PROVE  Accepts(PolicyFor(s, c), s, s.revision, c)
  <2>1. s.active \in Runs /\ s.active.id \in Nat /\ s.active.rules \in AllRules
    BY <1>2, <1>5 DEF Saves, Runs
  <2>2. /\ c \in Commands
        /\ \/ c.kind = "Confirm" /\ MayConfirm(s, c)
           \/ c.kind = "End" /\ c.run = s.active.id
    <3>1. CASE \E o \in ObjectiveSet(s.active.rules), t \in Times \cup {None} :
                  c = ConfirmOf(s.active.id, o, t) /\ MayConfirm(s, c)
      <4>1. PICK o \in ObjectiveSet(s.active.rules), t \in Times \cup {None} :
                c = ConfirmOf(s.active.id, o, t) /\ MayConfirm(s, c)
        BY <3>1
      <4>2. o \in AllObjectives
        BY <2>1 DEF AllObjectives
      <4>3. c \in Commands /\ c.kind = "Confirm"
        BY <2>1, <4>1, <4>2 DEF ConfirmOf, Commands
      <4> QED
        BY <4>1, <4>3
    <3>2. CASE c = EndOf(s.active.id, "Defeated")
      BY <2>1, <3>2 DEF EndOf, Commands
    <3> QED
      BY <1>5, <3>1, <3>2 DEF Earned
  <2>3. PICK policy : policy = PolicyFor(s, c)
    OBVIOUS
  <2>4. MayApply(policy, s, c)
    BY <1>5, <2>2, Zenon DEF MayApply
  <2>5. ValidSave(After(s, c))
    BY <1>2, <2>2, <2>4, CommandsKeepValid
  <2>6. Supports(s, policy)
    BY <1>2, <2>2, <2>3, PolicySupports
  <2> QED
    BY <1>2, <2>3, <2>4, <2>5, <2>6, Zenon DEF Accepts
<1> QED
  BY <1>1, <1>3, <1>4, <1>5, Zenon DEF AlwaysPlayable

\* A character is never stuck: with revisions left it can start or repeat what is offered,
\* and no command that a session earns is refused by the validation of its result.
THEOREM Playable == Spec => []AlwaysPlayable
<1>1. SaveInv => AlwaysPlayable
  <2> SUFFICES ASSUME SaveInv PROVE AlwaysPlayable
    OBVIOUS
  <2>1. Saved \in Saves /\ ValidSave(Saved)
    BY SavedIsLast DEF SaveInv, JournalInv, Saved
  <2> QED
    BY <2>1, ValidIsPlayable
<1> QED
  BY <1>1, SaveInvariant, PTL
-----------------------------------------------------------------------------
(* Induction over the rows of a journal *)

\* The order of the numbers is well founded.
LEMMA NumbersAreOrdered == IsWellFoundedOn({ss \in Nat \X Nat : ss[1] < ss[2]}, Nat)
  BY NatLessThanWellFounded DEF OpToRel

\* A set of numbers has a least one.
LEMMA LeastNumber ==
    ASSUME NEW T, T \subseteq Nat, T # {}
    PROVE  \E n \in T : \A m \in T : n <= m
<1> DEFINE Less == {ss \in Nat \X Nat : ss[1] < ss[2]}
<1>1. \A i, j \in Nat : i < j => <<i, j>> \in Less
  OBVIOUS
<1> HIDE DEF Less
<1>2. IsWellFoundedOn(Less, Nat)
  BY NumbersAreOrdered DEF Less
<1>3. PICK n \in T : \A m \in T : ~(<<m, n>> \in Less)
  BY <1>2, WFMin
<1>4. \A m \in T : ~(m < n)
  BY <1>1, <1>3
<1> QED
  BY <1>4

\* What holds at zero and of each number after one of which it holds, up to n, holds up to n.
LEMMA UpTo ==
    ASSUME NEW n \in Nat, NEW T, 0 \in T, \A i \in 1 .. n : i - 1 \in T => i \in T
    PROVE  \A i \in 0 .. n : i \in T
<1> DEFINE B == {i \in 0 .. n : i \notin T}
<1> SUFFICES ASSUME B # {} PROVE FALSE
  OBVIOUS
<1>a. B \subseteq Nat
  OBVIOUS
<1> HIDE DEF B
<1>b. PICK i \in B : \A k \in B : i <= k
  BY <1>a, LeastNumber
<1>1. i \in 0 .. n /\ i \notin T /\ \A k \in 0 .. n : k \notin T => i <= k
  BY <1>b DEF B
<1>2. i \in 1 .. n /\ i - 1 \in 0 .. n /\ i - 1 < i
  BY <1>1
<1>3. i - 1 \in T
  BY <1>1, <1>2
<1> QED
  BY <1>1, <1>2, <1>3

\* f is computed from v, by F at each number up to n.
Computes(f, n, v, F) == f[0] = v /\ \A i \in 1 .. n : f[i] = F[<<i, f[i - 1]>>]

\* Such a function exists.
LEMMA Recursion ==
    ASSUME NEW n \in Nat, NEW V, NEW v \in V, NEW F \in [(1 .. n) \X V -> V]
    PROVE  \E f \in [0 .. n -> V] : Computes(f, n, v, F)
<1> DEFINE T == {m \in 0 .. n : \E f \in [0 .. m -> V] : Computes(f, m, v, F)}
<1>1. 0 \in T
  <2>1. [i \in 0 .. 0 |-> v] \in [0 .. 0 -> V] /\ Computes([i \in 0 .. 0 |-> v], 0, v, F)
    BY DEF Computes
  <2> QED
    BY <2>1
<1>2. ASSUME NEW m \in 1 .. n, m - 1 \in T PROVE m \in T
  <2>1. PICK f \in [0 .. m - 1 -> V] : Computes(f, m - 1, v, F)
    BY <1>2
  <2> DEFINE g == [i \in 0 .. m |-> IF i = m THEN F[<<m, f[m - 1]>>] ELSE f[i]]
  <2>2. f[m - 1] \in V /\ <<m, f[m - 1]>> \in (1 .. n) \X V
    BY <2>1
  <2>3. F[<<m, f[m - 1]>>] \in V
    BY <2>2
  <2>4. g \in [0 .. m -> V]
    BY <2>1, <2>3
  <2>5. \A i \in 0 .. m - 1 : g[i] = f[i]
    OBVIOUS
  <2>6. g[m] = F[<<m, f[m - 1]>>]
    OBVIOUS
  <2> HIDE DEF g
  <2>7. g[0] = v
    BY <2>1, <2>5 DEF Computes
  <2>8. ASSUME NEW i \in 1 .. m PROVE g[i] = F[<<i, g[i - 1]>>]
    <3>1. i - 1 \in 0 .. m - 1 /\ g[i - 1] = f[i - 1]
      BY <2>5
    <3>2. CASE i = m
      BY <2>6, <3>1, <3>2
    <3>3. CASE i # m
      <4>1. i \in 1 .. m - 1 /\ i \in 0 .. m - 1
        BY <3>3
      <4>2. f[i] = F[<<i, f[i - 1]>>] /\ g[i] = f[i]
        BY <2>1, <2>5, <4>1 DEF Computes
      <4> QED
        BY <3>1, <4>2
    <3> QED
      BY <3>2, <3>3
  <2>9. Computes(g, m, v, F)
    BY <2>7, <2>8 DEF Computes
  <2> QED
    BY <2>4, <2>9
<1> HIDE DEF T
<1>3. n \in T
  BY <1>1, <1>2, UpTo
<1> QED
  BY <1>3 DEF T

-----------------------------------------------------------------------------
(* Mastery *)

\* Archives whose proofs are dated by numbers.
Archives == [proofs : UNION {[D -> Nat] : D \in SUBSET Goals}, last : Nat]

\* An observation adds proofs, all of the run observed, and redates none that is older.
LEMMA ObserveAdds ==
    ASSUME NEW archive \in Archives, NEW result, result.run.id \in Nat, NEW clean
    PROVE  LET new == Observe(archive, result, clean)
           IN  /\ new \in Archives
               /\ DOMAIN archive.proofs \subseteq DOMAIN new.proofs
               /\ \A g \in DOMAIN new.proofs :
                     \/ new.proofs[g] = result.run.id
                     \/ g \in DOMAIN archive.proofs /\ new.proofs[g] = archive.proofs[g]
               /\ \A g \in DOMAIN archive.proofs :
                     archive.proofs[g] <= result.run.id => new.proofs[g] = archive.proofs[g]
<1> DEFINE id     == result.run.id
           earned == {g \in Goals : Achieved(g, result, clean)}
           known  == DOMAIN archive.proofs
           proofs == [g \in known \cup earned |->
                         IF g \notin known THEN id
                         ELSE IF g \in earned /\ id < archive.proofs[g] THEN id
                         ELSE archive.proofs[g]]
           last   == IF id > archive.last THEN id ELSE archive.last
<1>1. Observe(archive, result, clean) = [proofs |-> proofs, last |-> last]
  BY DEF Observe
<1>2. archive.last \in Nat /\ \E D \in SUBSET Goals : archive.proofs \in [D -> Nat]
  BY DEF Archives
<1>3. known \in SUBSET Goals /\ archive.proofs \in [known -> Nat]
  BY <1>2
<1>4. earned \subseteq Goals /\ id \in Nat
  OBVIOUS
<1> HIDE DEF earned, known, id
<1>5. known \cup earned \in SUBSET Goals
  BY <1>3, <1>4
<1>6. proofs \in [known \cup earned -> Nat]
  BY <1>3, <1>4
<1>7. last \in Nat
  BY <1>2, <1>4
<1>8. /\ \A g \in known \cup earned : \/ proofs[g] = id
                                      \/ g \in known /\ proofs[g] = archive.proofs[g]
      /\ \A g \in known : archive.proofs[g] <= id => proofs[g] = archive.proofs[g]
  BY <1>3, <1>4
<1>9. DOMAIN proofs = known \cup earned
  OBVIOUS
<1> HIDE DEF proofs, last
<1>10. proofs \in UNION {[D -> Nat] : D \in SUBSET Goals}
  BY <1>5, <1>6
<1>11. [proofs |-> proofs, last |-> last] \in Archives
  BY <1>7, <1>10 DEF Archives
<1> QED
  BY <1>1, <1>8, <1>9, <1>11 DEF known, id

\* A run that was not completed proves nothing.
LEMMA UncompletedProvesNothing ==
    ASSUME NEW archive \in Archives, NEW result, result.outcome # "Completed", NEW clean
    PROVE  Observe(archive, result, clean).proofs = archive.proofs
<1> DEFINE id     == result.run.id
           earned == {g \in Goals : Achieved(g, result, clean)}
           known  == DOMAIN archive.proofs
<1>1. earned = {}
  BY DEF Achieved
<1>2. \E D \in SUBSET Goals : archive.proofs \in [D -> Nat]
  BY DEF Archives
<1>3. Observe(archive, result, clean).proofs
          = [g \in known \cup earned |-> IF g \notin known THEN id
                                         ELSE IF g \in earned /\ id < archive.proofs[g] THEN id
                                         ELSE archive.proofs[g]]
  BY DEF Observe
<1> HIDE DEF earned
<1> QED
  BY <1>1, <1>2, <1>3

\* What the row adds to an archive.
Adds(row, archive) ==
    IF row.after.active # None THEN archive ELSE Observe(archive, row.after.last, row.clean)

\* The archives of the rows, one after the other.
Folds(f, rows) ==
    f = [i \in 0 .. Len(rows) |-> IF i = 0 THEN NoArchive ELSE Adds(rows[i], f[i - 1])]

\* What a row leaves: a run that is active, or the last one.
LEMMA RowLeaves ==
    ASSUME NEW rows, Written(rows), NEW i \in 1 .. Len(rows)
    PROVE  /\ i \in DOMAIN rows /\ Len(rows) \in Nat /\ rows[i].after \in Saves
           /\ RowOf(rows, i) /\ Stepped(rows[i].before, rows[i].command, rows[i].after)
           /\ rows[i].before = (IF i = 1 THEN EmptySave ELSE rows[i - 1].after)
           /\ rows[i].after.active = None =>
                 /\ i > 1 /\ rows[i - 1].after.active # None
                 /\ rows[i].after.last.run.id = rows[i - 1].after.active.id
                 /\ rows[i].after.last.run.id \in 1 .. i - 1
<1>1. Len(rows) \in Nat /\ DOMAIN rows = 1 .. Len(rows) /\ \A k \in DOMAIN rows : RowOf(rows, k)
  BY WrittenRows, LenProperties
<1>2. RowOf(rows, i)
  BY <1>1
<1>3. Stepped(rows[i].before, rows[i].command, rows[i].after)
  BY <1>2, RowSteps DEF RowOf
<1>4. rows[i].before = (IF i = 1 THEN EmptySave ELSE rows[i - 1].after)
  BY <1>2 DEF RowOf
<1>5. ASSUME rows[i].after.active = None
      PROVE  /\ i > 1 /\ rows[i - 1].after.active # None
             /\ rows[i].after.last.run.id = rows[i - 1].after.active.id
             /\ rows[i].after.last.run.id \in 1 .. i - 1
  <2>1. /\ rows[i].before.active # None
        /\ rows[i].after.last.run.id = rows[i].before.active.id
    BY <1>3, <1>5 DEF Stepped
  <2>2. i # 1
    BY <1>4, <2>1 DEF EmptySave
  <2>3. rows[i].before = rows[i - 1].after /\ i - 1 \in DOMAIN rows
    BY <1>1, <1>4, <2>2
  <2>4. rows[i - 1].after.active.id \in 1 .. i - 1
    BY <1>1, <2>1, <2>3 DEF RowOf
  <2> QED
    BY <2>1, <2>2, <2>3, <2>4
<1> QED
  BY <1>1, <1>2, <1>3, <1>4, <1>5 DEF RowOf

\* The fold over a journal is one, and its archives are of their type.
LEMMA FoldExists ==
    ASSUME NEW rows, Written(rows)
    PROVE  \E f \in [0 .. Len(rows) -> Archives] : Folds(f, rows)
<1> DEFINE n == Len(rows)
           F == [x \in (1 .. n) \X Archives |-> Adds(rows[x[1]], x[2])]
<1>1. n \in Nat
  BY WrittenRows, LenProperties
<1>2. NoArchive \in Archives
  <2>1. [g \in {} |-> 0] \in [{} -> Nat]
    OBVIOUS
  <2>2. {} \in SUBSET Goals
    OBVIOUS
  <2> QED
    BY <2>1, <2>2 DEF NoArchive, Archives
<1>3. ASSUME NEW x \in (1 .. n) \X Archives PROVE Adds(rows[x[1]], x[2]) \in Archives
  <2>1. x[1] \in 1 .. n /\ x[2] \in Archives
    OBVIOUS
  <2>2. CASE rows[x[1]].after.active # None
    BY <2>1, <2>2 DEF Adds
  <2>3. CASE rows[x[1]].after.active = None
    <3>1. rows[x[1]].after.last.run.id \in Nat
      BY <2>1, <2>3, RowLeaves
    <3>2. Observe(x[2], rows[x[1]].after.last, rows[x[1]].clean) \in Archives
      BY <2>1, <3>1, ObserveAdds
    <3> QED
      BY <2>3, <3>2 DEF Adds
  <2> QED
    BY <2>2, <2>3
<1>4. F \in [(1 .. n) \X Archives -> Archives]
  BY <1>3
<1>5. \A i \in 1 .. n : \A a \in Archives : F[<<i, a>>] = Adds(rows[i], a)
  OBVIOUS
<1> HIDE DEF F
<1>6. PICK f \in [0 .. n -> Archives] : Computes(f, n, NoArchive, F)
  BY <1>1, <1>2, <1>4, Recursion
<1>7. \A i \in 1 .. n : i \in 0 .. n /\ i - 1 \in 0 .. n
  BY <1>1
<1>8. \A i \in 0 .. n : f[i] = IF i = 0 THEN NoArchive ELSE Adds(rows[i], f[i - 1])
  <2>1. ASSUME NEW i \in 1 .. n PROVE f[i] = Adds(rows[i], f[i - 1])
    <3>1. f[i - 1] \in Archives /\ f[i] = F[<<i, f[i - 1]>>]
      BY <1>6, <1>7, <2>1 DEF Computes
    <3> QED
      BY <1>5, <2>1, <3>1
  <2>2. \A i \in 0 .. n : i = 0 \/ i \in 1 .. n
    BY <1>1
  <2>3. \A i \in 1 .. n : i # 0
    OBVIOUS
  <2> HIDE DEF n
  <2> QED
    BY <1>6, <2>1, <2>2, <2>3 DEF Computes
<1>9. f = [i \in 0 .. n |-> f[i]]
  BY <1>6
<1> HIDE DEF n
<1>10. f = [i \in 0 .. n |-> IF i = 0 THEN NoArchive ELSE Adds(rows[i], f[i - 1])]
  BY <1>8, <1>9
<1> QED
  BY <1>6, <1>10 DEF Folds, n

\* `Archived' is the last archive of a fold.
LEMMA ArchivedFolds ==
    ASSUME NEW rows, Written(rows)
    PROVE  \E f : Folds(f, rows) /\ Archived(rows, NoArchive) = f[Len(rows)]
<1> DEFINE fold == CHOOSE f : Folds(f, rows)
<1>1. Folds(fold, rows)
  BY FoldExists
<1>2. Archived(rows, NoArchive) = fold[Len(rows)]
  BY DEF Archived, Folds, Adds
<1> QED
  BY <1>1, <1>2

\* The proofs of an archive are not younger than its row, or than the run that is active in it.
Dated(archive, rows, i) ==
    /\ archive \in Archives
    /\ \A g \in DOMAIN archive.proofs :
          /\ archive.proofs[g] \in Nat /\ archive.proofs[g] <= i
          /\ i > 0 /\ rows[i].after.active # None => archive.proofs[g] <= rows[i].after.active.id

\* A row keeps the archive dated, and the proofs that it has.
LEMMA AddsDated ==
    ASSUME NEW rows, Written(rows), NEW i \in 1 .. Len(rows), NEW archive,
           Dated(archive, rows, i - 1)
    PROVE  LET new == Adds(rows[i], archive)
           IN  /\ Dated(new, rows, i)
               /\ \A g \in DOMAIN archive.proofs :
                     g \in DOMAIN new.proofs /\ new.proofs[g] = archive.proofs[g]
<1>1. /\ i \in DOMAIN rows /\ Len(rows) \in Nat /\ rows[i].after \in Saves
      /\ RowOf(rows, i) /\ Stepped(rows[i].before, rows[i].command, rows[i].after)
      /\ rows[i].before = (IF i = 1 THEN EmptySave ELSE rows[i - 1].after)
  BY RowLeaves
<1>2. /\ archive \in Archives
      /\ \A g \in DOMAIN archive.proofs :
            /\ archive.proofs[g] \in Nat /\ archive.proofs[g] <= i - 1
            /\ i - 1 > 0 /\ rows[i - 1].after.active # None =>
                  archive.proofs[g] <= rows[i - 1].after.active.id
  BY DEF Dated
<1>3. CASE rows[i].after.active # None
  <2>1. Adds(rows[i], archive) = archive
    BY <1>3 DEF Adds
  <2>2. ASSUME NEW g \in DOMAIN archive.proofs
        PROVE  archive.proofs[g] <= i /\ archive.proofs[g] <= rows[i].after.active.id
    <3>1. archive.proofs[g] \in Nat /\ archive.proofs[g] <= i - 1
      BY <1>2
    <3>2. CASE Admits(rows[i].command)
      <4>1. rows[i].after.active.id = i
        BY <1>1, <3>2 DEF Stepped, RowOf
      <4> QED
        BY <3>1, <4>1
    <3>3. CASE ~Admits(rows[i].command)
      <4>1. rows[i].before.active # None /\ rows[i].after.active.id = rows[i].before.active.id
        BY <1>1, <1>3, <3>3 DEF Stepped
      <4>2. i # 1
        BY <1>1, <4>1 DEF EmptySave
      <4>3. rows[i].before = rows[i - 1].after /\ i - 1 > 0
        BY <1>1, <4>2
      <4> QED
        BY <1>2, <3>1, <4>1, <4>3
    <3> QED
      BY <3>2, <3>3
  <2> QED
    BY <1>2, <2>1, <2>2 DEF Dated
<1>4. CASE rows[i].after.active = None
  <2> DEFINE id  == rows[i].after.last.run.id
             new == Observe(archive, rows[i].after.last, rows[i].clean)
  <2>1. Adds(rows[i], archive) = new
    BY <1>4 DEF Adds
  <2>2. /\ i > 1 /\ rows[i - 1].after.active # None
        /\ id = rows[i - 1].after.active.id /\ id \in 1 .. i - 1
    BY <1>4, RowLeaves
  <2>3. \A g \in DOMAIN archive.proofs : archive.proofs[g] <= id
    BY <1>2, <2>2
  <2>4. /\ new \in Archives
        /\ DOMAIN archive.proofs \subseteq DOMAIN new.proofs
        /\ \A g \in DOMAIN new.proofs :
              new.proofs[g] = id \/ (g \in DOMAIN archive.proofs /\ new.proofs[g] = archive.proofs[g])
        /\ \A g \in DOMAIN archive.proofs :
              archive.proofs[g] <= id => new.proofs[g] = archive.proofs[g]
    BY <1>2, <2>2, ObserveAdds
  <2> HIDE DEF new, id
  <2>5. \A g \in DOMAIN new.proofs : new.proofs[g] \in Nat /\ new.proofs[g] <= i
    BY <1>2, <2>2, <2>4
  <2>6. Dated(new, rows, i)
    BY <1>4, <2>4, <2>5 DEF Dated
  <2> QED
    BY <2>1, <2>3, <2>4, <2>6
<1> QED
  BY <1>3, <1>4

\* Every archive of a fold is dated.
LEMMA FoldIsDated ==
    ASSUME NEW rows, Written(rows), NEW f, Folds(f, rows)
    PROVE  \A i \in 0 .. Len(rows) : Dated(f[i], rows, i)
<1> DEFINE n == Len(rows)
           T == {i \in 0 .. n : Dated(f[i], rows, i)}
<1>1. n \in Nat
  BY WrittenRows, LenProperties
<1>2. \A i \in 0 .. n : f[i] = IF i = 0 THEN NoArchive ELSE Adds(rows[i], f[i - 1])
  BY DEF Folds
<1>3. Dated(NoArchive, rows, 0)
  <2>1. [g \in {} |-> 0] \in [{} -> Nat]
    OBVIOUS
  <2>2. {} \in SUBSET Goals
    OBVIOUS
  <2> QED
    BY <2>1, <2>2 DEF NoArchive, Archives, Dated
<1>4. 0 \in T
  BY <1>1, <1>2, <1>3
<1>5. ASSUME NEW i \in 1 .. n, i - 1 \in T PROVE i \in T
  <2>1. Dated(f[i - 1], rows, i - 1) /\ i \in 0 .. n /\ i # 0
    BY <1>1, <1>5
  <2>2. Dated(Adds(rows[i], f[i - 1]), rows, i)
    BY <2>1, AddsDated
  <2>3. f[i] = Adds(rows[i], f[i - 1])
    BY <1>2, <2>1
  <2> QED
    BY <2>1, <2>2, <2>3
<1> HIDE DEF T
<1>6. \A i \in 0 .. n : i \in T
  BY <1>1, <1>4, <1>5, UpTo
<1> QED
  BY <1>6 DEF T

\* The fold of a journal starts with that of the rows it has grown from.
LEMMA FoldsAgree ==
    ASSUME NEW rows, NEW row, NEW new, Grown(rows, row, new),
           NEW f, Folds(f, rows), NEW h, Folds(h, new)
    PROVE  \A i \in 0 .. Len(rows) : h[i] = f[i]
<1> DEFINE n == Len(rows)
           T == {i \in 0 .. n : h[i] = f[i]}
<1>1. n \in Nat /\ DOMAIN rows = 1 .. n /\ Len(new) = n + 1 /\ \A i \in 1 .. n : new[i] = rows[i]
  BY DEF Grown
<1>2. /\ \A i \in 0 .. n : f[i] = IF i = 0 THEN NoArchive ELSE Adds(rows[i], f[i - 1])
      /\ \A i \in 0 .. n + 1 : h[i] = IF i = 0 THEN NoArchive ELSE Adds(new[i], h[i - 1])
  BY <1>1 DEF Folds
<1>3. 0 \in T
  BY <1>1, <1>2
<1>4. ASSUME NEW i \in 1 .. n, i - 1 \in T PROVE i \in T
  <2>1. h[i - 1] = f[i - 1] /\ i \in 0 .. n /\ i \in 0 .. n + 1 /\ i # 0
    BY <1>1, <1>4
  <2> QED
    BY <1>1, <1>2, <2>1
<1> HIDE DEF T
<1>5. \A i \in 0 .. n : i \in T
  BY <1>1, <1>3, <1>4, UpTo
<1> QED
  BY <1>5 DEF T

\* A last run that was not completed shows no proof that the rows do not.
LEMMA ArchiveProofs ==
    ASSUME NEW rows, Written(rows)
    PROVE  Archive(rows).proofs = Archived(rows, NoArchive).proofs
<1>1. PICK f : Folds(f, rows) /\ Archived(rows, NoArchive) = f[Len(rows)]
  BY ArchivedFolds
<1>2. Len(rows) \in Nat
  BY WrittenRows, LenProperties
<1>3. Archived(rows, NoArchive) \in Archives
  BY <1>1, <1>2, FoldIsDated DEF Dated
<1>4. CASE LastOf(rows).last # None /\ LastOf(rows).last.outcome # "Completed"
  BY <1>3, <1>4, UncompletedProvesNothing DEF Archive
<1>5. CASE ~(LastOf(rows).last # None /\ LastOf(rows).last.outcome # "Completed")
  BY <1>5 DEF Archive
<1> QED
  BY <1>4, <1>5

\* One more row keeps every proof, with its date.
LEMMA MasteryGrows ==
    ASSUME NEW rows, Written(rows), NEW row, NEW new, Written(new), Grown(rows, row, new)
    PROVE  \A g \in DOMAIN Archive(rows).proofs :
              g \in DOMAIN Archive(new).proofs /\ Archive(new).proofs[g] = Archive(rows).proofs[g]
<1>1. PICK f : Folds(f, rows) /\ Archived(rows, NoArchive) = f[Len(rows)]
  BY ArchivedFolds
<1>2. PICK h : Folds(h, new) /\ Archived(new, NoArchive) = h[Len(new)]
  BY ArchivedFolds
<1> DEFINE n == Len(rows)
<1>3. n \in Nat /\ Len(new) = n + 1
  BY DEF Grown
<1>4. h[n] = f[n]
  BY <1>1, <1>2, <1>3, FoldsAgree
<1>5. Dated(h[n], new, n)
  BY <1>2, <1>3, FoldIsDated
<1>6. h[n + 1] = Adds(new[n + 1], h[n])
  BY <1>2, <1>3 DEF Folds
<1>7. n + 1 \in 1 .. Len(new) /\ (n + 1) - 1 = n
  BY <1>3
<1>8. \A g \in DOMAIN h[n].proofs :
         g \in DOMAIN h[n + 1].proofs /\ h[n + 1].proofs[g] = h[n].proofs[g]
  BY <1>5, <1>6, <1>7, AddsDated
<1> HIDE DEF n
<1> QED
  BY <1>1, <1>2, <1>3, <1>4, <1>8, ArchiveProofs DEF n

\* Only a commit changes the journal, and its row keeps what is mastered.
LEMMA StepKeepsMastery ==
    SaveInv /\ [Next]_vars =>
        [journal' # journal =>
            LET shown == Archive(journal).proofs
                now   == Archive(journal').proofs
            IN  \A g \in DOMAIN shown : g \in DOMAIN now /\ now[g] = shown[g]]_vars
<1> SUFFICES ASSUME SaveInv, Next, journal' # journal
             PROVE  \A g \in DOMAIN Archive(journal).proofs :
                       /\ g \in DOMAIN Archive(journal').proofs
                       /\ Archive(journal').proofs[g] = Archive(journal).proofs[g]
  OBVIOUS
<1>1. \E g \in Gateways : Commit(g)
  BY DEF Next, ShowBoard, Prepare, Enter, World, Disconnect, Abandon, Begin, Repeat, Fail
<1>2. PICK g : g \in Gateways /\ Commit(g)
  BY <1>1
<1>3. PICK row, x : Committed(g, row, x)
  BY <1>2, CommitCommits, CommitWrites
<1>4. Written(journal) /\ Written(journal') /\ Grown(journal, x, journal')
  BY <1>3 DEF Committed, SaveInv, JournalInv
<1>5. PICK new : new = journal'
  OBVIOUS
<1>6. Written(new) /\ Grown(journal, x, new)
  BY <1>4, <1>5
<1> QED
  BY <1>4, <1>5, <1>6, MasteryGrows

\* Records and mastery, once earned, stay: neither retries, interruptions nor new runs take
\* them back or date them anew.
THEOREM AchievementsStay == Spec => AchievementsAreKept
<1> QED
  BY SaveInvariant, StepImproves, StepKeepsMastery, PTL
     DEF Spec, AchievementsAreKept, RecordsOnlyImprove, MasteryIsKept
=============================================================================
