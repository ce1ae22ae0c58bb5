---------------------------- MODULE ChallengeSave ----------------------------
(***************************************************************************)
(* The challenge save of one character: the journal of checkpoints in the  *)
(* database and the gateways whose sessions add to it.  A command is one   *)
(* transaction: it locks the character, reads and judges the whole         *)
(* journal, and adds a row that the replay of its session accepts.  The    *)
(* client enters with the revision its board shows, and may send any       *)
(* operation again; the world of a session confirms objectives and reports *)
(* a defeat; a connection that ends interrupts the run.  Every error of a  *)
(* command, the lost acknowledgement of a stored row included, resets the  *)
(* session and leaves the run active.                                      *)
(* Equipment is taken from the character at admission, and always agrees.  *)
(* A name that ends in an underscore is a faulty variant of a definition.  *)
(***************************************************************************)
EXTENDS ChallengeDomain

CONSTANTS
    Gateways,     \* processes that serve the character, one session each
    Operations,   \* the operation ids of the client
    Clients,      \* the policies its versions speak
    Offers,       \* the contracts and presets that are played
    Builds,       \* the equipment of the character
    Times,        \* how long a timed run may take
    Histories,    \* journals of earlier days
    MaxSessions   \* bounds the number of sessions

ASSUME SaveAssumption ==
    /\ Clients \subseteq Policies /\ MaxSessions \in Nat /\ Times \subseteq Nat
    /\ Offers \subseteq AllRules /\ \A r \in Offers : AvailableFor(r.preset, r.contract)

Runs     == [id : Nat, rules : AllRules, equipment : Builds, done : SUBSET AllObjectives,
             elapsed : Times \cup {None}]
Results  == [run : Runs, outcome : {"Completed", "Interrupted", "Defeated", "Abandoned"}]
Saves    == [revision : Nat, active : Runs \cup {None}, last : Results \cup {None},
             records : SUBSET Runs]
Commands ==
    [kind : {"Start", "StartModified"}, contract : Contracts, preset : Presets, equipment : Builds]
    \cup [kind : {"Retry"}, run : Nat, equipment : Builds]
    \cup [kind : {"Confirm"}, run : Nat, objective : AllObjectives, elapsed : Times \cup {None}]
    \cup [kind : {"End"}, run : Nat, reason : {"Interrupted", "Defeated", "Abandoned"}]

\* The client names its operations; a session names those of its own.
OperationNames == [1 .. 1 -> Operations] \cup ({"world", "disconnect"} \X Nat \X Nat)
Transactions   ==
    [why : {"Entry", "World", "Abandon", "Disconnect"}, op : OperationNames, expected : Nat,
     command : Commands, read : Nat]

\* An absent value is none that is present.
ASSUME NoneAssumption ==
    /\ None \notin Runs /\ None \notin Results /\ None \notin Times /\ None \notin Gateways
    /\ None \notin Transactions

VARIABLES
    journal,   \* the rows of the character, oldest first
    readable,  \* whether load_journal accepts them: it judges every row when it reads them
    lock,      \* the gateway whose transaction holds the character
    gates,     \* the session of each gateway
    board,     \* the save the client was shown
    sessions   \* how many sessions were opened

vars == <<journal, readable, lock, gates, board, sessions>>

Idle(n) == [session |-> n, entry |-> None, phase |-> "Idle", memory |-> EmptySave, tx |-> None]

LastOf(rows) == IF rows = <<>> THEN EmptySave ELSE rows[Len(rows)].after

Saved == LastOf(journal)

-----------------------------------------------------------------------------
(* What the database accepts *)

\* `clean': see Achieved; the events of the session decide it.
Row(session, op, before, c) ==
    [session |-> session, op |-> op, before |-> before, command |-> c,
     after |-> After(before, c), first |-> FirstCompletion(before, c), clean |-> FALSE]

Admits(c) == c.kind \in {"Start", "StartModified", "Retry"}

\* A row is what the domain makes of its command.
Transition(row) ==
    /\ Accepts(PolicyFor(row.before, row.command), row.before, row.before.revision, row.command)
    /\ row.after = After(row.before, row.command)
    /\ row.first = FirstCompletion(row.before, row.command)

OwnRows(rows, session) == {i \in DOMAIN rows : rows[i].session = session}

SessionAccepts_(rows, session) == TRUE

\* challenge_authority: one admission, then the steps of its attempt, up to its end.
SessionAccepts(rows, session) ==
    LET own == OwnRows(rows, session)
    IN  /\ \A i \in own : Admits(rows[i].command) <=> \A k \in own : i <= k
        /\ \A i, k \in own :
              k < i /\ (\A m \in own : m <= k \/ i <= m) =>
                  rows[i].before = rows[k].after /\ rows[k].after.active # None
        /\ \A i, k \in own : rows[i].op = rows[k].op => i = k

\* load_journal, for one more row.
Follows(rows, row) ==
    /\ Transition(row) /\ row.before = LastOf(rows)
    /\ ~\E i \in DOMAIN rows : rows[i].op = row.op
    /\ SessionAccepts(Append(rows, row), row.session)

\* What the rows of a journal have in common, each written when those before it were there:
\* a run has the number of the row that admitted it, and stays in the session of that row.
Written(rows) ==
    /\ rows \in Seq({rows[i] : i \in DOMAIN rows})
    /\ \A i \in DOMAIN rows :
          LET row == rows[i]
          IN  /\ row.session \in Nat /\ row.command \in Commands
              /\ row.before \in Saves /\ row.after \in Saves /\ Transition(row)
              /\ row.before = (IF i = 1 THEN EmptySave ELSE rows[i - 1].after)
              /\ row.after.revision = i
              /\ Admits(row.command) \/ (i > 1 /\ rows[i - 1].session = row.session)
              /\ row.after.active # None =>
                     LET k == row.after.active.id
                     IN  k \in 1 .. i /\ Admits(rows[k].command) /\ rows[k].session = row.session
              /\ row.first # None => \A j \in i .. Len(rows) : Recorded(rows[j].after, row.first)

\* The journals of earlier days were written by the same commands, in other sessions.
ASSUME HistoryAssumption ==
    \A rows \in Histories :
        /\ Written(rows)
        /\ \A i \in DOMAIN rows : Follows(SubSeq(rows, 1, i - 1), rows[i])
                                   /\ rows[i].session \notin 1 .. MaxSessions

Init ==
    /\ journal \in Histories
    /\ readable = \A i \in DOMAIN journal : Follows(SubSeq(journal, 1, i - 1), journal[i])
    /\ lock = None /\ board = EmptySave
    /\ gates = [g \in Gateways |-> Idle(0)] /\ sessions = 0

Archived(rows, archive) ==
    LET fold[i \in 0 .. Len(rows)] ==
            IF i = 0 THEN archive
            ELSE IF rows[i].after.active # None THEN fold[i - 1]
            ELSE Observe(fold[i - 1], rows[i].after.last, rows[i].clean)
    IN  fold[Len(rows)]

\* challenge_archive_for: a retry leaves the run it interrupts without a last row.
Archive(rows) ==
    LET s == LastOf(rows)
    IN  IF s.last # None /\ s.last.outcome # "Completed"
        THEN Observe(Archived(rows, NoArchive), s.last, FALSE)
        ELSE Archived(rows, NoArchive)

-----------------------------------------------------------------------------
(* Transactions *)

Waits(g) == lock = None /\ gates[g].tx = None

BeginUnlocked_(g, why, op, expected, c) ==
    /\ gates[g].tx = None
    /\ gates' = [gates EXCEPT ![g].tx = [why |-> why, op |-> op, expected |-> expected,
                                         command |-> c, read |-> Len(journal)]]
    /\ UNCHANGED <<journal, readable, board, sessions, lock>>

\* The character is locked before its journal is read.
Begin(g, why, op, expected, c) ==
    /\ Waits(g)
    /\ gates' = [gates EXCEPT ![g].tx = [why |-> why, op |-> op, expected |-> expected,
                                         command |-> c, read |-> Len(journal)]]
    /\ lock' = g
    /\ UNCHANGED <<journal, readable, board, sessions>>

Reset(g) == gates' = [gates EXCEPT ![g] = Idle(0)]

Unlock(g) == lock' = IF lock = g THEN None ELSE lock

\* The same operation of the same session is answered from its row.
Replayed(session, tx, row) ==
    row.op = tx.op /\ row.session = session /\ row.command = tx.command
                   /\ row.before.revision = tx.expected

\* The journal as the transaction has read it.
Read(tx) == SubSeq(journal, 1, tx.read)

Known(session, tx) == \E i \in DOMAIN Read(tx) : Replayed(session, tx, Read(tx)[i])

\* apply_challenge_with_combat: what the transaction adds, or None when it fails.
Added(session, tx) ==
    LET before == LastOf(Read(tx))
        row    == Row(session, tx.op, before, tx.command)
    IN  IF /\ ~\E i \in DOMAIN Read(tx) : Read(tx)[i].op = tx.op
           /\ readable
           /\ Accepts(PolicyFor(before, tx.command), before, tx.expected, tx.command)
           /\ SessionAccepts(Append(Read(tx), row), session)
        THEN row ELSE None

\* The session goes on with the save that was acknowledged; after a disconnect it is over.
Acknowledge(g, s) ==
    IF gates[g].tx.why = "Disconnect" THEN Reset(g)
    ELSE gates' = [gates EXCEPT ![g].tx = None, ![g].memory = s, ![g].phase = "Playing"]

Repeat(g) ==
    /\ gates[g].tx # None /\ Known(gates[g].session, gates[g].tx)
    /\ readable
    /\ Acknowledge(g, LastOf(Read(gates[g].tx)))
    /\ Unlock(g) /\ UNCHANGED <<journal, readable, board, sessions>>

\* The acknowledgement may be lost; a run that ends may have shown its mastery.
Commit(g) ==
    /\ gates[g].tx # None
    /\ LET row == Added(gates[g].session, gates[g].tx)
       IN  /\ row # None
           /\ \E clean \in IF row.after.active = None THEN BOOLEAN ELSE {FALSE} :
                 journal' = Append(journal, [row EXCEPT !.clean = clean])
           /\ readable' = Follows(journal, row)
           /\ Acknowledge(g, row.after) \/ Reset(g)
    /\ Unlock(g) /\ UNCHANGED <<board, sessions>>

\* The transaction is refused, or the database or the gateway fails.
Fail(g) ==
    /\ gates[g].phase # "Idle"
    /\ Reset(g) /\ Unlock(g)
    /\ UNCHANGED <<journal, readable, board, sessions>>

-----------------------------------------------------------------------------
(* Sessions *)

\* The client asks for its board, as any version that knows what the save holds.
ShowBoard ==
    /\ \E policy \in Clients : Supports(Saved, policy)
    /\ board # Saved /\ readable /\ board' = Saved
    /\ UNCHANGED <<journal, readable, lock, gates, sessions>>

\* The entry asks for the run the board shows: again, or for a new one.
EntryCommand(rules, again, build) ==
    IF again THEN RetryOf(Latest(board).id, build)
    ELSE StartOf(rules.contract, rules.preset, build)

\* prepare_challenge_entry, which holds no lock while the admission goes on.
Prepare(g, policy, op, rules, again, build) ==
    /\ gates[g].phase = "Idle" /\ sessions < MaxSessions
    /\ AvailableIn(rules, policy) /\ Supports(Saved, policy) /\ Saved.revision = board.revision
    /\ again => Latest(Saved) # None /\ Latest(Saved).id = Latest(board).id
                  /\ Latest(Saved).rules = rules
    /\ readable
    /\ gates' = [gates EXCEPT ![g] =
                   [session |-> sessions + 1, phase |-> "Prepared", memory |-> Saved, tx |-> None,
                    entry |-> [policy |-> policy, op |-> <<op>>, expected |-> board.revision,
                               command |-> EntryCommand(rules, again, build)]]]
    /\ sessions' = sessions + 1
    /\ UNCHANGED <<journal, readable, lock, board>>

\* commit_challenge_entry
Enter(g) ==
    /\ gates[g].phase = "Prepared"
    /\ Begin(g, "Entry", gates[g].entry.op, gates[g].entry.expected, gates[g].entry.command)

\* The operation ids of the session itself name it, and the revision they start from.
OwnOperation(g, what) == <<what, gates[g].session, gates[g].memory.revision>>

\* The world reports what the domain allows from the memory of the session.
Earned(policy, s) ==
    {c \in {ConfirmOf(s.active.id, o, t) : o \in ObjectiveSet(s.active.rules), t \in Times \cup {None}} :
        MayConfirm(s, c)}
    \cup (IF s.active.rules.contract \in {"MeridianCircuit", "CoolantRecovery"} THEN {}
          ELSE {EndOf(s.active.id, "Defeated")})

World(g) ==
    /\ gates[g].phase = "Playing" /\ gates[g].memory.active # None
    /\ \E c \in Earned(gates[g].entry.policy, gates[g].memory) :
          Begin(g, "World", OwnOperation(g, "world"), gates[g].memory.revision, c)

\* abandon_challenge: run and revision are what the client says they are; those of any save
\* it was ever shown are enough, as every other pair is refused.
Abandon(g, op, s) ==
    /\ gates[g].phase = "Playing" /\ Latest(s) # None
    /\ Begin(g, "Abandon", <<op>>, s.revision, EndOf(Latest(s).id, "Abandoned"))

\* interrupt_challenge, then the seat is free.
Disconnect(g) ==
    /\ gates[g].phase = "Playing" /\ gates[g].tx = None
    /\ IF gates[g].memory.active = None
       THEN Reset(g) /\ UNCHANGED <<journal, readable, lock, board, sessions>>
       ELSE Begin(g, "Disconnect", OwnOperation(g, "disconnect"), gates[g].memory.revision,
                  EndOf(gates[g].memory.active.id, "Interrupted"))

Next ==
    \/ ShowBoard
    \/ \E g \in Gateways :
          \/ \E policy \in Clients, op \in Operations, rules \in Offers, again \in BOOLEAN,
                build \in Builds : Prepare(g, policy, op, rules, again, build)
          \/ Enter(g) \/ World(g) \/ Disconnect(g)
          \/ \E op \in Operations, i \in DOMAIN journal : Abandon(g, op, journal[i].after)
          \/ Repeat(g)
          \/ Commit(g)
          \/ Fail(g)

Spec == Init /\ [][Next]_vars
-----------------------------------------------------------------------------
(* Properties *)

\* Every variable keeps its type; what is saved is always a valid save.
TypeOK ==
    /\ ValidSave(Saved) /\ ValidSave(board)
    /\ lock \in Gateways \cup {None} /\ sessions \in 0 .. MaxSessions
    /\ \A g \in Gateways :
          /\ gates[g].phase \in {"Idle", "Prepared", "Playing"}
          /\ gates[g].session \in 0 .. sessions /\ ValidSave(gates[g].memory)
          /\ (lock = g) = (gates[g].tx # None)

\* The journal and every session of it can be read back: were it refused once, the
\* character could neither enter a challenge nor see its board again.
JournalIsRead == readable

\* A session that plays its own run acts on the save as it is, unless that run is over for
\* the database.  It may hold the run of another, which answers an abandonment that was sent
\* again, but only after it has ended its own.
MemoryIsCurrent ==
    \A g \in Gateways :
        gates[g].phase = "Playing" /\ gates[g].memory.active # None =>
            LET own == OwnRows(journal, gates[g].session)
                id  == gates[g].memory.active.id
            IN  IF id \in own
                THEN \/ gates[g].memory = Saved
                     \/ Saved.active = None \/ Saved.active.id > id
                ELSE \E i \in own : journal[i].after.active = None

\* Every row of an attempt comes from the session that was admitted to it, whatever run
\* and revision a client names in another one.
OneSessionPerRun ==
    \A i, j \in DOMAIN journal :
        /\ ~Admits(journal[i].command) /\ Admits(journal[j].command)
        /\ journal[i].before.active # None /\ journal[j].after.active # None
        /\ journal[i].before.active.id = journal[j].after.active.id
        => journal[i].session = journal[j].session

\* The first completion of each rules is told once in the life of the character.
CompletedOnce ==
    \A i, j \in DOMAIN journal :
        journal[i].first # None /\ journal[i].first = journal[j].first => i = j

\* The journal is sound: it is of one type, is read back, and tells each first once.
JournalIsAccepted == TypeOK /\ JournalIsRead /\ CompletedOnce

\* A run belongs to one session, which plays the save as it is; another that comes to hold
\* it can add nothing.
RunsHaveOneOwner == MemoryIsCurrent /\ OneSessionPerRun

\* A record is never lost, and only a faster time replaces it.
RecordsOnlyImprove ==
    [][journal' # journal =>
        \A r \in Saved.records : \E q \in Saved'.records :
          q.rules = r.rules /\ (q = r \/ (r.elapsed # None /\ q.elapsed < r.elapsed))]_vars

\* Mastery that was shown once is kept, dated by the first run that proved it; a badge
\* never gets another date.
MasteryIsKept ==
    [][journal' # journal =>
          LET shown == Archive(journal).proofs
              now   == Archive(journal').proofs
          IN  \A g \in DOMAIN shown : g \in DOMAIN now /\ now[g] = shown[g]]_vars

\* What a character has achieved stays.
AchievementsAreKept == RecordsOnlyImprove /\ MasteryIsKept

\* A character is never stuck: with revisions left, an up-to-date client can start or repeat
\* whatever is offered, and what a session earns for the active run is never refused.
AlwaysPlayable ==
    Saved.revision < MaxRevision =>
        /\ IF Saved.active = None
           THEN \A r \in Offers, b \in Builds : Equips(b, r.contract) =>
                   Accepts(Modified, Saved, Saved.revision, StartOf(r.contract, r.preset, b))
           ELSE \E b \in Builds :
                   Accepts(Modified, Saved, Saved.revision, RetryOf(Saved.active.id, b))
        /\ Saved.active # None =>
              \A c \in Earned(Modified, Saved) :
                  Accepts(PolicyFor(Saved, c), Saved, Saved.revision, c)
=============================================================================
