------------------------------- MODULE Loadout -------------------------------
(***************************************************************************)
(* The modules and commissions of one character: fragments are earned by   *)
(* missions and commissions, spent on modules, and modules are equipped.   *)
(* Every change is one transaction under the lock of the character, which  *)
(* also writes a row of evidence; the replay of a session has to arrive at *)
(* the same save.  Rows of missions prove milestones, milestones entitle   *)
(* to commissions, and every proof is replayed whenever it is read.        *)
(* Several gateways may serve the character, each with a session of its    *)
(* own; a gateway that meets an error of the database, the lost answer of  *)
(* a committed transaction included, drops its session.                    *)
(* A name that ends in an underscore is a faulty variant of a definition.  *)
(***************************************************************************)
EXTENDS ModuleCatalog, Sequences, SequencesExt

CONSTANTS
  Gateways,       \* processes that serve the character, one session each
  Clients,        \* the catalogs its clients negotiate
  Origins,        \* saves of earlier days
  Wanted,         \* the modules the player combines
  CombineIds, LoadoutIds,   \* operation ids; a retry sends one again
  Wishes,         \* the commissions the player claims
  Missions,       \* the milestones a mission may reach
  MissionReward,  \* fragments a completed mission grants
  MaxOperations,  \* operations of a kind that are kept
  MaxRevision,    \* bounds the changes of the loadout
  MaxSessions     \* bounds the number of sessions

Milestones == {"Meridian", "Breach", "Stabilize", "Prism"}
Requirements == [Meridian |-> {"Meridian"}, Routes |-> {"Breach", "Stabilize"}, Prism |-> {"Prism"}]
Arcs == DOMAIN Requirements
Commission == 2

Save(fragments, owned, loadout, revision) ==
  [fragments |-> fragments, owned |-> owned, loadout |-> loadout, revision |-> revision]

ASSUME LoadoutAssumption ==
  /\ Clients \subseteq Catalogs /\ Wishes \subseteq Arcs /\ Wanted \subseteq All /\ Missions \subseteq SUBSET Milestones
  /\ {MissionReward, MaxOperations, MaxRevision, MaxSessions} \subseteq Nat
  /\ Origins \subseteq [fragments : Nat, owned : SUBSET All, loadout : SUBSET All, revision : Nat]
  /\ \A s \in Origins : s.loadout \subseteq s.owned /\ Canonical(s.loadout)

VARIABLES
  origin,    \* the save before the first session
  save,      \* the inventory, the modules and the equipped ones
  combines,  \* the stored combinations: operation and module
  changes,   \* the stored loadout operations: operation, expected revision and modules
  grants,    \* the sessions that were rewarded
  proofs,    \* the milestones reached, each with the session and the row that prove it
  claims,    \* the commissions paid, each with its row
  log,       \* the rows of all sessions by their ids
  gates,     \* the session of each gateway
  sessions   \* how many sessions were opened

store == <<save, combines, changes, grants, proofs, claims, log>>
vars  == <<origin, store, gates, sessions>>

-----------------------------------------------------------------------------
(* What the replay makes of the rows of a session.                         *)

\* The catalog a row is written in: the negotiated one, or the one ownership needs.
Written(client, owned) ==
  IF client \in {"Arsenal", "Build"} THEN client
  ELSE IF owned \subseteq Content THEN "Content" ELSE "Build"

\* module_replay_state: what the client owns that its catalog does not list is left out.
Evidence(client, s) ==
  LET c == Written(client, s.owned)
  IN  [catalog |-> c, state |-> [s EXCEPT !.owned = @ \cap Offered[c]]]

\* module_state_evidence_for_catalog
Valid(e) ==
  /\ e.state.loadout \subseteq e.state.owned /\ e.state.owned \subseteq Offered[e.catalog]
  /\ \A base \in Weapons(e.catalog) : Resolves(e.catalog, base, e.state.loadout)

CombinedState(s, m) == [s EXCEPT !.fragments = @ - Recipe(m), !.owned = @ \cup {m}]
EquippedState(s, L) == [s EXCEPT !.loadout = L, !.revision = @ + 1]

Row(session, kind, data) == [session |-> session, kind |-> kind, data |-> data]
Change(before, after) == [before |-> before, after |-> after]

Nobody == [admitted |-> FALSE, done |-> FALSE, rewarded |-> FALSE, milestones |-> {},
           catalog |-> "None", state |-> Save(0, {}, {}, 0), claimed |-> {}]

\* The row fits what was replayed so far.
Fits(r, row, id) ==
  CASE row.kind = "Snapshot"  -> ~ r.admitted
    [] row.kind = "Completed" -> TRUE
    [] row.kind = "Loot"      -> row.data >= r.state.fragments
    [] row.kind \in {"Combined", "Equipped"} ->
         /\ r.done /\ r.admitted
         /\ row.data.before = [catalog |-> r.catalog, state |-> r.state]
    [] row.kind = "Claimed"   ->
         /\ r.done /\ r.admitted
         /\ \A p \in row.data.proofs : p.through < id
         /\ row.data.arc \notin r.claimed
         /\ row.data.previous = r.state.fragments

Applied(r, row) ==
  CASE row.kind = "Snapshot"  -> [r EXCEPT !.admitted = TRUE, !.catalog = row.data.catalog,
                                           !.state = row.data.state]
    [] row.kind = "Completed" -> [r EXCEPT !.done = TRUE, !.milestones = row.data]
    [] row.kind = "Loot"      -> [r EXCEPT !.rewarded = TRUE, !.state.fragments = row.data]
    [] row.kind \in {"Combined", "Equipped"} -> [r EXCEPT !.state = row.data.after.state]
    [] row.kind = "Claimed"   -> [r EXCEPT !.state.fragments = row.data.previous + Commission,
                                           !.claimed = @ \cup {row.data.arc}]

\* reconstruct: the rows of the session up to an id, or NoReplay when one does not fit.
NoReplay == [Nobody EXCEPT !.catalog = "Invalid"]
Readable(r) == r # NoReplay

Replay(rows, session, last) ==
  LET step[i \in 0 .. last] ==
        IF i = 0 THEN Nobody
        ELSE LET r == step[i - 1]
             IN  IF rows[i].session # session \/ r = NoReplay THEN r
                 ELSE IF Fits(r, rows[i], i) THEN Applied(r, rows[i]) ELSE NoReplay
  IN  step[last]

\* acquisition_milestones
Reached(r) == IF r.admitted /\ r.done /\ r.rewarded THEN r.milestones ELSE {}

-----------------------------------------------------------------------------
(* Sessions.                                                               *)

Idle == [id |-> 0, phase |-> "Idle", client |-> "None", arc |-> "None"]

Becomes(g, s) == gates' = [gates EXCEPT ![g] = s]
Reset(g) == Becomes(g, Idle)

Id(g) == gates[g].id
RowsOf(id) == {i \in DOMAIN log : log[i].session = id}

Init ==
  /\ origin \in Origins /\ save = origin
  /\ combines = {} /\ changes = {} /\ grants = {} /\ proofs = {} /\ claims = {}
  /\ log = <<>> /\ gates = [g \in Gateways |-> Idle] /\ sessions = 0

\* An error of any kind, the lost answer of a committed transaction included, or the
\* end of the connection.
Leave(g) ==
  /\ gates[g].phase # "Idle"
  /\ Reset(g) /\ UNCHANGED <<origin, store, sessions>>

Equips(client, loadout) == loadout \subseteq Offered[client]

\* The handshake reads the save, before the session is asked.
Handshake(g, client) ==
  /\ gates[g].phase = "Idle" /\ Equips(client, save.loadout)
  /\ sessions < MaxSessions /\ sessions' = sessions + 1
  /\ Becomes(g, [gates[g] EXCEPT !.id = sessions + 1, !.phase = "Admitted", !.client = client])
  /\ UNCHANGED <<origin, store>>

\* The session reads it again and writes the snapshot, and then judges the loadout: who is
\* turned away leaves the snapshot in a session that nobody is in any more, and that is reset.
Join(g) ==
  LET e == Evidence(gates[g].client, save)
  IN  /\ gates[g].phase = "Admitted" /\ Valid(e)
      /\ ~ \E i \in RowsOf(Id(g)) : log[i].kind = "Snapshot"
      /\ log' = Append(log, Row(Id(g), "Snapshot", e))
      /\ Becomes(g, IF Equips(gates[g].client, save.loadout)
                     THEN [gates[g] EXCEPT !.phase = "Playing"] ELSE Idle)
      /\ UNCHANGED <<origin, save, combines, changes, grants, proofs, claims, sessions>>

LootOfMission_(fragments) == MissionReward

\* The row of a reward tells the new balance.
LootTotal(fragments) == fragments + MissionReward

\* The mission ends: its rows and its reward are one transaction, once per session.
Complete(g, reached) ==
  /\ gates[g].phase = "Playing" /\ Id(g) \notin grants
  /\ save' = [save EXCEPT !.fragments = @ + MissionReward]
  /\ grants' = grants \cup {Id(g)}
  /\ log' = log \o << Row(Id(g), "Completed", reached), Row(Id(g), "Loot", LootTotal(save.fragments)) >>
  /\ Becomes(g, [gates[g] EXCEPT !.phase = "Complete"])
  /\ UNCHANGED <<origin, combines, changes, proofs, claims, sessions>>

-----------------------------------------------------------------------------
(* Modules.                                                                *)

\* validate_module_mutation_replay_context
Ready(g) == \E i, j \in RowsOf(Id(g)) : i < j /\ log[i].kind = "Snapshot" /\ log[j].kind = "Completed"

\* The gateway refuses what the client has not negotiated, and all before the mission ends.
MayCombine(g, m) == gates[g].phase = "Complete" /\ m \in Offered[gates[g].client]
MayEquip(g, modules) == gates[g].phase = "Complete" /\ modules \in Loadouts(gates[g].client)

AlwaysAffords_(m) == TRUE
Affords(m) == save.fragments >= Recipe(m)

\* A combination that was stored answers again with its outcome and changes nothing.
Combine(g, op, m) ==
  LET e == Evidence(gates[g].client, save)
  IN  /\ MayCombine(g, m)
      /\ IF \A c \in combines : c.op # op
         THEN /\ m \notin save.owned /\ Affords(m)
              /\ Cardinality(combines) < MaxOperations
              /\ Ready(g) /\ Valid(e)
              /\ save' = CombinedState(save, m)
              /\ combines' = combines \cup {[op |-> op, module |-> m]}
              /\ log' = Append(log, Row(Id(g), "Combined",
                          Change(e, [e EXCEPT !.state = CombinedState(e.state, m)])))
         ELSE /\ [op |-> op, module |-> m] \in combines
              /\ UNCHANGED <<save, combines, log>>
      /\ Becomes(g, gates[g])
      /\ UNCHANGED <<origin, changes, grants, proofs, claims, sessions>>

StaleAllowed_(request) == request.modules # save.loadout
Expected(request) == request.revision = save.revision /\ request.modules # save.loadout

SetLoadout(g, op, revision, modules) ==
  LET e == Evidence(gates[g].client, save)
      request == [op |-> op, revision |-> revision, modules |-> modules]
  IN  /\ MayEquip(g, modules)
      /\ IF \A c \in changes : c.op # op
         THEN /\ Expected(request) /\ modules \subseteq save.owned
              /\ Cardinality(changes) < MaxOperations /\ save.revision < MaxRevision
              /\ Ready(g) /\ Valid(e)
              /\ save' = EquippedState(save, modules)
              /\ changes' = changes \cup {request}
              /\ log' = Append(log, Row(Id(g), "Equipped",
                          Change(e, [e EXCEPT !.state = EquippedState(e.state, modules)])))
         ELSE /\ request \in changes
              /\ UNCHANGED <<save, changes, log>>
      /\ Becomes(g, gates[g])
      /\ UNCHANGED <<origin, combines, grants, proofs, claims, sessions>>

-----------------------------------------------------------------------------
(* Commissions.                                                            *)

Proven(ps) == {p.milestone : p \in ps}

\* load_state: every proof and every claim is replayed before it is believed.
ProofStands(p) ==
  /\ p.through \in RowsOf(p.session)
  /\ p.session \in grants
  /\ p.milestone \in Reached(Replay(log, p.session, p.through))

ClaimStands(c) ==
  /\ log[c.id].kind = "Claimed" /\ log[c.id].data.arc = c.arc
  /\ log[c.id].data.proofs \subseteq proofs
  /\ Proven(log[c.id].data.proofs) = Requirements[c.arc]
  /\ Readable(Replay(log, log[c.id].session, c.id))

LedgersStand == (\A p \in proofs : ProofStands(p)) /\ (\A c \in claims : ClaimStands(c))

\* record_session, for the rewarded sessions in their order: a proof is never replaced.
Recorded ==
  LET ReachedIn(s) == Reached(Replay(log, s, Len(log)))
      First(m) == Min({s \in grants : m \in ReachedIn(s)})
      new == (UNION {ReachedIn(s) : s \in grants}) \ Proven(proofs)
  IN  proofs \cup {[milestone |-> m, session |-> First(m), through |-> Max(RowsOf(First(m)))] : m \in new}

\* refresh_acquisition_progress: one session that cannot be replayed fails it.
MayRefresh == (\A s \in grants : Readable(Replay(log, s, Len(log)))) /\ LedgersStand

Refresh(g, s) ==
  /\ MayRefresh /\ proofs' = Recorded /\ Becomes(g, s)
  /\ UNCHANGED <<origin, save, combines, changes, grants, claims, log, sessions>>

\* The client asks for the commissions, at any time.
Show(g) == gates[g].phase \in {"Playing", "Complete"} /\ Refresh(g, gates[g])

\* It claims one: refresh, claim and refresh are three transactions.
Claim(g, arc) == /\ gates[g].phase = "Complete"
                 /\ Refresh(g, [gates[g] EXCEPT !.phase = "Claiming", !.arc = arc])

Unclaimed(arc) == \A c \in claims : c.arc # arc

\* validate_claim_context: the balance the session arrives at is the balance of the save.
BalanceAgrees(g) ==
  LET r == Replay(log, Id(g), Len(log))
  IN  Readable(r) /\ r.done /\ r.admitted /\ r.state.fragments = save.fragments

Granted(g, arc) ==
  LET id == Len(log) + 1
      row == Row(Id(g), "Claimed", [arc |-> arc, previous |-> save.fragments,
                   proofs |-> {p \in proofs : p.milestone \in Requirements[arc]}])
  IN  /\ save' = [save EXCEPT !.fragments = @ + Commission]
      /\ log' = Append(log, row)
      /\ Readable(Replay(log', Id(g), id))
      /\ claims' = claims \cup {[arc |-> arc, id |-> id]}

\* A refused claim changes nothing, and a claimed one is granted no second time.
Grant(g) ==
  LET arc == gates[g].arc
  IN  /\ gates[g].phase = "Claiming" /\ Ready(g) /\ LedgersStand
      /\ IF Requirements[arc] \subseteq Proven(proofs)
         THEN /\ BalanceAgrees(g)
              /\ IF Unclaimed(arc) THEN Granted(g, arc) ELSE UNCHANGED <<save, log, claims>>
         ELSE UNCHANGED <<save, log, claims>>
      /\ Becomes(g, [gates[g] EXCEPT !.phase = "Telling"])
      /\ UNCHANGED <<origin, combines, changes, grants, proofs, sessions>>

Tell(g) == /\ gates[g].phase = "Telling"
           /\ Refresh(g, [gates[g] EXCEPT !.phase = "Complete", !.arc = "None"])

Next == \E g \in Gateways :
  \/ \E client \in Clients : Handshake(g, client)
  \/ Join(g) \/ Leave(g) \/ Show(g) \/ Grant(g) \/ Tell(g)
  \/ \E reached \in Missions : Complete(g, reached)
  \/ \E op \in CombineIds, m \in Wanted : Combine(g, op, m)
  \/ \E op \in LoadoutIds, n \in 0 .. save.revision, modules \in SUBSET save.owned :
       SetLoadout(g, op, n, modules)
  \/ \E arc \in Wishes : Claim(g, arc)

Spec == Init /\ [][Next]_vars

-----------------------------------------------------------------------------
(* Properties.                                                             *)

Spent == MapThenSumSet(Recipe, save.owned \ origin.owned)

\* Fragments are neither lost nor made: the balance is what was brought, earned by
\* missions and commissions, less the recipes of the modules, whatever was retried,
\* lost or done by two gateways at a time (persistence/src/lib.rs combine_module_internal,
\* apply_completion_reward; persistence/src/acquisition.rs claim_acquisition_with_replay).
FragmentsAreConserved ==
  /\ save.fragments \in Nat
  /\ save.fragments = origin.fragments + MissionReward * Cardinality(grants)
                        + Commission * Cardinality(claims) - Spent

\* What is stored is always believed when it is read: every proof and every claim still
\* replays, no commission is paid twice or without its milestones, each new module and
\* each revision has its operation, and the save loads (acquisition.rs load_state,
\* lib.rs load_persisted_module_state).
LedgersAreBelieved ==
  /\ LedgersStand
  /\ \A c \in claims : \A d \in claims : c.arc = d.arc => c = d
  /\ \A m \in save.owned \ origin.owned : \E c \in combines : c.module = m
  /\ \A c, d \in combines : c.op = d.op => c = d
  /\ save.revision = origin.revision + Cardinality(changes)
  /\ Canonical(save.loadout) /\ save.loadout \subseteq save.owned

\* The catalog alone, judged before the first session (see EveryBuildResolves).
CatalogIsSound == sessions = 0 => EveryBuildResolves

\* The books of a character balance and are believed, and the catalog they are kept with
\* is sound.
BooksAreSound == CatalogIsSound /\ FragmentsAreConserved /\ LedgersAreBelieved

ChangesSave(i) == log[i].kind \in {"Loot", "Combined", "Equipped", "Claimed"}

\* A session loses its evidence only to another one: as long as no other session changes
\* the save while it lasts, the replay reads all its rows and arrives at the stored save,
\* so that crafting, claiming and refreshing never fail (replay/src/lib.rs reconstruct).
EvidenceBreaksOnlyByOverlap ==
  \A s \in 1 .. sessions :
    LET rows == RowsOf(s)
        alone == \A i \in DOMAIN log :
                    i > Min(rows) /\ log[i].session # s /\ ChangesSave(i) => i > Max(rows)
        last  == \A i \in DOMAIN log : ChangesSave(i) => i <= Max(rows)
        r == Replay(log, s, Len(log))
    IN  rows # {} /\ alone =>
          /\ Readable(r)
          /\ last => /\ r.state.fragments = save.fragments
                     /\ r.state.loadout = save.loadout /\ r.state.revision = save.revision
                     /\ r.state.owned = save.owned \cap Offered[r.catalog]

\* Nothing is taken back: modules, rewards, proofs, claims and operations stay, a proof is
\* never replaced, and the loadout changes only with its revision and only for a client
\* that has seen the one before (modules/src/lib.rs set_loadout).
NothingIsTakenBack ==
  [][/\ save.owned \subseteq save'.owned /\ grants \subseteq grants'
     /\ proofs \subseteq proofs' /\ claims \subseteq claims'
     /\ Cardinality(Proven(proofs')) = Cardinality(proofs')
     /\ combines \subseteq combines' /\ changes \subseteq changes'
     /\ save'.loadout # save.loadout => /\ save'.revision = save.revision + 1
                                        /\ \E c \in changes' \ changes : c.revision = save.revision]_vars
=============================================================================
