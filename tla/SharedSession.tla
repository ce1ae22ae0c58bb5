---------------------------- MODULE SharedSession ----------------------------
(***************************************************************************)
(* The coordinator of the gateway (SharedSession in runtime/gateway): who  *)
(* sits in the one shared session, how far the activity is, and what each  *)
(* command of the connections does to both.  `Gateway` puts the commands   *)
(* in its queue.                                                           *)
(*                                                                         *)
(* Gameplay is one command, `Play': what matters here is that it may end   *)
(* the activity, fill an outbound queue, or fail in the database.  Stages  *)
(* Drone, Stabilizer, Door and Boss are the one stage "Active".  Campaign  *)
(* and challenge entries, for one player, and the ticks of their encounters *)
(* are not part of this module.                                            *)
(* A name that ends in an underscore is a faulty variant of a definition.  *)
(***************************************************************************)
EXTENDS Naturals, FiniteSets

CONSTANTS
    Connections,        \* game connections; each is one thread and one actor id
    Accounts,
    AccountOf,          \* the account, and character, a connection signs in as
    Current,            \* connections of clients that know the current modules
    ExpectedPlayers     \* REVENANT_EXPECTED_PLAYERS

ASSUME SessionAssumption ==
    /\ AccountOf \in [Connections -> Accounts]
    /\ Current \subseteq Connections
    /\ ExpectedPlayers \in {1, 2}

VARIABLES
    members,    \* participants: the connections that hold a seat
    stage,      \* SessionStage
    session,    \* session_id: fresh after every reset
    outbound,   \* the sender of a connection's outbound queue
    verdict,    \* the answer to a connection's Join
    loadout,    \* durable: which modules an account's character has equipped
    joined,     \* durable: connections with a player_joined event
    seated,     \* history: connections that were given a seat
    starts,     \* durable: activity_started events of this session
    fault       \* where the last database error struck

sessionVars == <<members, stage, session, outbound, verdict, loadout, joined, seated,
                 starts, fault>>

Stages == {"Waiting", "Active", "Complete", "Failed"}
Faults == {"none", "admission", "command"}

Full     == Cardinality(members) = ExpectedPlayers
Distinct == \A c, d \in members : AccountOf[c] = AccountOf[d] => c = d

SessionInit ==
    /\ members = {} /\ stage = "Waiting" /\ session = 0
    /\ outbound = [c \in Connections |-> "none"]
    /\ verdict = [c \in Connections |-> "none"]
    /\ loadout = [a \in Accounts |-> "legacy"]
    /\ joined = {} /\ seated = {} /\ starts = 0
    /\ fault = "none"

-----------------------------------------------------------------------------

\* The queues of the connections in S are closed: their senders are dropped.
Closed(S) == [c \in Connections |-> IF c \in S THEN "closed" ELSE outbound[c]]

ResetKeepsSenders_(S) ==
    /\ members' = {} /\ stage' = "Waiting" /\ session' = session + 1
    /\ outbound' = Closed(S)
    /\ starts' = 0

\* A fresh session; the senders of those who had a seat, and of those in S, are gone.
Reset(S) ==
    /\ members' = {} /\ stage' = "Waiting" /\ session' = session + 1
    /\ outbound' = Closed(members \cup S)
    /\ starts' = 0

Idle == UNCHANGED <<members, stage, session, outbound, joined, seated, starts>>

\* abort_after_command_failure
Abort(where) ==
    /\ Reset({})
    /\ fault' = where
    /\ UNCHANGED <<verdict, loadout, joined, seated>>

\* A command that is refused: an error that is not the database's only gets logged.
Refused ==
    /\ Idle
    /\ fault' = "none"
    /\ UNCHANGED <<verdict, loadout>>

-----------------------------------------------------------------------------
(* Admission *)

AcceptsJoinLate_ == Cardinality(members) < ExpectedPlayers

AcceptsJoin == stage = "Waiting" /\ Cardinality(members) < ExpectedPlayers

\* The loadout of the character needs a client that knows the current modules.
Unsuitable(c) == loadout[AccountOf[c]] = "current" /\ c \notin Current

\* An admission that fails in an empty room leaves a fresh session behind.
Dismiss(c, recorded) ==
    /\ verdict' = [verdict EXCEPT ![c] = "refused"]
    /\ joined' = IF recorded THEN joined \cup {c} ELSE joined
    /\ IF members = {}
       THEN Reset({c})
       ELSE outbound' = Closed({c}) /\ UNCHANGED <<members, stage, session, starts>>
    /\ UNCHANGED <<loadout, seated>>

Turned(c) ==
    /\ ~AcceptsJoin
    /\ Dismiss(c, FALSE)
    /\ fault' = "none"

AdmissionFault(c) ==
    /\ AcceptsJoin
    /\ Dismiss(c, FALSE)
    /\ fault' = "admission"

\* The snapshot of the handshake may be old: the loadout is read again, and checked
\* again, after the player_joined event has been committed.
JoinUnsuitable(c) ==
    /\ AcceptsJoin /\ Unsuitable(c)
    /\ Dismiss(c, TRUE)
    /\ fault' = "none"

Seat(c) ==
    /\ AcceptsJoin /\ ~Unsuitable(c)
    /\ members' = members \cup {c}
    /\ joined' = joined \cup {c} /\ seated' = seated \cup {c}
    /\ verdict' = [verdict EXCEPT ![c] = "seated"]
    /\ fault' = "none"
    /\ UNCHANGED <<stage, session, outbound, loadout, starts>>

Join(c) == Turned(c) \/ AdmissionFault(c) \/ JoinUnsuitable(c) \/ Seat(c)

-----------------------------------------------------------------------------
(* The activity *)

\* A broadcast closes the queues of the members whose writers do not keep up.
Broadcast ==
    \E slow \in SUBSET members : outbound' = Closed(slow)

\* start_activity: the event is stored before the route operation, which needs
\* participants of different accounts, is built.
StartActivity ==
    \/ Abort("command")
    \/ /\ starts' = starts + 1
       /\ IF Distinct
          THEN stage' = "Active" /\ Broadcast
          ELSE UNCHANGED <<stage, outbound>>
       /\ fault' = "none"
       /\ UNCHANGED <<members, session, verdict, loadout, joined, seated>>

StartAlone_(c) ==
    IF members = {c} /\ stage = "Waiting" /\ Full THEN StartActivity ELSE Refused

\* start_if_ready
Start(c) ==
    IF c \in members /\ stage = "Waiting" /\ Full THEN StartActivity ELSE Refused

\* The deadlines are observed before anything else, whoever sends the command.
PlayDeadline ==
    /\ stage = "Active"
    /\ \/ Abort("command")
       \/ /\ stage' = "Failed" /\ Broadcast
          /\ fault' = "none"
          /\ UNCHANGED <<members, session, verdict, loadout, joined, seated, starts>>

PlayAccepted(c) ==
    /\ c \in members
    /\ \/ Abort("command")
       \/ /\ stage' \in IF stage = "Active" THEN {"Active", "Complete", "Failed"}
                        ELSE {stage}
          /\ Broadcast
          /\ fault' = "none"
          /\ UNCHANGED <<members, session, verdict, loadout, joined, seated, starts>>

Play(c) == PlayDeadline \/ PlayAccepted(c) \/ Refused

\* set_module_loadout: only in a completed activity, and only modules the client knows.
Loadout(c) ==
    IF c \in members /\ stage = "Complete"
    THEN \/ Abort("command")
         \/ /\ \E modules \in {"legacy"} \cup (IF c \in Current THEN {"current"} ELSE {}) :
                  loadout' = [loadout EXCEPT ![AccountOf[c]] = modules]
            /\ Idle
            /\ fault' = "none"
            /\ UNCHANGED verdict
    ELSE PlayDeadline \/ Refused

-----------------------------------------------------------------------------
(* Departure *)

LeaveKeepsActivity_(c) ==
    /\ members' = members \ {c}
    /\ outbound' = Closed(members \cap {c})
    /\ fault' = "none"
    /\ UNCHANGED <<stage, session, starts, verdict, loadout, joined, seated>>

\* The seat is given up, and with it a running cooperation; the last one to leave
\* resets the session.  A connection that has no seat any more changes nothing.
Leave(c) ==
    /\ IF members = {c} \/ (members = {} /\ stage # "Waiting")
       THEN Reset({c})
       ELSE /\ members' = members \ {c}
            /\ stage' \in {stage} \cup
                  (IF stage = "Active" /\ c \in members THEN {"Failed"} ELSE {})
            /\ outbound' = Closed(members \cap {c})
            /\ UNCHANGED <<session, starts>>
    /\ fault' = "none"
    /\ UNCHANGED <<verdict, loadout, joined, seated>>

\* disconnect: the abandonment is stored first, and its failure aborts the session.
Disconnect(c) ==
    \/ c \in members /\ stage = "Active" /\ Abort("command")
    \/ Leave(c)
=============================================================================
