------------------------------ MODULE Gateway ------------------------------
(***************************************************************************)
(* The game connections around the shared session: the accept loop with    *)
(* its two counters, one reader thread and one writer thread for each      *)
(* connection, the bounded queue of commands they send to the coordinator, *)
(* and the coordinator that takes them one at a time.                      *)
(*                                                                         *)
(* A connection can be cut, go idle or send a bad frame at every read, and *)
(* a writer can fail at every write.  A send to a full queue blocks.       *)
(* A name that ends in an underscore is a faulty variant of a definition.  *)
(***************************************************************************)
EXTENDS SharedSession, Sequences

CONSTANTS
    MaxConnections,         \* MAX_GAME_CONNECTIONS, also the length of the queue
    MaxUnauthenticated      \* MAX_UNAUTHENTICATED_CONNECTIONS

ASSUME LimitsAssumption ==
    MaxConnections \in Nat \ {0} /\ MaxUnauthenticated \in Nat \ {0}

VARIABLES
    pc,         \* where the reader thread of a connection is
    writer,     \* its writer thread
    cut,        \* connections whose socket is shut down
    snapshot,   \* the loadout a handshake has read
    guarded,    \* connections whose unauthenticated guard is not released
    active,     \* active_connections
    unauth,     \* unauthenticated_connections
    queue       \* the commands of the coordinator

connectionVars == <<pc, writer, cut, snapshot, guarded, active, unauth>>
vars == <<sessionVars, connectionVars, queue>>

Commands == {"Join", "Start", "Play", "Loadout", "Disconnect"}
Command(kind, c) == [kind |-> kind, from |-> c]

Init ==
    /\ SessionInit
    /\ pc = [c \in Connections |-> "new"]
    /\ writer = [c \in Connections |-> "none"]
    /\ cut = {} /\ guarded = {}
    /\ snapshot = [c \in Connections |-> "unread"]
    /\ active = 0 /\ unauth = 0
    /\ queue = <<>>

Goto(c, place) == pc' = [pc EXCEPT ![c] = place]

Send(kind, c) ==
    /\ Len(queue) < MaxConnections
    /\ queue' = Append(queue, Command(kind, c))

-----------------------------------------------------------------------------
(* Admission of a connection and its handshake *)

\* The counters are incremented, compared, and decremented again for a connection that
\* is turned away, all by the one thread of the accept loop.
Accept(c) ==
    /\ pc[c] = "new"
    /\ IF active < MaxConnections /\ unauth < MaxUnauthenticated
       THEN /\ Goto(c, "hello")
            /\ active' = active + 1 /\ unauth' = unauth + 1
            /\ guarded' = guarded \cup {c}
       ELSE /\ Goto(c, "done")
            /\ UNCHANGED <<active, unauth, guarded>>
    /\ UNCHANGED <<sessionVars, writer, cut, snapshot, queue>>

\* CounterGuard::release, by hand or by its drop: only the first one counts.
Release(c) ==
    /\ unauth' = IF c \in guarded THEN unauth - 1 ELSE unauth
    /\ guarded' = guarded \ {c}

EndReaderAlone_(c) ==
    /\ Goto(c, "done")
    /\ active' = active - 1
    /\ Release(c)

\* The reader returns.  The last of reader and writer gives the connection back.
EndReader(c) ==
    /\ Goto(c, "done")
    /\ active' = IF writer[c] = "running" THEN active ELSE active - 1
    /\ Release(c)

Authenticate(c) ==
    /\ pc[c] = "hello"
    /\ Goto(c, "known") /\ Release(c)
    /\ UNCHANGED <<sessionVars, writer, cut, snapshot, active, queue>>

\* The loadout is read and checked; the database is released before the Join is sent.
LoadCharacter(c) ==
    /\ pc[c] = "known"
    /\ snapshot' = [snapshot EXCEPT ![c] = loadout[AccountOf[c]]]
    /\ IF Unsuitable(c)
       THEN EndReader(c)
       ELSE Goto(c, "loaded") /\ UNCHANGED <<active, unauth, guarded>>
    /\ UNCHANGED <<sessionVars, writer, cut, queue>>

\* The deadline of the handshake, a bad frame, an unknown identity, a lost client or a
\* database error.
GiveUp(c) ==
    /\ pc[c] \in {"hello", "known"}
    /\ EndReader(c)
    /\ UNCHANGED <<sessionVars, writer, cut, snapshot, queue>>

SendJoin(c) ==
    /\ pc[c] = "loaded"
    /\ Send("Join", c) /\ Goto(c, "joining")
    /\ outbound' = [outbound EXCEPT ![c] = "open"]
    /\ UNCHANGED <<members, stage, session, verdict, loadout, joined, seated, starts,
                   fault, writer, cut, snapshot, guarded, active, unauth>>

ReadVerdict(c) ==
    /\ pc[c] = "joining" /\ verdict[c] # "none"
    /\ IF verdict[c] = "seated"
       THEN Goto(c, "seated") /\ UNCHANGED <<active, unauth, guarded>>
       ELSE EndReader(c)
    /\ UNCHANGED <<sessionVars, writer, cut, snapshot, queue>>

-----------------------------------------------------------------------------
(* A seated connection *)

\* The response and the snapshots are written, and the writer takes over the socket.
OpenWriter(c) ==
    /\ pc[c] = "seated"
    /\ Goto(c, "ready")
    /\ writer' = [writer EXCEPT ![c] = "running"]
    /\ UNCHANGED <<sessionVars, cut, snapshot, guarded, active, unauth, queue>>

SendStart(c) ==
    /\ pc[c] = "ready"
    /\ Send("Start", c) /\ Goto(c, "playing")
    /\ UNCHANGED <<sessionVars, writer, cut, snapshot, guarded, active, unauth>>

SendIntent(c) ==
    /\ pc[c] = "playing" /\ c \notin cut
    /\ \E kind \in {"Play", "Loadout"} : Send(kind, c)
    /\ UNCHANGED <<sessionVars, connectionVars>>

\* A failed write or writer thread before play, a lost or idle client, or a bad frame.
HangUp(c) ==
    /\ pc[c] \in {"seated", "playing"}
    /\ Goto(c, "leaving")
    /\ UNCHANGED <<sessionVars, writer, cut, snapshot, guarded, active, unauth, queue>>

\* The drop of ParticipantConnectionGuard, on every way out after admission.
SendDisconnect(c) ==
    /\ pc[c] = "leaving"
    /\ Send("Disconnect", c)
    /\ EndReader(c)
    /\ UNCHANGED <<sessionVars, writer, cut, snapshot>>

\* The writer drains its queue and ends when the sender is dropped, or when a write
\* fails; it shuts down the socket both ways.  (A sender that is left finds the queue
\* closed when it next sends; nothing depends on the time between.)
EndWriter(c) ==
    /\ writer[c] = "running"
    /\ writer' = [writer EXCEPT ![c] = "ended"]
    /\ cut' = cut \cup {c}
    /\ outbound' = Closed({c})
    /\ active' = IF pc[c] = "done" THEN active - 1 ELSE active
    /\ UNCHANGED <<members, stage, session, verdict, loadout, joined, seated, starts,
                   fault, pc, snapshot, guarded, unauth, queue>>

-----------------------------------------------------------------------------
(* The coordinator *)

Handle(command) ==
    LET c == command.from
    IN  \/ command.kind = "Join" /\ Join(c)
        \/ command.kind = "Start" /\ Start(c)
        \/ command.kind = "Play" /\ Play(c)
        \/ command.kind = "Loadout" /\ Loadout(c)
        \/ command.kind = "Disconnect" /\ Disconnect(c)

Coordinate ==
    /\ queue # <<>>
    /\ Handle(Head(queue))
    /\ queue' = Tail(queue)
    /\ UNCHANGED connectionVars

Reader(c) ==
    \/ Accept(c) \/ Authenticate(c) \/ LoadCharacter(c) \/ GiveUp(c)
    \/ SendJoin(c) \/ ReadVerdict(c)
    \/ OpenWriter(c) \/ SendStart(c) \/ SendIntent(c)
    \/ HangUp(c) \/ SendDisconnect(c)

Next ==
    \/ \E c \in Connections : Reader(c) \/ EndWriter(c)
    \/ Coordinate

Spec == Init /\ [][Next]_vars

\* The threads run.  A read of a socket that is shut down ends, and so does a writer
\* whose sender is dropped, because every write has a timeout.  A full queue serves the
\* senders that wait for it in turn.  Nothing makes a client connect, play or leave.
Fairness ==
    /\ WF_vars(Coordinate)
    /\ \A c \in Connections :
          /\ WF_vars(ReadVerdict(c))
          /\ WF_vars(OpenWriter(c) \/ (pc[c] = "seated" /\ HangUp(c)))
          /\ WF_vars(c \in cut /\ HangUp(c))
          /\ WF_vars(outbound[c] = "closed" /\ EndWriter(c))
          /\ SF_vars(SendStart(c)) /\ SF_vars(SendDisconnect(c))

FairSpec == Spec /\ Fairness

-----------------------------------------------------------------------------
(* Safety *)

\* The seats, threads, counters and commands keep their types.
TypeOK ==
    /\ members \subseteq Connections /\ stage \in Stages /\ session \in Nat
    /\ outbound \in [Connections -> {"none", "open", "closed"}]
    /\ verdict \in [Connections -> {"none", "seated", "refused"}]
    /\ loadout \in [Accounts -> {"legacy", "current"}]
    /\ joined \subseteq Connections /\ seated \subseteq Connections
    /\ starts \in Nat /\ fault \in Faults
    /\ pc \in [Connections -> {"new", "hello", "known", "loaded", "joining", "seated",
                               "ready", "playing", "leaving", "done"}]
    /\ writer \in [Connections -> {"none", "running", "ended"}]
    /\ cut \subseteq Connections /\ guarded \subseteq Connections
    /\ snapshot \in [Connections -> {"unread", "legacy", "current"}]
    /\ active \in Nat /\ unauth \in Nat
    /\ queue \in Seq([kind : Commands, from : Connections])

Queued(kind, c) == \E i \in DOMAIN queue : queue[i] = Command(kind, c)

\* Nobody keeps a seat after the connection is gone: until the seat is given up, its
\* thread still runs or its Disconnect is on the way.
SeatsAreLive ==
    \A c \in members : pc[c] = "done" => Queued("Disconnect", c)

\* A connection counts as active exactly while its reader or its writer runs, and as
\* unauthenticated until its identity is accepted or it is gone: no slot is given back
\* twice and none is lost, so the limits hold.
SlotsAreExact ==
    /\ active = Cardinality({c \in Connections :
                    pc[c] \notin {"new", "done"} \/ writer[c] = "running"})
    /\ unauth = Cardinality({c \in Connections : pc[c] = "hello"})
    /\ active <= MaxConnections /\ unauth <= MaxUnauthenticated

\* The limits of the server hold, and every variable keeps its type.
LimitsHold == TypeOK /\ SlotsAreExact

\* An activity runs, or has ended, only for connections that hold seats; each of them,
\* and the start, was recorded before it was shown.  (Two connections of one account
\* cannot start, yet their start is recorded, so that there can be more than one.)
ActivityHasPlayers ==
    stage # "Waiting" =>
        /\ members # {} /\ Cardinality(members) <= ExpectedPlayers
        /\ members \subseteq joined
        /\ starts >= 1

\* A session without seats is as good as new: nothing of an earlier activity is left
\* for the next players.
EmptySessionIsFresh == members = {} => stage = "Waiting" /\ starts = 0

\* The seats belong to live connections and the activity to the seats: none without
\* players, nothing left over for the next.
SessionFollowsSeats == SeatsAreLive /\ ActivityHasPlayers /\ EmptySessionIsFresh

\* A command of one connection takes the seat of another only by an abort, which the
\* database caused; a Disconnect that comes late, after the session was aborted and
\* filled again, takes no seat at all.
SeatsAreTakenByOwner ==
    [][\A c \in members \ members' :
          \/ Head(queue) = Command("Disconnect", c)
          \/ fault' = "command" /\ members' = {} /\ session' = session + 1]_vars

\* No seat is given in a session that has left its waiting room.
NoLateSeat ==
    [][\A c \in members' \ members : stage = "Waiting" /\ stage' = "Waiting"]_vars

\* A seat changes hands only when its owner leaves, the database fails, or there is room.
SeatsAreRightful == SeatsAreTakenByOwner /\ NoLateSeat

-----------------------------------------------------------------------------
(* Liveness *)

\* Whoever leaves gives everything back: the seat, the writer and the slot.
EverythingReturns ==
    \A c \in Connections :
        pc[c] = "leaving" ~>
            pc[c] = "done" /\ writer[c] # "running" /\ c \notin members

\* A client that lost its seat, by an abort or because it was too slow, is not left
\* hanging: its connection is closed, wherever the abort found it.
SeatlessAreClosed ==
    \A c \in Connections :
        verdict[c] = "seated" /\ c \notin members ~> pc[c] = "done"

\* Whoever leaves or loses the seat is released for good.
EveryoneIsReleased == EverythingReturns /\ SeatlessAreClosed

\* A full room of different accounts starts, or empties: the Start of the last one to
\* sit down is never lost.
FullRoomStarts ==
    (stage = "Waiting" /\ Full /\ Distinct) ~> (stage # "Waiting" \/ ~Full)
=============================================================================
