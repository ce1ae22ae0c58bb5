---------------------------- MODULE GatewayProofs ----------------------------
(***************************************************************************)
(* What holds of the connections and the shared session for every number   *)
(* of connections and every limit: the slots are counted exactly, seats    *)
(* belong to live connections and the activity to the seats, and no seat   *)
(* changes hands except as its owner, the database or the room allows.     *)
(***************************************************************************)
EXTENDS Gateway, FiniteSetTheorems, TLAPS

\* The connections that hold a slot of the server.
Busy == {c \in Connections : pc[c] \notin {"new", "done"} \/ writer[c] = "running"}

\* A connection that has not sent its Join.
Early == {"new", "hello", "known", "loaded"}

\* The guard of a slot without identity is held exactly during the handshake, and a
\* writer runs only for a connection that was seated; so each slot is given back once.
SlotsInv ==
    /\ guarded = {c \in Connections : pc[c] = "hello"}
    /\ \A c \in Connections :
          writer[c] = "running" => pc[c] \in {"ready", "playing", "leaving", "done"}
    /\ IsFiniteSet(Busy)
    /\ SlotsAreExact

\* A connection sends one Join and waits for its verdict, so that a seat is never given
\* to a connection that is gone.
AdmissionInv ==
    /\ \A c \in Connections : verdict[c] # "none" => pc[c] \notin Early
    /\ \A i \in DOMAIN queue : queue[i].kind = "Join" =>
          pc[queue[i].from] = "joining" /\ verdict[queue[i].from] = "none"
    /\ \A i, j \in DOMAIN queue :
          queue[i].kind = "Join" /\ queue[j] = queue[i] => i = j
    /\ \A c \in members : verdict[c] = "seated"

\* The room is never over its size, and holds nothing when it is empty.
RoomInv ==
    /\ IsFiniteSet(members) /\ Cardinality(members) <= ExpectedPlayers
    /\ members \subseteq joined
    /\ stage # "Waiting" => members # {} /\ starts >= 1
    /\ members = {} => starts = 0

GatewayInv == TypeOK /\ SlotsInv /\ AdmissionInv /\ SeatsAreLive /\ RoomInv

\* The part of TypeOK that the coordinator works on.
SessionTypes ==
    /\ members \subseteq Connections /\ stage \in Stages /\ session \in Nat
    /\ outbound \in [Connections -> {"none", "open", "closed"}]
    /\ verdict \in [Connections -> {"none", "seated", "refused"}]
    /\ loadout \in [Accounts -> {"legacy", "current"}]
    /\ joined \subseteq Connections /\ seated \subseteq Connections
    /\ starts \in Nat /\ fault \in Faults

-----------------------------------------------------------------------------
(* The coordinator: its operations keep the room *)

\* A reset empties the room and keeps the types.
LEMMA ResetKeeps ==
    ASSUME SessionTypes, NEW S \in SUBSET Connections, Reset(S)
    PROVE  /\ members' = {} /\ stage' = "Waiting" /\ starts' = 0
           /\ session' = session + 1 /\ session' \in Nat
           /\ outbound' \in [Connections -> {"none", "open", "closed"}]
           /\ IsFiniteSet(members') /\ Cardinality(members') = 0
    BY FS_EmptySet DEF Reset, Closed, SessionTypes

\* An aborted session is an empty, typed one.
LEMMA AbortKeeps ==
    ASSUME SessionTypes, RoomInv, Abort("command")
    PROVE  SessionTypes' /\ RoomInv'
<1>1. {} \in SUBSET Connections  OBVIOUS
<1>2. /\ members' = {} /\ stage' = "Waiting" /\ starts' = 0 /\ session' \in Nat
      /\ outbound' \in [Connections -> {"none", "open", "closed"}]
      /\ IsFiniteSet(members') /\ Cardinality(members') = 0
  BY <1>1, ResetKeeps DEF Abort
<1> QED  BY <1>2, SessionAssumption DEF Abort, SessionTypes, RoomInv, Stages, Faults

\* A broadcast, whoever is slow, leaves typed queues behind.
LEMMA BroadcastKeeps ==
    ASSUME SessionTypes, Broadcast
    PROVE  outbound' \in [Connections -> {"none", "open", "closed"}]
    BY DEF Broadcast, Closed, SessionTypes

\* A refused command changes nothing but the fault.
LEMMA RefusedKeeps ==
    ASSUME SessionTypes, RoomInv, Refused
    PROVE  SessionTypes' /\ RoomInv'
    BY DEF Refused, Idle, SessionTypes, RoomInv, Faults

\* An admission, or its refusal, keeps the room within its size.
LEMMA JoinKeeps ==
    ASSUME SessionTypes, RoomInv, NEW c \in Connections, Join(c)
    PROVE  SessionTypes' /\ RoomInv'
<1>1. ASSUME NEW recorded \in BOOLEAN, Dismiss(c, recorded), fault' \in Faults
      PROVE  SessionTypes' /\ RoomInv'
  <2>1. verdict' \in [Connections -> {"none", "seated", "refused"}]
    BY <1>1 DEF Dismiss, SessionTypes
  <2>2. joined' \subseteq Connections /\ joined \subseteq joined'
    BY <1>1 DEF Dismiss, SessionTypes
  <2>3. loadout' = loadout /\ seated' = seated  BY <1>1 DEF Dismiss
  <2>4. CASE members = {}
    <3>1. Reset({c})  BY <1>1, <2>4 DEF Dismiss
    <3>2. /\ members' = {} /\ stage' = "Waiting" /\ starts' = 0 /\ session' \in Nat
          /\ outbound' \in [Connections -> {"none", "open", "closed"}]
          /\ IsFiniteSet(members') /\ Cardinality(members') = 0
      BY <3>1, ResetKeeps
    <3> QED
      BY <1>1, <2>1, <2>2, <2>3, <3>2, SessionAssumption
      DEF SessionTypes, RoomInv, Stages
  <2>5. CASE members # {}
    <3>1. /\ outbound' = Closed({c})
          /\ members' = members /\ stage' = stage /\ session' = session
          /\ starts' = starts
      BY <1>1, <2>5 DEF Dismiss
    <3>2. outbound' \in [Connections -> {"none", "open", "closed"}]
      BY <3>1 DEF Closed, SessionTypes
    <3> QED  BY <1>1, <2>1, <2>2, <2>3, <3>1, <3>2 DEF SessionTypes, RoomInv
  <2> QED  BY <2>4, <2>5
<1>2. CASE Turned(c)  BY <1>1, <1>2 DEF Turned, Faults
<1>3. CASE AdmissionFault(c)  BY <1>1, <1>3 DEF AdmissionFault, Faults
<1>4. CASE JoinUnsuitable(c)  BY <1>1, <1>4 DEF JoinUnsuitable, Faults
<1>5. CASE Seat(c)
  <2>1. SessionTypes'  BY <1>5 DEF Seat, SessionTypes, Faults
  <2>2. /\ IsFiniteSet(members')
        /\ Cardinality(members') <= Cardinality(members) + 1
    <3>1. IsFiniteSet(members) /\ Cardinality(members) \in Nat
      BY FS_CardinalityType DEF RoomInv
    <3> QED  BY <1>5, <3>1, FS_AddElement DEF Seat
  <2>3. Cardinality(members') <= ExpectedPlayers
    <3>1. Cardinality(members) \in Nat /\ Cardinality(members') \in Nat
      BY <2>2, FS_CardinalityType DEF RoomInv
    <3>2. Cardinality(members) < ExpectedPlayers /\ ExpectedPlayers \in Nat
      BY <1>5, SessionAssumption DEF Seat, AcceptsJoin
    <3> QED  BY <2>2, <3>1, <3>2
  <2>4. /\ members' = members \cup {c} /\ joined' = joined \cup {c}
        /\ stage' = stage /\ stage = "Waiting" /\ starts' = starts
    BY <1>5 DEF Seat, AcceptsJoin
  <2> QED  BY <2>1, <2>2, <2>3, <2>4 DEF RoomInv
<1> QED  BY <1>2, <1>3, <1>4, <1>5 DEF Join

\* A full room starts with its players, and records the start before it is seen.
LEMMA StartKeeps ==
    ASSUME SessionTypes, RoomInv, NEW c \in Connections, Start(c)
    PROVE  SessionTypes' /\ RoomInv'
<1>1. CASE Refused  BY <1>1, RefusedKeeps
<1>2. CASE Abort("command")  BY <1>2, AbortKeeps
<1>3. CASE StartActivity /\ ~Abort("command") /\ c \in members
  <2>1. /\ starts' = starts + 1 /\ fault' = "none" /\ members' = members
        /\ session' = session /\ verdict' = verdict /\ loadout' = loadout
        /\ joined' = joined /\ seated' = seated
    BY <1>3 DEF StartActivity
  <2>2. stage' \in Stages /\ outbound' \in [Connections -> {"none", "open", "closed"}]
    <3>1. CASE Distinct
      BY <1>3, <3>1, BroadcastKeeps DEF StartActivity, Stages
    <3>2. CASE ~Distinct
      BY <1>3, <3>2 DEF StartActivity, SessionTypes
    <3> QED  BY <3>1, <3>2
  <2> QED  BY <1>3, <2>1, <2>2 DEF SessionTypes, RoomInv, Faults
<1> QED  BY <1>1, <1>2, <1>3 DEF Start

\* Gameplay, and the deadline that it may meet, move the activity and nobody's seat.
LEMMA PlayKeeps ==
    ASSUME SessionTypes, RoomInv, NEW c \in Connections, Play(c)
    PROVE  SessionTypes' /\ RoomInv'
<1>1. CASE Refused  BY <1>1, RefusedKeeps
<1>2. CASE Abort("command")  BY <1>2, AbortKeeps
<1>3. CASE PlayDeadline /\ ~Abort("command")
  <2>1. outbound' \in [Connections -> {"none", "open", "closed"}]
    BY <1>3, BroadcastKeeps DEF PlayDeadline
  <2> QED  BY <1>3, <2>1 DEF PlayDeadline, SessionTypes, RoomInv, Stages, Faults
<1>4. CASE PlayAccepted(c) /\ ~Abort("command")
  <2>1. outbound' \in [Connections -> {"none", "open", "closed"}]
    BY <1>4, BroadcastKeeps DEF PlayAccepted
  <2>2. stage' \in Stages /\ (stage = "Waiting" => stage' = "Waiting")
    BY <1>4 DEF PlayAccepted, SessionTypes, Stages
  <2> QED  BY <1>4, <2>1, <2>2 DEF PlayAccepted, SessionTypes, RoomInv, Faults
<1> QED  BY <1>1, <1>2, <1>3, <1>4 DEF Play

\* A change of modules leaves the room as it is, unless the database fails.
LEMMA LoadoutKeeps ==
    ASSUME SessionTypes, RoomInv, NEW c \in Connections, Loadout(c)
    PROVE  SessionTypes' /\ RoomInv'
<1>1. CASE Refused  BY <1>1, RefusedKeeps
<1>2. CASE Abort("command")  BY <1>2, AbortKeeps
<1>3. CASE PlayDeadline  BY <1>3, PlayKeeps DEF Play
<1>4. CASE c \in members /\ stage = "Complete" /\ ~Abort("command")
  <2>1. PICK modules \in {"legacy"} \cup (IF c \in Current THEN {"current"} ELSE {}) :
            loadout' = [loadout EXCEPT ![AccountOf[c]] = modules]
    BY <1>4 DEF Loadout
  <2>2. loadout' \in [Accounts -> {"legacy", "current"}]
    BY <2>1 DEF SessionTypes
  <2> QED  BY <1>4, <2>2 DEF Loadout, Idle, SessionTypes, RoomInv, Faults
<1> QED  BY <1>1, <1>2, <1>3, <1>4 DEF Loadout

\* A departure takes one seat; the last one takes the session with it.
LEMMA DisconnectKeeps ==
    ASSUME SessionTypes, RoomInv, NEW c \in Connections, Disconnect(c)
    PROVE  SessionTypes' /\ RoomInv'
<1>1. CASE Abort("command")  BY <1>1, AbortKeeps
<1>2. CASE Leave(c)
  <2>1. /\ fault' = "none" /\ verdict' = verdict /\ loadout' = loadout
        /\ joined' = joined /\ seated' = seated
    BY <1>2 DEF Leave
  <2>2. CASE members = {c} \/ (members = {} /\ stage # "Waiting")
    <3>1. Reset({c})  BY <1>2, <2>2 DEF Leave
    <3>2. /\ members' = {} /\ stage' = "Waiting" /\ starts' = 0 /\ session' \in Nat
          /\ outbound' \in [Connections -> {"none", "open", "closed"}]
          /\ IsFiniteSet(members') /\ Cardinality(members') = 0
      BY <3>1, ResetKeeps
    <3> QED
      BY <2>1, <3>2, SessionAssumption DEF SessionTypes, RoomInv, Stages, Faults
  <2>3. CASE ~(members = {c} \/ (members = {} /\ stage # "Waiting"))
    <3>1. /\ members' = members \ {c}
          /\ stage' \in {stage} \cup
                (IF stage = "Active" /\ c \in members THEN {"Failed"} ELSE {})
          /\ outbound' = Closed(members \cap {c})
          /\ session' = session /\ starts' = starts
      BY <1>2, <2>3 DEF Leave
    <3>2. SessionTypes'
      <4>1. outbound' \in [Connections -> {"none", "open", "closed"}]
        BY <3>1 DEF Closed, SessionTypes
      <4> QED  BY <2>1, <3>1, <4>1 DEF SessionTypes, Stages, Faults
    <3>3. IsFiniteSet(members') /\ Cardinality(members') <= ExpectedPlayers
      <4>1. /\ IsFiniteSet(members) /\ IsFiniteSet(members')
            /\ Cardinality(members') <= Cardinality(members)
        BY <3>1, FS_Subset DEF RoomInv
      <4>2. Cardinality(members) \in Nat /\ Cardinality(members') \in Nat
        BY <4>1, FS_CardinalityType
      <4> QED  BY <4>1, <4>2, SessionAssumption DEF RoomInv
    <3>4. stage' # "Waiting" => stage # "Waiting"
      BY <3>1
    <3>5. members' = {} => members = {}
      BY <2>3, <3>1
    <3> QED  BY <2>1, <3>1, <3>2, <3>3, <3>4, <3>5 DEF RoomInv
  <2> QED  BY <2>2, <2>3
<1> QED  BY <1>1, <1>2 DEF Disconnect

\* Whatever command comes next, the room is kept.
LEMMA HandleKeepsRoom ==
    ASSUME SessionTypes, RoomInv,
           NEW command \in [kind : Commands, from : Connections], Handle(command)
    PROVE  SessionTypes' /\ RoomInv'
<1> DEFINE c == command.from
<1>1. c \in Connections  OBVIOUS
<1>2. CASE Join(c)  BY <1>1, <1>2, JoinKeeps
<1>3. CASE Start(c)  BY <1>1, <1>3, StartKeeps
<1>4. CASE Play(c)  BY <1>1, <1>4, PlayKeeps
<1>5. CASE Loadout(c)  BY <1>1, <1>5, LoadoutKeeps
<1>6. CASE Disconnect(c)  BY <1>1, <1>6, DisconnectKeeps
<1> QED  BY <1>2, <1>3, <1>4, <1>5, <1>6 DEF Handle

-----------------------------------------------------------------------------
(* The coordinator: what a command does to the seats and the verdicts *)

\* An operation that is no admission: it gives no verdict and no seat, and takes a
\* seat only by an abort.
KeepsOrAborts ==
    /\ verdict' = verdict
    /\ \/ members' = members
       \/ members' = {} /\ session' = session + 1 /\ fault' = "command"

\* Gameplay, starts and loadouts are such operations.
LEMMA CommandsKeepOrAbort ==
    ASSUME NEW c \in Connections, Start(c) \/ Play(c) \/ Loadout(c)
    PROVE  KeepsOrAborts
<1>1. CASE Refused  BY <1>1 DEF Refused, Idle, KeepsOrAborts
<1>2. CASE Abort("command")  BY <1>2 DEF Abort, Reset, KeepsOrAborts
<1>3. CASE StartActivity /\ ~Abort("command")
  BY <1>3 DEF StartActivity, KeepsOrAborts
<1>4. CASE PlayDeadline /\ ~Abort("command")
  BY <1>4 DEF PlayDeadline, KeepsOrAborts
<1>5. CASE PlayAccepted(c) /\ ~Abort("command")
  BY <1>5 DEF PlayAccepted, KeepsOrAborts
<1>6. CASE Loadout(c) /\ verdict' = verdict /\ Idle
  BY <1>6 DEF Idle, KeepsOrAborts
<1> QED
  BY <1>1, <1>2, <1>3, <1>4, <1>5, <1>6 DEF Start, Play, Loadout

\* A departure takes the seat of the one who leaves, and no other without an abort.
LEMMA DepartureTakesOwnSeat ==
    ASSUME NEW c \in Connections, Disconnect(c)
    PROVE  /\ verdict' = verdict
           /\ \/ members' = members \ {c}
              \/ members' = {} /\ session' = session + 1 /\ fault' = "command"
<1>1. CASE Abort("command")  BY <1>1 DEF Abort, Reset
<1>2. CASE Leave(c)
  <2>1. verdict' = verdict  BY <1>2 DEF Leave
  <2>2. CASE members = {c} \/ (members = {} /\ stage # "Waiting")
    <3>1. members' = {}  BY <1>2, <2>2 DEF Leave, Reset
    <3>2. members \ {c} = {}  BY <2>2
    <3> QED  BY <2>1, <3>1, <3>2
  <2>3. CASE ~(members = {c} \/ (members = {} /\ stage # "Waiting"))
    BY <1>2, <2>1, <2>3 DEF Leave
  <2> QED  BY <2>2, <2>3
<1> QED  BY <1>1, <1>2 DEF Disconnect

\* A Join is answered once, and a seat is given only in the waiting room.
LEMMA JoinAnswers ==
    ASSUME SessionTypes, NEW c \in Connections, Join(c)
    PROVE  /\ verdict'[c] # "none"
           /\ \A d \in Connections \ {c} : verdict'[d] = verdict[d]
           /\ \/ members' = members
              \/ /\ members' = members \cup {c} /\ verdict'[c] = "seated"
                 /\ stage = "Waiting" /\ stage' = "Waiting"
<1>1. ASSUME NEW recorded \in BOOLEAN, Dismiss(c, recorded)
      PROVE  /\ verdict' = [verdict EXCEPT ![c] = "refused"] /\ members' = members
  BY <1>1 DEF Dismiss, Reset
<1>2. CASE Turned(c)  BY <1>1, <1>2 DEF Turned, SessionTypes
<1>3. CASE AdmissionFault(c)  BY <1>1, <1>3 DEF AdmissionFault, SessionTypes
<1>4. CASE JoinUnsuitable(c)  BY <1>1, <1>4 DEF JoinUnsuitable, SessionTypes
<1>5. CASE Seat(c)  BY <1>5 DEF Seat, AcceptsJoin, SessionTypes
<1> QED  BY <1>2, <1>3, <1>4, <1>5 DEF Join

\* What a command does to seats and verdicts, by its kind.
LEMMA HandleOnSeats ==
    ASSUME SessionTypes,
           NEW command \in [kind : Commands, from : Connections], Handle(command)
    PROVE  \/ /\ command.kind = "Join"
              /\ verdict'[command.from] # "none"
              /\ \A d \in Connections \ {command.from} : verdict'[d] = verdict[d]
              /\ \/ members' = members
                 \/ /\ members' = members \cup {command.from}
                    /\ verdict'[command.from] = "seated"
                    /\ stage = "Waiting" /\ stage' = "Waiting"
           \/ /\ command.kind \notin {"Join", "Disconnect"} /\ verdict' = verdict
              /\ \/ members' = members
                 \/ members' = {} /\ session' = session + 1 /\ fault' = "command"
           \/ /\ command.kind = "Disconnect" /\ verdict' = verdict
              /\ \/ members' = members \ {command.from}
                 \/ members' = {} /\ session' = session + 1 /\ fault' = "command"
<1> DEFINE c == command.from
<1>1. c \in Connections  OBVIOUS
<1>2. CASE command.kind = "Join" /\ Join(c)  BY <1>1, <1>2, JoinAnswers
<1>3. CASE \/ command.kind = "Start" /\ Start(c)
           \/ command.kind = "Play" /\ Play(c)
           \/ command.kind = "Loadout" /\ Loadout(c)
  <2>1. KeepsOrAborts  BY <1>1, <1>3, CommandsKeepOrAbort
  <2> QED  BY <1>3, <2>1 DEF KeepsOrAborts
<1>4. CASE command.kind = "Disconnect" /\ Disconnect(c)
  BY <1>1, <1>4, DepartureTakesOwnSeat
<1> QED  BY <1>2, <1>3, <1>4 DEF Handle

-----------------------------------------------------------------------------
(* The slots *)

\* The part of TypeOK that the threads of the connections work on.
ConnectionTypes ==
    /\ pc \in [Connections -> {"new", "hello", "known", "loaded", "joining", "seated",
                               "ready", "playing", "leaving", "done"}]
    /\ writer \in [Connections -> {"none", "running", "ended"}]
    /\ cut \subseteq Connections /\ guarded \subseteq Connections
    /\ snapshot \in [Connections -> {"unread", "legacy", "current"}]
    /\ active \in Nat /\ unauth \in Nat
    /\ queue \in Seq([kind : Commands, from : Connections])

\* The two parts are the type invariant, in this state and in the next.
LEMMA TypeParts ==
    /\ TypeOK <=> SessionTypes /\ ConnectionTypes
    /\ SessionTypes' /\ ConnectionTypes' => TypeOK'
    BY DEF TypeOK, SessionTypes, ConnectionTypes

\* The connections in their handshake.
Greeting == {c \in Connections : pc[c] = "hello"}

\* A connection in its handshake is one of those that are counted.
LEMMA GreetingIsBusy ==
    ASSUME SlotsInv
    PROVE  /\ IsFiniteSet(Busy) /\ Cardinality(Busy) \in Nat /\ active = Cardinality(Busy)
           /\ IsFiniteSet(Greeting) /\ Cardinality(Greeting) \in Nat
           /\ unauth = Cardinality(Greeting) /\ guarded = Greeting
           /\ active <= MaxConnections /\ unauth <= MaxUnauthenticated
<1>1. IsFiniteSet(Busy) /\ active = Cardinality(Busy)
  BY DEF SlotsInv, SlotsAreExact, Busy
<1>2. Greeting \in SUBSET Busy  BY DEF Greeting, Busy
<1>3. IsFiniteSet(Greeting)  BY <1>1, <1>2, FS_Subset
<1>4. Cardinality(Busy) \in Nat /\ Cardinality(Greeting) \in Nat
  BY <1>1, <1>3, FS_CardinalityType
<1> QED
  BY <1>1, <1>3, <1>4 DEF SlotsInv, SlotsAreExact, Greeting

\* The guards and writers of a step on connection c, as far as the slots go.
WritersBelong ==
    \A c \in Connections :
        writer[c] = "running" => pc[c] \in {"ready", "playing", "leaving", "done"}

\* The four parts of SlotsInv from the sets of the next state.
LEMMA SlotsFrom ==
    ASSUME guarded' = Greeting', WritersBelong', IsFiniteSet(Busy'),
           active' = Cardinality(Busy'), unauth' = Cardinality(Greeting'),
           active' <= MaxConnections, unauth' <= MaxUnauthenticated
    PROVE  SlotsInv'
    BY DEF SlotsInv, SlotsAreExact, Greeting, Busy, WritersBelong

\* A connection that moves on between its admission and its end keeps its slot.
LEMMA SlotStays ==
    ASSUME ConnectionTypes, SlotsInv, NEW c \in Connections,
           NEW place \in {"known", "loaded", "joining", "seated", "ready", "playing",
                          "leaving"},
           Goto(c, place), pc[c] \notin {"new", "hello", "done"},
           writer[c] = "running" => place \in {"ready", "playing", "leaving"},
           UNCHANGED <<writer, guarded, active, unauth>>
    PROVE  SlotsInv'
<1>1. Busy' = Busy /\ Greeting' = Greeting
  BY DEF Goto, Busy, Greeting, ConnectionTypes
<1>2. WritersBelong'
  BY DEF Goto, WritersBelong, SlotsInv, ConnectionTypes
<1> QED  BY <1>1, <1>2, GreetingIsBusy, SlotsFrom

\* The reader that ends releases its guard, and its slot unless the writer still runs.
LEMMA ReaderGivesBack ==
    ASSUME ConnectionTypes, SlotsInv, NEW c \in Connections,
           pc[c] \notin {"new", "done"}, EndReader(c), writer' = writer
    PROVE  SlotsInv' /\ active' \in Nat /\ unauth' \in Nat /\ guarded' \subseteq Connections
<1>1. /\ pc' = [pc EXCEPT ![c] = "done"]
      /\ active' = IF writer[c] = "running" THEN active ELSE active - 1
      /\ unauth' = IF c \in guarded THEN unauth - 1 ELSE unauth
      /\ guarded' = guarded \ {c}
  BY DEF EndReader, Release, Goto
<1>2. Greeting' = Greeting \ {c} /\ (c \in guarded <=> c \in Greeting)
  BY <1>1, GreetingIsBusy DEF Greeting, ConnectionTypes
<1>3. /\ IsFiniteSet(Greeting') /\ Cardinality(Greeting') \in Nat
      /\ unauth' = Cardinality(Greeting')
  BY <1>1, <1>2, GreetingIsBusy, FS_RemoveElement, FS_CardinalityType
<1>4. WritersBelong'
  BY <1>1 DEF WritersBelong, SlotsInv, ConnectionTypes
<1>5. /\ guarded' = Greeting' /\ guarded' \subseteq Connections
      /\ unauth' <= MaxUnauthenticated
  BY <1>1, <1>2, <1>3, GreetingIsBusy, LimitsAssumption DEF ConnectionTypes
<1>6. c \in Busy  BY DEF Busy
<1>7. CASE writer[c] = "running"
  <2>1. Busy' = Busy  BY <1>1, <1>7 DEF Busy, ConnectionTypes
  <2>2. /\ IsFiniteSet(Busy') /\ active' = Cardinality(Busy')
        /\ active' <= MaxConnections /\ active' \in Nat
    BY <1>1, <1>7, <2>1, GreetingIsBusy DEF ConnectionTypes
  <2> QED  BY <1>3, <1>4, <1>5, <2>2, SlotsFrom
<1>8. CASE writer[c] # "running"
  <2>1. Busy' = Busy \ {c}  BY <1>1, <1>8 DEF Busy, ConnectionTypes
  <2>2. /\ IsFiniteSet(Busy') /\ Cardinality(Busy') \in Nat
        /\ active' = Cardinality(Busy')
    BY <1>1, <1>6, <1>8, <2>1, GreetingIsBusy, FS_RemoveElement, FS_CardinalityType
  <2>3. active' <= MaxConnections
    BY <1>1, <1>8, <2>2, GreetingIsBusy, LimitsAssumption
  <2> QED  BY <1>3, <1>4, <1>5, <2>2, <2>3, SlotsFrom
<1> QED  BY <1>7, <1>8

\* A connection is counted before it is compared with the limits, or turned away.
LEMMA AcceptCounts ==
    ASSUME ConnectionTypes, SlotsInv, NEW c \in Connections, Accept(c)
    PROVE  SlotsInv' /\ active' \in Nat /\ unauth' \in Nat /\ guarded' \subseteq Connections
<1>1. pc[c] = "new" /\ writer' = writer /\ writer[c] # "running"
  BY DEF Accept, SlotsInv
<1>2. CASE active < MaxConnections /\ unauth < MaxUnauthenticated
  <2>1. /\ pc' = [pc EXCEPT ![c] = "hello"]
        /\ active' = active + 1 /\ unauth' = unauth + 1 /\ guarded' = guarded \cup {c}
    BY <1>2 DEF Accept, Goto
  <2>2. Busy' = Busy \cup {c} /\ c \notin Busy
    BY <1>1, <2>1 DEF Busy, ConnectionTypes
  <2>3. Greeting' = Greeting \cup {c} /\ c \notin Greeting
    BY <1>1, <2>1 DEF Greeting, ConnectionTypes
  <2>4. IsFiniteSet(Busy') /\ active' = Cardinality(Busy')
    BY <2>1, <2>2, GreetingIsBusy, FS_AddElement
  <2>5. unauth' = Cardinality(Greeting') /\ guarded' = Greeting'
    BY <2>1, <2>3, GreetingIsBusy, FS_AddElement
  <2>6. WritersBelong'
    BY <1>1, <2>1 DEF WritersBelong, SlotsInv, ConnectionTypes
  <2>7. active' <= MaxConnections /\ unauth' <= MaxUnauthenticated
    BY <1>2, <2>1, LimitsAssumption DEF ConnectionTypes
  <2> QED  BY <2>1, <2>4, <2>5, <2>6, <2>7, SlotsFrom DEF ConnectionTypes
<1>3. CASE ~(active < MaxConnections /\ unauth < MaxUnauthenticated)
  <2>1. /\ pc' = [pc EXCEPT ![c] = "done"]
        /\ active' = active /\ unauth' = unauth /\ guarded' = guarded
    BY <1>3 DEF Accept, Goto
  <2>2. Busy' = Busy /\ Greeting' = Greeting
    BY <1>1, <2>1 DEF Busy, Greeting, ConnectionTypes
  <2>3. WritersBelong'
    BY <1>1, <2>1 DEF WritersBelong, SlotsInv, ConnectionTypes
  <2> QED  BY <2>1, <2>2, <2>3, GreetingIsBusy, SlotsFrom DEF ConnectionTypes
<1> QED  BY <1>2, <1>3

\* An accepted identity releases the slot of the unauthenticated, and no other.
LEMMA AuthenticateReleases ==
    ASSUME ConnectionTypes, SlotsInv, NEW c \in Connections, Authenticate(c)
    PROVE  SlotsInv' /\ active' \in Nat /\ unauth' \in Nat /\ guarded' \subseteq Connections
<1>1. /\ pc[c] = "hello" /\ pc' = [pc EXCEPT ![c] = "known"] /\ writer' = writer
      /\ active' = active /\ guarded' = guarded \ {c}
      /\ unauth' = IF c \in guarded THEN unauth - 1 ELSE unauth
  BY DEF Authenticate, Goto, Release
<1>2. Greeting' = Greeting \ {c} /\ c \in Greeting
  BY <1>1 DEF Greeting, ConnectionTypes
<1>3. Busy' = Busy  BY <1>1 DEF Busy, ConnectionTypes
<1>4. /\ unauth' = Cardinality(Greeting') /\ guarded' = Greeting'
      /\ Cardinality(Greeting') \in Nat
  BY <1>1, <1>2, GreetingIsBusy, FS_RemoveElement, FS_CardinalityType
<1>5. WritersBelong'
  BY <1>1 DEF WritersBelong, SlotsInv, ConnectionTypes
<1>6. /\ unauth' <= MaxUnauthenticated /\ unauth' \in Nat
      /\ guarded' \subseteq Connections
  BY <1>1, <1>4, GreetingIsBusy, LimitsAssumption DEF ConnectionTypes
<1>7. /\ IsFiniteSet(Busy') /\ active' = Cardinality(Busy')
      /\ active' <= MaxConnections /\ active' \in Nat
  BY <1>1, <1>3, GreetingIsBusy
<1> QED  BY <1>4, <1>5, <1>6, <1>7, SlotsFrom

\* The writer starts on a connection that has its slot.
LEMMA OpenWriterCounts ==
    ASSUME ConnectionTypes, SlotsInv, NEW c \in Connections, OpenWriter(c)
    PROVE  SlotsInv'
<1>1. /\ pc[c] = "seated" /\ pc' = [pc EXCEPT ![c] = "ready"]
      /\ writer' = [writer EXCEPT ![c] = "running"]
      /\ UNCHANGED <<guarded, active, unauth>>
  BY DEF OpenWriter, Goto
<1>2. Busy' = Busy /\ Greeting' = Greeting
  BY <1>1 DEF Busy, Greeting, ConnectionTypes
<1>3. WritersBelong'
  BY <1>1 DEF WritersBelong, SlotsInv, ConnectionTypes
<1> QED  BY <1>1, <1>2, <1>3, GreetingIsBusy, SlotsFrom

\* The writer that ends gives the slot back when the reader has ended before.
LEMMA WriterGivesBack ==
    ASSUME ConnectionTypes, SlotsInv, NEW c \in Connections, EndWriter(c)
    PROVE  SlotsInv' /\ active' \in Nat
<1>1. /\ writer[c] = "running" /\ writer' = [writer EXCEPT ![c] = "ended"]
      /\ active' = IF pc[c] = "done" THEN active - 1 ELSE active
      /\ UNCHANGED <<pc, guarded, unauth>>
  BY DEF EndWriter
<1>2. Greeting' = Greeting  BY <1>1 DEF Greeting
<1>3. WritersBelong'
  BY <1>1 DEF WritersBelong, SlotsInv, ConnectionTypes
<1>4. c \in Busy /\ pc[c] # "new"
  BY <1>1 DEF Busy, SlotsInv
<1>5. CASE pc[c] = "done"
  <2>1. Busy' = Busy \ {c}  BY <1>1, <1>5 DEF Busy, ConnectionTypes
  <2>2. /\ IsFiniteSet(Busy') /\ Cardinality(Busy') \in Nat
        /\ active' = Cardinality(Busy')
    BY <1>1, <1>4, <1>5, <2>1, GreetingIsBusy, FS_RemoveElement, FS_CardinalityType
  <2>3. active' <= MaxConnections
    BY <1>1, <1>5, <2>2, GreetingIsBusy, LimitsAssumption
  <2> QED  BY <1>1, <1>2, <1>3, <2>2, <2>3, GreetingIsBusy, SlotsFrom
<1>6. CASE pc[c] # "done"
  <2>1. Busy' = Busy  BY <1>1, <1>4, <1>6 DEF Busy, ConnectionTypes
  <2> QED
    BY <1>1, <1>2, <1>3, <1>6, <2>1, GreetingIsBusy, SlotsFrom DEF ConnectionTypes
<1> QED  BY <1>5, <1>6

-----------------------------------------------------------------------------
(* The connections: types, admissions and seats *)

\* The commands of the queue are typed, and one is added at its end.
LEMMA SendAppends ==
    ASSUME ConnectionTypes, NEW kind \in Commands, NEW c \in Connections, Send(kind, c)
    PROVE  /\ queue' \in Seq([kind : Commands, from : Connections])
           /\ Len(queue) \in Nat /\ Len(queue') = Len(queue) + 1
           /\ DOMAIN queue = 1 .. Len(queue) /\ DOMAIN queue' = 1 .. Len(queue')
           /\ \A i \in DOMAIN queue : queue'[i] = queue[i]
           /\ queue'[Len(queue')] = Command(kind, c)
<1>1. Command(kind, c) \in [kind : Commands, from : Connections]  BY DEF Command
<1> QED  BY <1>1 DEF Send, ConnectionTypes

\* A reader keeps the types; the counters of a slot are those of its lemmas.
LEMMA ReaderKeepsTypesAndSlots ==
    ASSUME TypeOK, SlotsInv, NEW c \in Connections, Reader(c)
    PROVE  TypeOK' /\ SlotsInv'
<1>1. SessionTypes /\ ConnectionTypes  BY TypeParts
<1>2. UNCHANGED sessionVars => SessionTypes'
  BY <1>1 DEF sessionVars, SessionTypes
<1>3. CASE Accept(c)
  <2>1. SlotsInv' /\ active' \in Nat /\ unauth' \in Nat /\ guarded' \subseteq Connections
    BY <1>1, <1>3, AcceptCounts
  <2>2. pc' \in [Connections -> {"new", "hello", "known", "loaded", "joining", "seated",
                                 "ready", "playing", "leaving", "done"}]
    BY <1>1, <1>3 DEF Accept, Goto, ConnectionTypes
  <2>3. UNCHANGED <<sessionVars, writer, cut, snapshot, queue>>  BY <1>3 DEF Accept
  <2> QED
    BY <1>1, <1>2, <2>1, <2>2, <2>3, TypeParts DEF ConnectionTypes
<1>4. CASE Authenticate(c)
  <2>1. SlotsInv' /\ active' \in Nat /\ unauth' \in Nat /\ guarded' \subseteq Connections
    BY <1>1, <1>4, AuthenticateReleases
  <2>2. pc' \in [Connections -> {"new", "hello", "known", "loaded", "joining", "seated",
                                 "ready", "playing", "leaving", "done"}]
    BY <1>1, <1>4 DEF Authenticate, Goto, ConnectionTypes
  <2>3. UNCHANGED <<sessionVars, writer, cut, snapshot, queue>>
    BY <1>4 DEF Authenticate
  <2> QED
    BY <1>1, <1>2, <2>1, <2>2, <2>3, TypeParts DEF ConnectionTypes
<1>5. ASSUME EndReader(c), writer' = writer, pc[c] \notin {"new", "done"},
             UNCHANGED <<sessionVars, cut>>,
             snapshot' \in [Connections -> {"unread", "legacy", "current"}],
             queue' \in Seq([kind : Commands, from : Connections])
      PROVE  TypeOK' /\ SlotsInv'
  <2>1. SlotsInv' /\ active' \in Nat /\ unauth' \in Nat /\ guarded' \subseteq Connections
    BY <1>1, <1>5, ReaderGivesBack
  <2>2. pc' \in [Connections -> {"new", "hello", "known", "loaded", "joining", "seated",
                                 "ready", "playing", "leaving", "done"}]
    BY <1>1, <1>5 DEF EndReader, Goto, ConnectionTypes
  <2> QED
    BY <1>1, <1>5, <1>2, <2>1, <2>2, TypeParts DEF ConnectionTypes
<1>6. ASSUME NEW place \in {"known", "loaded", "joining", "seated", "ready", "playing",
                            "leaving"},
             Goto(c, place), pc[c] \notin {"new", "hello", "done"},
             writer[c] = "running" => place \in {"ready", "playing", "leaving"},
             UNCHANGED <<writer, guarded, active, unauth, cut>>, SessionTypes',
             snapshot' \in [Connections -> {"unread", "legacy", "current"}],
             queue' \in Seq([kind : Commands, from : Connections])
      PROVE  TypeOK' /\ SlotsInv'
  <2>1. SlotsInv'  BY <1>1, <1>6, SlotStays
  <2>2. pc' \in [Connections -> {"new", "hello", "known", "loaded", "joining", "seated",
                                 "ready", "playing", "leaving", "done"}]
    BY <1>1, <1>6 DEF Goto, ConnectionTypes
  <2> QED  BY <1>1, <1>6, <2>1, <2>2, TypeParts DEF ConnectionTypes
<1>7. CASE LoadCharacter(c)
  <2>1. snapshot' \in [Connections -> {"unread", "legacy", "current"}]
    <3>1. loadout[AccountOf[c]] \in {"legacy", "current"}
      BY <1>1, SessionAssumption DEF SessionTypes
    <3> QED  BY <1>1, <1>7, <3>1 DEF LoadCharacter, ConnectionTypes
  <2>2. /\ pc[c] = "known" /\ UNCHANGED <<sessionVars, writer, cut, queue>>
        /\ queue' \in Seq([kind : Commands, from : Connections])
    BY <1>1, <1>7 DEF LoadCharacter, ConnectionTypes
  <2>3. CASE Unsuitable(c)
    BY <1>5, <1>7, <2>1, <2>2, <2>3 DEF LoadCharacter
  <2>4. CASE ~Unsuitable(c)
    <3>1. Goto(c, "loaded") /\ UNCHANGED <<active, unauth, guarded>>
      BY <1>7, <2>4 DEF LoadCharacter
    <3>2. writer[c] # "running"  BY <2>2 DEF SlotsInv
    <3> QED  BY <1>6, <1>2, <2>1, <2>2, <3>1, <3>2
  <2> QED  BY <2>3, <2>4
<1>8. CASE GiveUp(c)
  <2>1. /\ snapshot' \in [Connections -> {"unread", "legacy", "current"}]
        /\ queue' \in Seq([kind : Commands, from : Connections])
    BY <1>1, <1>8 DEF GiveUp, ConnectionTypes
  <2> QED  BY <1>5, <1>8, <2>1 DEF GiveUp
<1>9. CASE SendJoin(c)
  <2>1. /\ pc[c] = "loaded" /\ Goto(c, "joining") /\ Send("Join", c)
        /\ UNCHANGED <<writer, guarded, active, unauth, cut, snapshot>>
    BY <1>9 DEF SendJoin
  <2>2. SessionTypes'  BY <1>1, <1>9 DEF SendJoin, SessionTypes
  <2>3. queue' \in Seq([kind : Commands, from : Connections])
    BY <1>1, <2>1, SendAppends DEF Commands
  <2>4. snapshot' \in [Connections -> {"unread", "legacy", "current"}]
    BY <1>1, <2>1 DEF ConnectionTypes
  <2>5. writer[c] # "running"  BY <2>1 DEF SlotsInv
  <2> QED  BY <1>6, <2>1, <2>2, <2>3, <2>4, <2>5
<1>10. CASE ReadVerdict(c)
  <2>1. /\ pc[c] = "joining" /\ UNCHANGED <<sessionVars, writer, cut, snapshot, queue>>
        /\ snapshot' \in [Connections -> {"unread", "legacy", "current"}]
        /\ queue' \in Seq([kind : Commands, from : Connections])
    BY <1>1, <1>10 DEF ReadVerdict, ConnectionTypes
  <2>2. CASE verdict[c] = "seated"
    <3>1. Goto(c, "seated") /\ UNCHANGED <<active, unauth, guarded>>
      BY <1>10, <2>2 DEF ReadVerdict
    <3>2. writer[c] # "running"  BY <2>1 DEF SlotsInv
    <3> QED  BY <1>6, <1>2, <2>1, <3>1, <3>2
  <2>3. CASE verdict[c] # "seated"
    BY <1>5, <1>10, <2>1, <2>3 DEF ReadVerdict
  <2> QED  BY <2>2, <2>3
<1>11. CASE OpenWriter(c)
  <2>1. SlotsInv'  BY <1>1, <1>11, OpenWriterCounts
  <2>2. ConnectionTypes'
    BY <1>1, <1>11 DEF OpenWriter, Goto, ConnectionTypes
  <2> QED  BY <1>2, <1>11, <2>1, <2>2, TypeParts DEF OpenWriter
<1>12. CASE SendStart(c)
  <2>1. /\ pc[c] = "ready" /\ Goto(c, "playing") /\ Send("Start", c)
        /\ UNCHANGED <<sessionVars, writer, guarded, active, unauth, cut, snapshot>>
    BY <1>12 DEF SendStart
  <2>2. queue' \in Seq([kind : Commands, from : Connections])
    BY <1>1, <2>1, SendAppends DEF Commands
  <2>3. snapshot' \in [Connections -> {"unread", "legacy", "current"}]
    BY <1>1, <2>1 DEF ConnectionTypes
  <2> QED  BY <1>6, <1>2, <2>1, <2>2, <2>3
<1>13. CASE SendIntent(c)
  <2>1. PICK kind \in {"Play", "Loadout"} : Send(kind, c)  BY <1>13 DEF SendIntent
  <2>2. kind \in Commands  BY DEF Commands
  <2>3. queue' \in Seq([kind : Commands, from : Connections])
    BY <1>1, <2>1, <2>2, SendAppends
  <2>4. UNCHANGED connectionVars /\ UNCHANGED sessionVars  BY <1>13 DEF SendIntent
  <2>5. SlotsInv'  BY <2>4 DEF connectionVars, SlotsInv, SlotsAreExact, Busy
  <2> QED
    BY <1>1, <1>2, <2>3, <2>4, <2>5, TypeParts DEF connectionVars, ConnectionTypes
<1>14. CASE HangUp(c)
  <2>1. /\ pc[c] \in {"seated", "playing"} /\ Goto(c, "leaving")
        /\ UNCHANGED <<sessionVars, writer, cut, snapshot, guarded, active, unauth, queue>>
    BY <1>14 DEF HangUp
  <2>2. /\ snapshot' \in [Connections -> {"unread", "legacy", "current"}]
        /\ queue' \in Seq([kind : Commands, from : Connections])
    BY <1>1, <2>1 DEF ConnectionTypes
  <2> QED  BY <1>6, <1>2, <2>1, <2>2
<1>15. CASE SendDisconnect(c)
  <2>1. /\ pc[c] = "leaving" /\ EndReader(c) /\ Send("Disconnect", c)
        /\ UNCHANGED <<sessionVars, writer, cut, snapshot>>
    BY <1>15 DEF SendDisconnect
  <2>2. queue' \in Seq([kind : Commands, from : Connections])
    BY <1>1, <2>1, SendAppends DEF Commands
  <2>3. snapshot' \in [Connections -> {"unread", "legacy", "current"}]
    BY <1>1, <2>1 DEF ConnectionTypes
  <2> QED  BY <1>5, <2>1, <2>2, <2>3
<1> QED
  BY <1>3, <1>4, <1>7, <1>8, <1>9, <1>10, <1>11, <1>12, <1>13, <1>14, <1>15
  DEF Reader

\* What the admissions and seats know of a step of one reader: where it goes, that it
\* waits for its verdict, and that it is gone only with no seat or after its Disconnect.
ReaderMove(c) ==
    /\ members' = members /\ verdict' = verdict
    /\ \A d \in Connections \ {c} : pc'[d] = pc[d]
    /\ pc'[c] \in Early => pc[c] \in Early
    /\ pc'[c] # pc[c] =>
          /\ pc[c] = "joining" => verdict[c] # "none"
          /\ pc'[c] = "done" => c \notin members \/ Queued("Disconnect", c)'
    /\ \A i \in DOMAIN queue : i \in DOMAIN queue' /\ queue'[i] = queue[i]
    /\ \A i \in DOMAIN queue' \ DOMAIN queue : \A j \in DOMAIN queue' \ DOMAIN queue :
          /\ i = j /\ queue'[i].from = c
          /\ queue'[i].kind = "Join" => pc[c] \in Early /\ pc'[c] = "joining"

\* A step that leaves the queue alone, or sends one command.
LEMMA MoveWithQueue ==
    ASSUME ConnectionTypes, NEW c \in Connections, NEW place,
           pc' = [pc EXCEPT ![c] = place], members' = members, verdict' = verdict,
           place \in Early => pc[c] \in Early,
           pc[c] = "joining" => verdict[c] # "none",
           place = "done" => c \notin members \/ Queued("Disconnect", c)',
           \/ queue' = queue
           \/ \E kind \in Commands : Send(kind, c) /\
                 (kind = "Join" => pc[c] \in Early /\ place = "joining")
    PROVE  ReaderMove(c)
<1>1. /\ pc'[c] = place /\ \A d \in Connections \ {c} : pc'[d] = pc[d]
  BY DEF ConnectionTypes
<1>2. CASE queue' = queue  BY <1>1, <1>2 DEF ReaderMove
<1>3. CASE queue' # queue
  <2>1. PICK kind \in Commands :
            Send(kind, c) /\ (kind = "Join" => pc[c] \in Early /\ place = "joining")
    BY <1>3
  <2>2. /\ Len(queue) \in Nat /\ Len(queue') = Len(queue) + 1
        /\ DOMAIN queue = 1 .. Len(queue) /\ DOMAIN queue' = 1 .. Len(queue')
        /\ \A i \in DOMAIN queue : queue'[i] = queue[i]
        /\ queue'[Len(queue')] = Command(kind, c)
    BY <2>1, SendAppends
  <2>3. DOMAIN queue' \ DOMAIN queue = {Len(queue')}  BY <2>2
  <2>4. DOMAIN queue \subseteq DOMAIN queue'  BY <2>2
  <2>5. queue'[Len(queue')].from = c /\ queue'[Len(queue')].kind = kind
    BY <2>2 DEF Command
  <2> HIDE <2>2
  <2>6. \A i \in DOMAIN queue : queue'[i] = queue[i]  BY <2>2
  <2> QED  BY <1>1, <2>1, <2>3, <2>4, <2>5, <2>6 DEF ReaderMove
<1> QED  BY <1>2, <1>3

\* Every reader moves so.
LEMMA ReadersMove ==
    ASSUME ConnectionTypes, AdmissionInv, NEW c \in Connections, Reader(c)
    PROVE  ReaderMove(c)
<1>1. c \in members => pc[c] \notin Early  BY DEF AdmissionInv
<1>2. pc[c] \in Early => verdict[c] = "none"  BY DEF AdmissionInv
<1>3. CASE Accept(c)
  <2>1. PICK place \in {"hello", "done"} : Goto(c, place)
    BY <1>3 DEF Accept
  <2>2. pc[c] = "new" /\ UNCHANGED <<members, verdict, queue>>
    BY <1>3 DEF Accept, sessionVars
  <2> QED  BY <1>1, <2>1, <2>2, MoveWithQueue DEF Goto, Early
<1>4. CASE Authenticate(c)
  <2>1. pc[c] = "hello" /\ Goto(c, "known") /\ UNCHANGED <<members, verdict, queue>>
    BY <1>4 DEF Authenticate, sessionVars
  <2> QED  BY <2>1, MoveWithQueue DEF Goto, Early
<1>5. CASE LoadCharacter(c)
  <2>1. PICK place \in {"loaded", "done"} : Goto(c, place)
    BY <1>5 DEF LoadCharacter, EndReader
  <2>2. pc[c] = "known" /\ UNCHANGED <<members, verdict, queue>>
    BY <1>5 DEF LoadCharacter, sessionVars
  <2> QED  BY <1>1, <2>1, <2>2, MoveWithQueue DEF Goto, Early
<1>6. CASE GiveUp(c)
  <2>1. Goto(c, "done") /\ pc[c] \in Early /\ UNCHANGED <<members, verdict, queue>>
    BY <1>6 DEF GiveUp, EndReader, sessionVars, Early
  <2> QED  BY <1>1, <2>1, MoveWithQueue DEF Goto, Early
<1>7. CASE SendJoin(c)
  <2>1. /\ pc[c] = "loaded" /\ Goto(c, "joining") /\ Send("Join", c)
        /\ UNCHANGED <<members, verdict>>
    BY <1>7 DEF SendJoin
  <2>2. \E kind \in Commands : Send(kind, c) /\
            (kind = "Join" => pc[c] \in Early /\ "joining" = "joining")
    BY <2>1 DEF Commands, Early
  <2> QED  BY <2>1, <2>2, MoveWithQueue DEF Goto, Early
<1>8. CASE ReadVerdict(c)
  <2>1. PICK place \in {"seated", "done"} : Goto(c, place) /\
            (place = "done" => verdict[c] # "seated")
    BY <1>8 DEF ReadVerdict, EndReader
  <2>2. /\ pc[c] = "joining" /\ verdict[c] # "none"
        /\ UNCHANGED <<members, verdict, queue>>
    BY <1>8 DEF ReadVerdict, sessionVars
  <2>3. place = "done" => c \notin members  BY <2>1 DEF AdmissionInv
  <2> QED  BY <2>1, <2>2, <2>3, MoveWithQueue DEF Goto, Early
<1>9. CASE OpenWriter(c)
  <2>1. pc[c] = "seated" /\ Goto(c, "ready") /\ UNCHANGED <<members, verdict, queue>>
    BY <1>9 DEF OpenWriter, sessionVars
  <2> QED  BY <2>1, MoveWithQueue DEF Goto, Early
<1>10. CASE SendStart(c)
  <2>1. /\ pc[c] = "ready" /\ Goto(c, "playing") /\ Send("Start", c)
        /\ UNCHANGED <<members, verdict>>
    BY <1>10 DEF SendStart, sessionVars
  <2>2. \E kind \in Commands : Send(kind, c) /\
            (kind = "Join" => pc[c] \in Early /\ "playing" = "joining")
    BY <2>1 DEF Commands
  <2> QED  BY <2>1, <2>2, MoveWithQueue DEF Goto, Early
<1>11. CASE SendIntent(c)
  <2>1. PICK kind \in {"Play", "Loadout"} : Send(kind, c)  BY <1>11 DEF SendIntent
  <2>2. /\ pc[c] = "playing" /\ UNCHANGED <<members, verdict, pc>>
    BY <1>11 DEF SendIntent, sessionVars, connectionVars
  <2>3. \E k \in Commands : Send(k, c) /\
            (k = "Join" => pc[c] \in Early /\ "playing" = "joining")
    BY <2>1 DEF Commands
  <2>4. pc' = [pc EXCEPT ![c] = "playing"]  BY <2>2 DEF ConnectionTypes
  <2> QED  BY <2>2, <2>3, <2>4, MoveWithQueue DEF Early
<1>12. CASE HangUp(c)
  <2>1. /\ pc[c] \in {"seated", "playing"} /\ Goto(c, "leaving")
        /\ UNCHANGED <<members, verdict, queue>>
    BY <1>12 DEF HangUp, sessionVars
  <2> QED  BY <2>1, MoveWithQueue DEF Goto, Early
<1>13. CASE SendDisconnect(c)
  <2>1. /\ pc[c] = "leaving" /\ Goto(c, "done") /\ Send("Disconnect", c)
        /\ UNCHANGED <<members, verdict>>
    BY <1>13 DEF SendDisconnect, EndReader, sessionVars
  <2>2. \E kind \in Commands : Send(kind, c) /\
            (kind = "Join" => pc[c] \in Early /\ "done" = "joining")
    BY <2>1 DEF Commands
  <2>3. Queued("Disconnect", c)'
    <3>1. /\ Len(queue) \in Nat /\ Len(queue') = Len(queue) + 1
          /\ DOMAIN queue' = 1 .. Len(queue')
          /\ queue'[Len(queue')] = Command("Disconnect", c)
      BY <2>1, SendAppends DEF Commands
    <3>2. Len(queue') \in DOMAIN queue'  BY <3>1
    <3> QED  BY <3>1, <3>2 DEF Queued, Command
  <2> QED  BY <2>1, <2>2, <2>3, MoveWithQueue DEF Goto, Early
<1> QED
  BY <1>3, <1>4, <1>5, <1>6, <1>7, <1>8, <1>9, <1>10, <1>11, <1>12, <1>13 DEF Reader

\* Whatever waits in the queue is a command.
LEMMA QueueHoldsCommands ==
    ASSUME ConnectionTypes, NEW i \in DOMAIN queue
    PROVE  queue[i] \in [kind : Commands, from : Connections]
<1> DEFINE R == [kind : Commands, from : Connections]
<1>1. queue \in Seq(R)  BY DEF ConnectionTypes
<1> HIDE DEF R
<1>2. i \in 1 .. Len(queue)  BY <1>1
<1>3. queue[i] \in R  BY <1>1, <1>2
<1> QED  BY <1>3 DEF R

\* A reader's move keeps the admissions and the seats.
LEMMA MoveKeepsSeats ==
    ASSUME ConnectionTypes, SessionTypes, AdmissionInv, SeatsAreLive,
           NEW c \in Connections, ReaderMove(c)
    PROVE  AdmissionInv' /\ SeatsAreLive'
<1>1. \A d \in Connections : verdict'[d] # "none" => pc'[d] \notin Early
  BY DEF AdmissionInv, ReaderMove
<1>2. ASSUME NEW i \in DOMAIN queue', queue'[i].kind = "Join"
      PROVE  pc'[queue'[i].from] = "joining" /\ verdict'[queue'[i].from] = "none"
  <2>1. CASE i \in DOMAIN queue
    <3>1. /\ pc[queue[i].from] = "joining" /\ verdict[queue[i].from] = "none"
          /\ queue'[i] = queue[i]
      BY <1>2, <2>1 DEF AdmissionInv, ReaderMove
    <3>2. queue[i].from \in Connections  BY <2>1, QueueHoldsCommands
    <3> QED  BY <3>1, <3>2 DEF ReaderMove
  <2>2. CASE i \notin DOMAIN queue
    <3>1. i \in DOMAIN queue' \ DOMAIN queue  BY <2>2
    <3>2. queue'[i].from = c /\ pc[c] \in Early /\ pc'[c] = "joining"
      BY <1>2, <3>1 DEF ReaderMove
    <3> QED  BY <3>2 DEF AdmissionInv, ReaderMove
  <2> QED  BY <2>1, <2>2
<1>3. ASSUME NEW i \in DOMAIN queue', NEW j \in DOMAIN queue',
             queue'[i].kind = "Join", queue'[j] = queue'[i]
      PROVE  i = j
  <2>1. ASSUME NEW k \in DOMAIN queue, NEW l \in DOMAIN queue' \ DOMAIN queue,
               queue'[k] = queue'[l], queue'[l].kind = "Join"
        PROVE  FALSE
    <3>1. queue'[l].from = c /\ pc[c] \in Early  BY <2>1 DEF ReaderMove
    <3>2. queue'[k] = queue[k]  BY DEF ReaderMove
    <3>3. queue[k].kind = "Join" /\ queue[k].from = c  BY <2>1, <3>1, <3>2
    <3>4. pc[c] = "joining"  BY <3>3 DEF AdmissionInv
    <3> QED  BY <3>1, <3>4 DEF Early
  <2>2. CASE i \in DOMAIN queue /\ j \in DOMAIN queue
    BY <1>3, <2>2 DEF AdmissionInv, ReaderMove
  <2>3. CASE i \in DOMAIN queue /\ j \notin DOMAIN queue
    BY <1>3, <2>1, <2>3
  <2>4. CASE i \notin DOMAIN queue /\ j \in DOMAIN queue
    BY <1>3, <2>1, <2>4
  <2>5. CASE i \notin DOMAIN queue /\ j \notin DOMAIN queue
    <3>1. i \in DOMAIN queue' \ DOMAIN queue /\ j \in DOMAIN queue' \ DOMAIN queue
      BY <2>5
    <3> QED  BY <3>1 DEF ReaderMove
  <2> QED  BY <2>2, <2>3, <2>4, <2>5
<1>4. \A d \in members' : verdict'[d] = "seated"
  BY DEF AdmissionInv, ReaderMove
<1>5. SeatsAreLive'
  <2> SUFFICES ASSUME NEW d \in members', pc'[d] = "done"
               PROVE  Queued("Disconnect", d)'
    BY DEF SeatsAreLive
  <2>1. d \in members /\ d \in Connections  BY DEF ReaderMove, SessionTypes
  <2>2. CASE pc[d] = "done"
    <3>1. PICK i \in DOMAIN queue : queue[i] = Command("Disconnect", d)
      BY <2>1, <2>2 DEF SeatsAreLive, Queued
    <3>2. i \in DOMAIN queue' /\ queue'[i] = queue[i]  BY DEF ReaderMove
    <3> QED  BY <3>1, <3>2 DEF Queued, Command
  <2>3. CASE pc[d] # "done"
    <3>1. d = c  BY <2>1, <2>3 DEF ReaderMove
    <3> QED  BY <2>1, <2>3, <3>1 DEF ReaderMove
  <2> QED  BY <2>2, <2>3
<1> QED  BY <1>1, <1>2, <1>3, <1>4, <1>5 DEF AdmissionInv

\* A step of a reader keeps the whole invariant.
LEMMA ReaderKeeps ==
    ASSUME GatewayInv, NEW c \in Connections, Reader(c)
    PROVE  GatewayInv'
<1>1. SessionTypes /\ ConnectionTypes  BY TypeParts DEF GatewayInv
<1>2. TypeOK' /\ SlotsInv'  BY ReaderKeepsTypesAndSlots DEF GatewayInv
<1>3. ReaderMove(c)  BY <1>1, ReadersMove DEF GatewayInv
<1>4. AdmissionInv' /\ SeatsAreLive'  BY <1>1, <1>3, MoveKeepsSeats DEF GatewayInv
<1>5. UNCHANGED <<members, joined, stage, starts>>
  BY DEF Reader, Accept, Authenticate, LoadCharacter, GiveUp, SendJoin, ReadVerdict,
         OpenWriter, SendStart, SendIntent, HangUp, SendDisconnect, sessionVars
<1>6. RoomInv'  BY <1>5 DEF GatewayInv, RoomInv
<1> QED  BY <1>2, <1>4, <1>6 DEF GatewayInv

\* So does the end of a writer.
LEMMA WriterKeeps ==
    ASSUME GatewayInv, NEW c \in Connections, EndWriter(c)
    PROVE  GatewayInv'
<1>1. SessionTypes /\ ConnectionTypes  BY TypeParts DEF GatewayInv
<1>2. SlotsInv' /\ active' \in Nat  BY <1>1, WriterGivesBack DEF GatewayInv
<1>3. /\ writer' = [writer EXCEPT ![c] = "ended"] /\ cut' = cut \cup {c}
      /\ outbound' = Closed({c})
      /\ UNCHANGED <<members, stage, session, verdict, loadout, joined, seated, starts,
                     fault, pc, snapshot, guarded, unauth, queue>>
  BY DEF EndWriter
<1>4. SessionTypes'  BY <1>1, <1>3 DEF SessionTypes, Closed
<1>5. ConnectionTypes'  BY <1>1, <1>2, <1>3 DEF ConnectionTypes
<1>6. AdmissionInv' /\ SeatsAreLive' /\ RoomInv'
  BY <1>3 DEF GatewayInv, AdmissionInv, SeatsAreLive, RoomInv, Queued, Command
<1> QED  BY <1>2, <1>4, <1>5, <1>6, TypeParts DEF GatewayInv

-----------------------------------------------------------------------------
(* The coordinator takes the next command *)

\* The head of the queue is a command, and every other one moves up by one place.
LEMMA HeadAndTail ==
    ASSUME ConnectionTypes, queue # <<>>, queue' = Tail(queue)
    PROVE  /\ Head(queue) \in [kind : Commands, from : Connections]
           /\ queue' \in Seq([kind : Commands, from : Connections])
           /\ 1 \in DOMAIN queue /\ Head(queue) = queue[1]
           /\ \A i \in DOMAIN queue' :
                 i \in Nat /\ i + 1 \in DOMAIN queue /\ queue'[i] = queue[i + 1]
           /\ \A i \in DOMAIN queue : i \in Nat /\
                 (i # 1 => i - 1 \in DOMAIN queue' /\ queue'[i - 1] = queue[i])
<1> DEFINE R == [kind : Commands, from : Connections]
<1>1. queue \in Seq(R)  BY DEF ConnectionTypes
<1> HIDE DEF R
<1>2. /\ Head(queue) \in R /\ queue' \in Seq(R)
      /\ Len(queue) \in Nat \ {0} /\ Len(queue') = Len(queue) - 1
      /\ Head(queue) = queue[1]
  BY <1>1
<1>3. DOMAIN queue = 1 .. Len(queue) /\ DOMAIN queue' = 1 .. Len(queue) - 1
  BY <1>1, <1>2
<1>4. \A i \in 1 .. Len(queue) - 1 : queue'[i] = queue[i + 1]
  BY <1>1, <1>2
<1>5. \A i \in 1 .. Len(queue) : i # 1 =>
          i - 1 \in 1 .. Len(queue) - 1 /\ queue'[i - 1] = queue[i]
  BY <1>2, <1>4
<1> QED  BY <1>2, <1>3, <1>4, <1>5 DEF R

\* A command keeps the invariant: it answers only the Join it takes, gives a seat only
\* to a connection that waits for it, and takes that of the one whose Disconnect it was.
LEMMA CoordinateKeeps ==
    ASSUME GatewayInv, Coordinate
    PROVE  GatewayInv'
<1> DEFINE command == Head(queue)
<1>1. SessionTypes /\ ConnectionTypes  BY TypeParts DEF GatewayInv
<1>2. /\ queue # <<>> /\ queue' = Tail(queue) /\ Handle(command)
      /\ UNCHANGED <<pc, writer, cut, snapshot, guarded, active, unauth>>
  BY DEF Coordinate, connectionVars
<1>3. /\ command \in [kind : Commands, from : Connections]
      /\ queue' \in Seq([kind : Commands, from : Connections])
      /\ 1 \in DOMAIN queue /\ command = queue[1]
  BY <1>1, <1>2, HeadAndTail
<1>4. \A i \in DOMAIN queue' :
          i \in Nat /\ i + 1 \in DOMAIN queue /\ queue'[i] = queue[i + 1]
  BY <1>1, <1>2, HeadAndTail
<1>5. \A i \in DOMAIN queue :
          i \in Nat /\ (i # 1 => i - 1 \in DOMAIN queue' /\ queue'[i - 1] = queue[i])
  BY <1>1, <1>2, HeadAndTail
<1> HIDE DEF command
<1>6. SessionTypes' /\ RoomInv'
  BY <1>1, <1>2, <1>3, HandleKeepsRoom DEF GatewayInv
<1>7. ConnectionTypes'  BY <1>1, <1>2, <1>3 DEF ConnectionTypes
<1>8. SlotsInv'  BY <1>2 DEF GatewayInv, SlotsInv, SlotsAreExact, Busy
<1>9. \/ /\ command.kind = "Join"
         /\ verdict'[command.from] # "none"
         /\ \A d \in Connections \ {command.from} : verdict'[d] = verdict[d]
         /\ \/ members' = members
            \/ /\ members' = members \cup {command.from}
               /\ verdict'[command.from] = "seated"
      \/ /\ command.kind \notin {"Join", "Disconnect"} /\ verdict' = verdict
         /\ members' = members \/ members' = {}
      \/ /\ command.kind = "Disconnect" /\ verdict' = verdict
         /\ members' = members \ {command.from} \/ members' = {}
  BY <1>1, <1>2, <1>3, HandleOnSeats
<1>10. command.kind = "Join" =>
           pc[command.from] = "joining" /\ verdict[command.from] = "none"
  BY <1>3 DEF GatewayInv, AdmissionInv
<1>11. AdmissionInv'
  <2>1. \A d \in Connections : verdict'[d] # "none" => pc'[d] \notin Early
    <3> SUFFICES ASSUME NEW d \in Connections, verdict'[d] # "none"
                 PROVE  pc[d] \notin Early
      BY <1>2
    <3>1. CASE command.kind = "Join" /\ d = command.from
      BY <1>10, <3>1 DEF Early
    <3>2. CASE ~(command.kind = "Join" /\ d = command.from)
      <4>1. verdict'[d] = verdict[d]  BY <1>9, <3>2
      <4> QED  BY <4>1 DEF GatewayInv, AdmissionInv
    <3> QED  BY <3>1, <3>2
  <2>2. ASSUME NEW i \in DOMAIN queue', queue'[i].kind = "Join"
        PROVE  pc'[queue'[i].from] = "joining" /\ verdict'[queue'[i].from] = "none"
    <3>1. /\ i \in Nat /\ i + 1 \in DOMAIN queue /\ queue'[i] = queue[i + 1]
          /\ i + 1 # 1
      <4>1. i \in 1 .. Len(queue')  BY <1>3
      <4> QED  BY <1>3, <1>4, <4>1
    <3>2. /\ pc[queue[i + 1].from] = "joining" /\ verdict[queue[i + 1].from] = "none"
      BY <2>2, <3>1 DEF GatewayInv, AdmissionInv
    <3>3. queue[i + 1] # queue[1]
      BY <1>3, <2>2, <3>1 DEF GatewayInv, AdmissionInv
    <3>4. queue[i + 1] \in [kind : Commands, from : Connections]
      BY <1>1, <3>1, QueueHoldsCommands
    <3>5. CASE command.kind = "Join"
      <4>1. queue[i + 1].from # command.from
        BY <1>3, <2>2, <3>1, <3>3, <3>4, <3>5
      <4> QED  BY <1>2, <1>9, <3>1, <3>2, <3>4, <3>5, <4>1
    <3>6. CASE command.kind # "Join"
      BY <1>2, <1>9, <3>1, <3>2, <3>6
    <3> QED  BY <3>5, <3>6
  <2>3. ASSUME NEW i \in DOMAIN queue', NEW j \in DOMAIN queue',
               queue'[i].kind = "Join", queue'[j] = queue'[i]
        PROVE  i = j
    <3>1. /\ i \in Nat /\ j \in Nat /\ i + 1 \in DOMAIN queue /\ j + 1 \in DOMAIN queue
          /\ queue[i + 1].kind = "Join" /\ queue[j + 1] = queue[i + 1]
      BY <1>4, <2>3
    <3>2. i + 1 = j + 1  BY <3>1 DEF GatewayInv, AdmissionInv
    <3> QED  BY <3>1, <3>2
  <2>4. \A d \in members' : verdict'[d] = "seated"
    <3> SUFFICES ASSUME NEW d \in members'  PROVE  verdict'[d] = "seated"
      OBVIOUS
    <3>1. CASE d \in members
      <4>1. verdict[d] = "seated"  BY <3>1 DEF GatewayInv, AdmissionInv
      <4>2. d \in Connections /\ ~(command.kind = "Join" /\ d = command.from)
        BY <1>1, <1>10, <3>1, <4>1 DEF SessionTypes
      <4> QED  BY <1>9, <4>1, <4>2
    <3>2. CASE d \notin members
      BY <1>9, <3>2
    <3> QED  BY <3>1, <3>2
  <2> QED  BY <2>1, <2>2, <2>3, <2>4 DEF AdmissionInv
<1>12. SeatsAreLive'
  <2> SUFFICES ASSUME NEW d \in members', pc'[d] = "done"
               PROVE  Queued("Disconnect", d)'
    BY DEF SeatsAreLive
  <2>1. d \in Connections  BY <1>6 DEF SessionTypes
  <2>2. d \in members
    <3>1. ~(command.kind = "Join" /\ d = command.from)  BY <1>2, <1>10
    <3> QED  BY <1>9, <3>1
  <2>3. ~(command.kind = "Disconnect" /\ command.from = d)  BY <1>9
  <2>4. PICK i \in DOMAIN queue : queue[i] = Command("Disconnect", d)
    BY <1>2, <2>2 DEF GatewayInv, SeatsAreLive, Queued
  <2>5. i # 1  BY <1>3, <2>3, <2>4 DEF Command
  <2>6. i - 1 \in DOMAIN queue' /\ queue'[i - 1] = Command("Disconnect", d)
    BY <1>5, <2>4, <2>5
  <2> QED  BY <2>6 DEF Queued, Command
<1> QED  BY <1>6, <1>7, <1>8, <1>11, <1>12, TypeParts DEF GatewayInv

-----------------------------------------------------------------------------
(* The theorems *)

\* The first states satisfy the invariant.
LEMMA InitGateway == Init => GatewayInv
<1> SUFFICES ASSUME Init  PROVE  GatewayInv
  OBVIOUS
<1> USE DEF Init, SessionInit
<1>1. TypeOK
  <2>1. <<>> \in Seq([kind : Commands, from : Connections])  OBVIOUS
  <2> QED  BY <2>1 DEF TypeOK, Stages, Faults
<1>2. SlotsInv
  <2>1. Busy = {} /\ {c \in Connections : pc[c] = "hello"} = {}  BY DEF Busy
  <2>2. /\ IsFiniteSet(Busy) /\ Cardinality(Busy) = 0
        /\ Cardinality({c \in Connections : pc[c] = "hello"}) = 0
    BY <2>1, FS_EmptySet
  <2>3. SlotsAreExact
    BY <2>2, LimitsAssumption DEF SlotsAreExact, Busy
  <2> QED  BY <2>1, <2>2, <2>3 DEF SlotsInv
<1>3. AdmissionInv /\ SeatsAreLive  BY DEF AdmissionInv, SeatsAreLive
<1>4. RoomInv  BY FS_EmptySet, SessionAssumption DEF RoomInv
<1> QED  BY <1>1, <1>2, <1>3, <1>4 DEF GatewayInv

\* Every step of the accept loop, the threads and the coordinator keeps it.
LEMMA NextGateway == GatewayInv /\ [Next]_vars => GatewayInv'
<1> SUFFICES ASSUME GatewayInv, [Next]_vars  PROVE  GatewayInv'
  OBVIOUS
<1>1. ASSUME NEW c \in Connections, Reader(c)  PROVE  GatewayInv'
  BY <1>1, ReaderKeeps
<1>2. ASSUME NEW c \in Connections, EndWriter(c)  PROVE  GatewayInv'
  BY <1>2, WriterKeeps
<1>3. CASE Coordinate  BY <1>3, CoordinateKeeps
<1>4. CASE UNCHANGED vars
  <2>1. TypeOK'
    BY <1>4 DEF vars, sessionVars, connectionVars, GatewayInv, TypeOK
  <2>2. SlotsInv'
    BY <1>4 DEF vars, sessionVars, connectionVars, GatewayInv, SlotsInv, SlotsAreExact,
                Busy
  <2>3. AdmissionInv' /\ SeatsAreLive' /\ RoomInv'
    BY <1>4 DEF vars, sessionVars, connectionVars, GatewayInv, AdmissionInv,
                SeatsAreLive, RoomInv, Queued, Command
  <2> QED  BY <2>1, <2>2, <2>3 DEF GatewayInv
<1> QED  BY <1>1, <1>2, <1>3, <1>4 DEF Next

\* The connections and the shared session keep their inductive invariant: the counters
\* of the server are the sizes of the sets they count, a connection waits for the one
\* verdict of its one Join, and an empty room is a fresh one.
THEOREM GatewayIsSound == Spec => []GatewayInv
<1> QED  BY InitGateway, NextGateway, PTL DEF Spec

\* No slot of the server is lost or given back twice, whoever ends last, so that
\* MAX_GAME_CONNECTIONS and MAX_UNAUTHENTICATED_CONNECTIONS hold.
THEOREM LimitsAlwaysHold == Spec => []LimitsHold
<1>1. GatewayInv => LimitsHold  BY DEF GatewayInv, SlotsInv, LimitsHold
<1> QED  BY <1>1, GatewayIsSound, PTL

\* A seat is held only by a live connection, or until its Disconnect is handled; an
\* activity has its players, recorded; an empty session keeps nothing of an earlier one.
THEOREM SessionAlwaysFollowsSeats == Spec => []SessionFollowsSeats
<1>1. GatewayInv => SessionFollowsSeats
  BY DEF GatewayInv, RoomInv, SessionFollowsSeats, ActivityHasPlayers,
         EmptySessionIsFresh
<1> QED  BY <1>1, GatewayIsSound, PTL

\* No command takes the seat of another connection but the abort after a database error,
\* and none gives a seat outside the waiting room.
THEOREM SeatsAreAlwaysRightful == Spec => SeatsAreRightful
<1>1. GatewayInv /\ [Next]_vars =>
          [/\ \A c \in members \ members' :
                 \/ Head(queue) = Command("Disconnect", c)
                 \/ fault' = "command" /\ members' = {} /\ session' = session + 1
           /\ \A c \in members' \ members : stage = "Waiting" /\ stage' = "Waiting"]_vars
  <2> SUFFICES ASSUME GatewayInv, Next
               PROVE  /\ \A c \in members \ members' :
                            \/ Head(queue) = Command("Disconnect", c)
                            \/ /\ fault' = "command" /\ members' = {}
                               /\ session' = session + 1
                      /\ \A c \in members' \ members :
                            stage = "Waiting" /\ stage' = "Waiting"
    OBVIOUS
  <2>1. SessionTypes /\ ConnectionTypes  BY TypeParts DEF GatewayInv
  <2>2. ASSUME NEW c \in Connections, Reader(c) \/ EndWriter(c)
        PROVE  members' = members
    BY <2>1, <2>2, ReadersMove DEF GatewayInv, ReaderMove, EndWriter
  <2>3. CASE Coordinate
    <3>1. Handle(Head(queue)) /\ Head(queue) \in [kind : Commands, from : Connections]
      BY <2>1, <2>3, HeadAndTail DEF Coordinate
    <3>2. /\ \A c \in members \ members' :
                \/ Head(queue).kind = "Disconnect" /\ Head(queue).from = c
                \/ fault' = "command" /\ members' = {} /\ session' = session + 1
          /\ \A c \in members' \ members : stage = "Waiting" /\ stage' = "Waiting"
      BY <2>1, <3>1, HandleOnSeats
    <3>3. \A c : Head(queue).kind = "Disconnect" /\ Head(queue).from = c =>
              Head(queue) = Command("Disconnect", c)
      BY <3>1 DEF Command
    <3> QED  BY <3>2, <3>3
  <2> QED  BY <2>2, <2>3 DEF Next
<1>2. GatewayInv /\ [Next]_vars =>
          [\A c \in members \ members' :
              \/ Head(queue) = Command("Disconnect", c)
              \/ fault' = "command" /\ members' = {} /\ session' = session + 1]_vars
  BY <1>1
<1>3. GatewayInv /\ [Next]_vars =>
          [\A c \in members' \ members : stage = "Waiting" /\ stage' = "Waiting"]_vars
  BY <1>1
<1> QED
  BY <1>2, <1>3, GatewayIsSound, PTL
  DEF Spec, SeatsAreRightful, SeatsAreTakenByOwner, NoLateSeat
=============================================================================
