-------------------------- MODULE CooperationLedger --------------------------
(***************************************************************************)
(* What the store of cooperation operations promises the gateway: one      *)
(* operation of the session, kept as the pure state of CooperationDomain,  *)
(* and calls that run one method on it.  Rows, replay evidence and grants  *)
(* are gone: `CooperationStore' has them and implements this module, and   *)
(* `CooperationRuntime' is the coordinator that lives on it.               *)
(*                                                                         *)
(* A call keeps what it has written or nothing.  Its caller may hear       *)
(* "Lost", which says neither.                                             *)
(***************************************************************************)
EXTENDS CooperationDomain

CONSTANT Distances      \* squared distances between the two participants

ASSUME DistancesAssumption == Distances \subseteq Int

VARIABLES
    stored,     \* the operation of the session, or None
    clock,      \* elapsed time since the start was committed
    reply       \* what the last caller was told

ledger == <<stored, clock, reply>>

Replies == Answers \cup {"Conflict", "EvidenceRefused", "Lost"}

LedgerInit == stored = None /\ clock = 0 /\ reply = "Applied"

\* Nothing is written.
Keep(said) == reply' = said /\ UNCHANGED <<stored, clock>>

\* s is written, and the answer or the whole transaction can be lost.
Put(s, said) ==
    \/ stored' = s /\ reply' \in {said, "Lost"} /\ UNCHANGED clock
    \/ Keep("Lost")

\* mutate_cooperation: an expired operation is ended, and a retry of what was done at
\* another time is a conflict.
Mutate(result, conflicts) ==
    \/ result.answer = "Expired" /\ Put(result.state, "Applied")
    \/ result.answer \in {"Terminal", "Rejected"} /\ Keep(result.answer)
    \/ result.answer \in {"Applied", "Cancelled"} /\ Put(result.state, result.answer)
    \/ result.answer \in {"Replayed", "Pending"} /\ Put(stored, result.answer)
    \/ result.answer \in {"Replayed", "Pending"} /\ conflicts /\ Keep("Conflict")

\* finish_cooperation_failure: the retry of an end, or the failure `result'.  The end of
\* a deadline has no subject in the evidence, so a role cannot be written with it.
FinishFailure(matches, role, result) ==
    \/ /\ ~Running(stored)
       /\ \/ stored.terminal \in matches /\ Put(stored, "Replayed")
          \/ Keep("Conflict")
    \/ /\ Running(stored)
       /\ \/ result.answer = "Applied" /\ Put(result.state, "Applied")
          \/ result.answer = "Expired" /\ role = None /\ Put(result.state, "Applied")
          \/ result.answer = "Expired" /\ role # None /\ Keep("EvidenceRefused")
          \/ result.answer = "Pending" /\ Keep("Conflict")
          \/ result.answer \notin {"Applied", "Expired", "Pending"}
             /\ Keep(result.answer)

-----------------------------------------------------------------------------
(* The calls *)

Start(id, profile, health) ==
    /\ stored = None
    /\ IF CanStart(profile, health)
       THEN Put(StartWithHealth(id, profile, health), "Applied")
       ELSE Keep("Rejected")

\* The retry of a start is compared with all that was admitted: `same' stands for the
\* identities, the weapons and the modules of the two participants.
RetriedStart(id, profile, health, same) ==
    /\ stored # None
    /\ IF RetryStart(stored, id, profile, health).answer = "Rejected"
       THEN Keep("Rejected")
       ELSE IF same THEN Put(stored, "Replayed") ELSE Keep("Conflict")

AnchorArrival ==
    /\ stored # None
    /\ IF "anchor_arrived" \in stored.contributions
       THEN Mutate(ObserveDeadlines(stored, clock), TRUE)
       ELSE Mutate(ArriveAnchor(stored, "Anchor", "RelayAnchor", clock), FALSE)

PingOf(id) ==
    /\ stored # None
    /\ Mutate(Ping(stored, "Anchor", "RelayConsole", id, clock), FALSE)

RunnerDown ==
    /\ stored # None
    /\ IF "runner_arrived" \in stored.contributions
       THEN Mutate(ObserveDeadlines(stored, clock), TRUE)
       ELSE Mutate(ArriveRunner(stored, "Runner", "RelayConsole", clock), FALSE)

ReviveStart(id, distance) ==
    /\ stored # None
    /\ Mutate(StartRevive(stored, "Anchor", "Runner", distance, id, clock), FALSE)

ReviveObserved(id, distance) ==
    /\ stored # None
    /\ LET result == ObserveRevive(stored, "Anchor", "Runner", distance, id, clock)
       IN  Mutate(result, result.answer = "Replayed")

\* A completion that comes too late is refused, and the timeout is not written.
Completion ==
    /\ stored # None
    /\ LET result == CompleteWarden(stored, clock)
       IN  IF ~Running(stored)
           THEN \/ stored.terminal = "Succeeded" /\ Put(stored, "Replayed")
                \/ Keep("Conflict")
           ELSE IF result.answer = "Applied"
           THEN Put(result.state, "Applied")
           ELSE Keep(result.answer)

TimedOut ==
    /\ stored # None
    /\ FinishFailure(Timeouts, None, ObserveDeadlines(stored, clock))

Defeat(role) ==
    /\ stored # None
    /\ FinishFailure({"FailedParticipantDefeated"}, role,
                     DefeatParticipant(stored, role, clock))

Abandon(role) ==
    /\ stored # None
    /\ FinishFailure({"AbandonedDisconnect"}, role, Disconnect(stored, clock))

LedgerTick ==
    /\ stored # None /\ clock < MaxElapsed
    /\ clock' = clock + 1
    /\ UNCHANGED <<stored, reply>>

-----------------------------------------------------------------------------

Healths(profile) == [Roles -> UNION {1 .. profile[r].max_health : r \in Roles}]

LedgerNext ==
    \/ LedgerTick
    \/ AnchorArrival \/ RunnerDown \/ Completion \/ TimedOut
    \/ \E id \in OperationIds :
          \/ PingOf(id)
          \/ \E distance \in Distances :
                ReviveStart(id, distance) \/ ReviveObserved(id, distance)
          \/ \E profile \in [Roles -> Profiles] : \E health \in Healths(profile) :
                \/ Start(id, profile, health)
                \/ \E same \in BOOLEAN : RetriedStart(id, profile, health, same)
    \/ \E role \in Roles : Defeat(role) \/ Abandon(role)

LedgerSpec == LedgerInit /\ [][LedgerNext]_ledger
=============================================================================
