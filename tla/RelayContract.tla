--------------------------- MODULE RelayContract ---------------------------
(***************************************************************************)
(* What a cooperation operation promises, whatever its methods look like:  *)
(* the contributions are recorded one at a time and in the fixed order of  *)
(* the relay, none of them after the operation's time limit, the last one  *)
(* is the success, and an operation ends once.                             *)
(***************************************************************************)
EXTENDS Integers

CONSTANT Limit      \* no contribution is recorded when more time has passed

VARIABLES
    done,           \* the contributions recorded so far
    outcome,        \* "Running", "Succeeded" or "Failed"
    now             \* elapsed time of the operation

vars == <<done, outcome, now>>

\* What must have been recorded before a contribution is.
Before == [anchor_arrived   |-> {},
           pinged           |-> {"anchor_arrived"},
           runner_arrived   |-> {"anchor_arrived", "pinged"},
           revived          |-> {"anchor_arrived", "pinged", "runner_arrived"},
           warden_completed |-> {"anchor_arrived", "pinged", "runner_arrived", "revived"}]

Init == done = {} /\ outcome = "Running" /\ now = 0

\* Record the next contribution of the relay.
Contribute(c) ==
    /\ outcome = "Running" /\ now <= Limit
    /\ done = Before[c]
    /\ done' = done \cup {c}
    /\ outcome' = IF c = "warden_completed" THEN "Succeeded" ELSE "Running"
    /\ UNCHANGED now

\* A timeout, a defeat or a departure.
Fail ==
    /\ outcome = "Running"
    /\ outcome' = "Failed"
    /\ UNCHANGED <<done, now>>

Pass ==
    /\ now' \in Nat /\ now' > now
    /\ UNCHANGED <<done, outcome>>

Next == (\E c \in DOMAIN Before : Contribute(c)) \/ Fail \/ Pass

Spec == Init /\ [][Next]_vars
=============================================================================
