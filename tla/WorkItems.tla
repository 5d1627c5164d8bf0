----------------------------- MODULE WorkItems -----------------------------
(***************************************************************************)
(* What the raw_events queue promises, without workers, locks, copies or   *)
(* clocks: an item is taken up, and then settled, failed or given back.    *)
(* The budget of failures decides when a failed item is parked for good.   *)
(* The statuses are those of src/app/core/models.py.                       *)
(***************************************************************************)
EXTENDS Integers

CONSTANTS
    Items,      \* raw events
    SetAside,   \* those that arrive as duplicates
    Budget      \* worker_max_attempts

VARIABLES
    status,     \* the status of each item, "absent" before it arrives
    failures,   \* how often it has failed
    logged      \* the items that have a normalized event

vars == <<status, failures, logged>>

Init ==
    /\ status = [i \in Items |-> "absent"]
    /\ failures = [i \in Items |-> 0]
    /\ logged = {}

Arrive(i) ==
    /\ status[i] = "absent"
    /\ status' = [status EXCEPT ![i] =
                     IF i \in SetAside THEN "duplicate" ELSE "pending"]
    /\ UNCHANGED <<failures, logged>>

Take(i) ==
    /\ status[i] = "pending"
    /\ status' = [status EXCEPT ![i] = "processing"]
    /\ UNCHANGED <<failures, logged>>

\* Items whose takers are gone wait again; their failures are not counted.
GiveBack(S) ==
    /\ \A i \in S : status[i] = "processing"
    /\ status' = [i \in Items |-> IF i \in S THEN "pending" ELSE status[i]]
    /\ UNCHANGED <<failures, logged>>

\* The item gets its event, or none if there is nothing to log.
Settle(i) ==
    /\ status[i] = "processing"
    /\ status' = [status EXCEPT ![i] = "processed"]
    /\ logged' \in {logged, logged \cup {i}}
    /\ UNCHANGED failures

Fail(i) ==
    /\ status[i] = "processing"
    /\ failures' = [failures EXCEPT ![i] = @ + 1]
    /\ status' = [status EXCEPT ![i] =
                     IF failures[i] + 1 >= Budget THEN "failed" ELSE "pending"]
    /\ UNCHANGED logged

Next ==
    \/ \E i \in Items : Arrive(i) \/ Take(i) \/ Settle(i) \/ Fail(i)
    \/ \E S \in SUBSET Items : GiveBack(S)

Spec == Init /\ [][Next]_vars
=============================================================================
