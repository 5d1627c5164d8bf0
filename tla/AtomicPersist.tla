--------------------------- MODULE AtomicPersist ---------------------------
(***************************************************************************)
(* What `persist_normalized` promises: a call either commits and has the   *)
(* whole effect of one transaction, or leaves no trace.  PersistTx shows   *)
(* that its statements keep the promise; Normalization and RawEventQueue   *)
(* use it as their one-step persist.                                       *)
(***************************************************************************)
EXTENDS EntityTables

CONSTANTS
    Calls,        \* calls of persist_normalized, each in its own session
    RawOf,        \* the raw event of each call; several calls may share one
    Answers       \* the answers each call may be given

VARIABLES
    answer,       \* the answer each call is given
    outcome       \* "open", "committed" or "aborted"

vars == <<entities, events, answer, outcome>>

Init ==
    /\ TablesInit
    /\ answer \in [Calls -> Results]
    /\ \A c \in Calls : answer[c] \in Answers[c]
    /\ outcome = [c \in Calls |-> "open"]

Persist(c) ==
    /\ outcome[c] = "open"
    /\ PersistTables(RawOf[c], answer[c])
    /\ outcome' = [outcome EXCEPT ![c] = "committed"]
    /\ UNCHANGED answer

Abort(c) ==
    /\ outcome[c] = "open"
    /\ outcome' = [outcome EXCEPT ![c] = "aborted"]
    /\ UNCHANGED <<entities, events, answer>>

Next == \E c \in Calls : Persist(c) \/ Abort(c)

Spec == Init /\ [][Next]_vars
=============================================================================
