--------------------------- MODULE Normalization ---------------------------
(***************************************************************************)
(* `persist_normalized` under every delivery order: the worker, a retry    *)
(* and a re-run after a crash hand it raw events in any order and any      *)
(* number of times.  The classifier is deterministic here: each raw event  *)
(* has one answer (`verdict`), as with the fake classifiers of the tests.  *)
(* A classifier that answers the same payload differently the next time is *)
(* in RawEventQueue.                                                       *)
(***************************************************************************)
EXTENDS EntityTables

VARIABLES
    verdict,        \* the classifier's answer for each raw event
    processed       \* the raw events with status = 'processed'

vars == <<entities, events, verdict, processed>>

TypeOK ==
    /\ TablesTypeOK
    /\ verdict \in [Raws -> Results]
    /\ processed \subseteq Raws

Init ==
    /\ TablesInit
    /\ verdict \in [Raws -> Results]
    /\ processed = {}

(***************************************************************************)
(* One call of persist_normalized for raw event r, first or repeated.      *)
(***************************************************************************)
Persist(r) ==
    /\ PersistTables(r, verdict[r])
    /\ processed' = processed \cup {r}
    /\ UNCHANGED verdict

Next == \E r \in Raws : Persist(r)

Spec == Init /\ [][Next]_vars

-----------------------------------------------------------------------------
(***************************************************************************)
(* Properties.                                                             *)
(***************************************************************************)

Classified(r) == verdict[r].kind # "unclassified"

Contributors(k) ==
    {r \in processed : Classified(r) /\ EntityKey(r, verdict[r]) = k}

\* The event tables hold one row for each processed raw event with a
\* classified answer, and no other row: re-runs add nothing and lose nothing.
LogMatchesProcessed ==
    events = {EventRow(r, verdict[r]) : r \in {p \in processed : Classified(p)}}

\* Whatever the order in which the raw events were persisted, an entity has a
\* row exactly when one of them names it, and the row shows the answer of one
\* that no other contributor is newer than.
ConvergesToLatest ==
    \A k \in EntityKeys :
        \/ entities[k] = Absent /\ Contributors(k) = {}
        \/ \E r \in Contributors(k) :
              /\ entities[k] = [state |-> verdict[r].state,
                                last_event_at |-> verdict[r].at]
              /\ \A s \in Contributors(k) : verdict[s].at <= verdict[r].at

\* Persisting a raw event again changes no table: the re-run that follows a
\* crash after COMMIT, or a second processor of the same row, is a no-op.
RerunIsNoOp ==
    [][\A r \in processed : Persist(r) => UNCHANGED tables]_vars
=============================================================================
