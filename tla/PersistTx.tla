----------------------------- MODULE PersistTx -----------------------------
(***************************************************************************)
(* `persist_normalized` (src/app/services/normalization.py) statement by   *)
(* statement, in sessions that run at the same time under READ COMMITTED.  *)
(* The changes of an open transaction are its own (`mine`, `added`) until  *)
(* COMMIT; the locks its statements take keep the others away.             *)
(*                                                                         *)
(* The transactions that lock rows of raw_events alone take part as well:  *)
(* a reaper's UPDATE takes one row after the other, the acquisition of a   *)
(* retry one row FOR UPDATE, and the same is allowed to a claim, although  *)
(* SKIP LOCKED never waits.                                                *)
(***************************************************************************)
EXTENDS EntityTables

CONSTANTS
    Calls, RawOf, Answers,   \* as in AtomicPersist
    Reapers,                 \* transactions of reap_stale and mark_failed
    Acquirers                \* transactions of a retry's phase 1 and claim_one

RowTxs == Reapers \cup Acquirers
Txs == Calls \cup RowTxs

ASSUME CallsAssumption ==
    /\ RawOf \in [Calls -> Raws]
    /\ Answers \in [Calls -> SUBSET Results]
    /\ Calls \cap RowTxs = {}

NoRow == -1
PCs == {"upsert", "event", "foreignKey", "update", "mark", "commit",
        "committed", "aborted"}

VARIABLES
    answer,    \* the answer each call is given
    pc,        \* the statement each call is about to run
    mine,      \* the entity row as the call's transaction sees it
    added,     \* the event rows the call's transaction has inserted
    target,    \* the raw_events row a reaper or acquirer is about to lock
    held       \* the locks each transaction holds

vars == <<entities, events, answer, pc, mine, added, target, held>>

Classified(c) == answer[c].kind # "unclassified"
Open(c) == pc[c] \notin {"committed", "aborted"}

-----------------------------------------------------------------------------
(***************************************************************************)
(* Locks.  A row of shipments or invoices, and an entry of the unique      *)
(* index on raw_event_id, belongs to the transaction that wrote it until   *)
(* its end.  The foreign key to raw_events takes KEY SHARE on the row, the *)
(* mark NO KEY UPDATE, an acquisition FOR UPDATE.                          *)
(***************************************************************************)
Modes == {"keyShare", "noKeyUpdate", "forUpdate"}

Conflicting(m, n) ==
    "forUpdate" \in {m, n} \/ (m = "noKeyUpdate" /\ n = "noKeyUpdate")

\* Mutation of EntityLock: ON CONFLICT DO NOTHING, which locks no row.
EntityLockShared(c) ==
    [on |-> <<"entity", EntityKey(RawOf[c], answer[c])>>, mode |-> "keyShare"]

EntityLock(c) ==
    [on |-> <<"entity", EntityKey(RawOf[c], answer[c])>>, mode |-> "noKeyUpdate"]
EventLock(c) ==
    [on |-> <<"event", <<answer[c].kind, RawOf[c]>>>>, mode |-> "noKeyUpdate"]
RawLock(r, m) == [on |-> <<"raw", r>>, mode |-> m]

\* Mutation of MarkMode: the row is refreshed FOR UPDATE before it is marked.
MarkForUpdate == "forUpdate"

MarkMode == "noKeyUpdate"

\* The lock that the next statement of call c needs.
LockOf(c) ==
    CASE pc[c] = "upsert" -> {EntityLock(c)}
      [] pc[c] = "event" -> {EventLock(c)}
      [] pc[c] = "foreignKey" -> {RawLock(RawOf[c], "keyShare")}
      [] pc[c] = "mark" -> {RawLock(RawOf[c], MarkMode)}
      [] OTHER -> {}

RowMode(t) == IF t \in Reapers THEN "noKeyUpdate" ELSE "forUpdate"

Wanted(t) ==
    IF t \in Calls THEN LockOf(t)
    ELSE {RawLock(r, RowMode(t)) : r \in {target[t]} \ {NoRow}}

WaitsFor(t) ==
    {u \in Txs \ {t} : \E l \in Wanted(t), m \in held[u] :
                          l.on = m.on /\ Conflicting(l.mode, m.mode)}

\* Transaction t runs its next statement, once the lock is free.
TakeLock(t) ==
    /\ WaitsFor(t) = {}
    /\ held' = [held EXCEPT ![t] = @ \cup Wanted(t)]

ReleaseLocks(t) == held' = [held EXCEPT ![t] = {}]

-----------------------------------------------------------------------------
Locks == [on : {"entity"} \X EntityKeys \cup {"event"} \X (Kinds \X Raws)
               \cup {"raw"} \X Raws,
          mode : Modes]

OpenRows ==
    [state : States \cup {NoState}, last_event_at : EventTimes \cup {NoTime}]

TypeOK ==
    /\ TablesTypeOK
    /\ answer \in [Calls -> Results]
    /\ pc \in [Calls -> PCs]
    /\ mine \in [Calls -> OpenRows \cup {Absent}]
    /\ added \in [Calls -> SUBSET EventRows]
    /\ target \in [RowTxs -> Raws \cup {NoRow}]
    /\ held \in [Txs -> SUBSET Locks]

\* An unclassified answer leads straight to the mark.
Init ==
    /\ TablesInit
    /\ answer \in [Calls -> Results]
    /\ \A c \in Calls : answer[c] \in Answers[c]
    /\ pc = [c \in Calls |-> IF Classified(c) THEN "upsert" ELSE "mark"]
    /\ mine = [c \in Calls |-> Absent]
    /\ added = [c \in Calls |-> {}]
    /\ target = [t \in RowTxs |-> NoRow]
    /\ held = [t \in Txs |-> {}]

Goto(c, to) == pc' = [pc EXCEPT ![c] = to]

(***************************************************************************)
(* The statements.  Each sees what is committed when it starts, and what   *)
(* its own transaction has written.                                        *)
(***************************************************************************)
Upsert(c) ==
    /\ pc[c] = "upsert"
    /\ TakeLock(c)
    /\ mine' = [mine EXCEPT ![c] =
                   Upserted(entities[EntityKey(RawOf[c], answer[c])])]
    /\ Goto(c, "event")
    /\ UNCHANGED <<tables, answer, added, target>>

\* A rival's open insert of the same raw_event_id is waited for.
InsertEvent(c) ==
    /\ pc[c] = "event"
    /\ TakeLock(c)
    /\ ~RawEventIdTaken(RawOf[c], answer[c])
    /\ added' = [added EXCEPT ![c] = {EventRow(RawOf[c], answer[c])}]
    /\ Goto(c, "foreignKey")
    /\ UNCHANGED <<tables, answer, mine, target>>

\* ON CONFLICT DO NOTHING: no row, no index entry, no foreign key to check.
EventTaken(c) ==
    /\ pc[c] = "event"
    /\ WaitsFor(c) = {}
    /\ RawEventIdTaken(RawOf[c], answer[c])
    /\ Goto(c, "update")
    /\ UNCHANGED <<tables, answer, mine, added, target, held>>

\* The end of the same INSERT: the trigger that checks raw_event_id.
CheckForeignKey(c) ==
    /\ pc[c] = "foreignKey"
    /\ TakeLock(c)
    /\ Goto(c, "update")
    /\ UNCHANGED <<tables, answer, mine, added, target>>

UpdateEntity(c) ==
    /\ pc[c] = "update"
    /\ mine' = [mine EXCEPT ![c] = Advanced(@, answer[c])]
    /\ Goto(c, "mark")
    /\ UNCHANGED <<tables, answer, added, target, held>>

\* The flush of status, processed_at and last_error of the raw event.
Mark(c) ==
    /\ pc[c] = "mark"
    /\ TakeLock(c)
    /\ Goto(c, "commit")
    /\ UNCHANGED <<tables, answer, mine, added, target>>

Commit(c) ==
    /\ pc[c] = "commit"
    /\ entities' = IF Classified(c)
                   THEN [entities EXCEPT ![EntityKey(RawOf[c], answer[c])] = mine[c]]
                   ELSE entities
    /\ events' = events \cup added[c]
    /\ ReleaseLocks(c)
    /\ Goto(c, "committed")
    /\ UNCHANGED <<answer, mine, added, target>>

\* A statement or the COMMIT fails, or the process dies.
Rollback(c) ==
    /\ Open(c)
    /\ ReleaseLocks(c)
    /\ Goto(c, "aborted")
    /\ UNCHANGED <<tables, answer, mine, added, target>>

-----------------------------------------------------------------------------
(***************************************************************************)
(* The transactions on raw_events alone.                                   *)
(***************************************************************************)
\* A scan meets the rows in one order; an acquisition takes one row.
NextRow(t, r) ==
    \/ held[t] = {}
    \/ t \in Reapers /\ \A l \in held[t] : l.on[2] < r

\* The WHERE clause selects row r.
SelectRow(t, r) ==
    /\ target[t] = NoRow
    /\ NextRow(t, r)
    /\ target' = [target EXCEPT ![t] = r]
    /\ UNCHANGED <<tables, answer, pc, mine, added, held>>

LockRow(t) ==
    /\ target[t] # NoRow
    /\ TakeLock(t)
    /\ target' = [target EXCEPT ![t] = NoRow]
    /\ UNCHANGED <<tables, answer, pc, mine, added>>

\* COMMIT or rollback.
EndRowTx(t) ==
    /\ target' = [target EXCEPT ![t] = NoRow]
    /\ ReleaseLocks(t)
    /\ UNCHANGED <<tables, answer, pc, mine, added>>

CallStep(c) ==
    \/ Upsert(c) \/ InsertEvent(c) \/ EventTaken(c) \/ CheckForeignKey(c)
    \/ UpdateEntity(c) \/ Mark(c) \/ Commit(c)

RowTxStep(t) ==
    (\E r \in Raws : SelectRow(t, r)) \/ LockRow(t) \/ EndRowTx(t)

Ended == \A c \in Calls : ~Open(c)

Next ==
    \/ \E c \in Calls : CallStep(c) \/ Rollback(c)
    \/ \E t \in RowTxs : RowTxStep(t)
    \/ Ended /\ UNCHANGED vars

Spec == Init /\ [][Next]_vars

-----------------------------------------------------------------------------
(***************************************************************************)
(* Properties.                                                             *)
(***************************************************************************)
Outcome ==
    [c \in Calls |-> IF Open(c) THEN "open" ELSE pc[c]]

Atomic == INSTANCE AtomicPersist WITH outcome <- Outcome

\* The statements of concurrent calls, on one entity or of one raw event,
\* have the effect of whole calls one after the other: nothing that a call
\* read is stale when its transaction commits.
ImplementsAtomicPersist == Atomic!Spec

\* The transactions never wait for each other in a circle, so the database
\* never aborts a persist to break a deadlock: of any set of transactions, one
\* waits for none of the set.
NoWaitCycle ==
    \A S \in SUBSET Txs : S # {} => \E t \in S : WaitsFor(t) \cap S = {}
=============================================================================
