----------------------------- MODULE Migrations -----------------------------
(***************************************************************************)
(* The schema and its migrations (src/alembic/versions), run by alembic as *)
(* src/alembic/env.py configures it: all pending revisions in one          *)
(* transaction, after a look at the revision the database is at.  Several  *)
(* migrations may be started at a time, and the API's code of the revision *)
(* in force goes on inserting raw events.                                  *)
(*                                                                         *)
(* A schema is a set of objects <<table, what, name>>.  Of the rows only   *)
(* those of raw_events matter to a migration: whether there are any,       *)
(* whether they have a hash, and which of them are primaries.              *)
(***************************************************************************)
EXTENDS Naturals, Sequences

CONSTANTS
    Upgrades,      \* runs of `alembic upgrade head`
    Downgrades,    \* runs of `alembic downgrade -1`
    Deliveries,    \* raw events that are inserted meanwhile, all of one content
    StartAt        \* the revisions the database may be at to begin with

Runs == Upgrades \cup Downgrades

Revisions == <<"base", "0001", "0002", "0003">>
HeadRevision == Len(Revisions)

ASSUME RunsAssumption == Upgrades \cap Downgrades = {}
ASSUME StartAssumption == StartAt \subseteq 1 .. HeadRevision

-----------------------------------------------------------------------------
(***************************************************************************)
(* The objects of the five tables.                                         *)
(***************************************************************************)
Objects(table, what, names) == {<<table, what, n>> : n \in names}

EntityTable(t) ==
    Objects(t, "not_null", {"id", "vendor", "external_ref", "attributes",
                            "created_at", "updated_at"})
    \cup Objects(t, "null", {"current_state", "last_event_at"})
    \cup Objects(t, "unique", {"vendor_external_ref"})

EventTable(t, parent) ==
    Objects(t, "not_null", {"id", "entity_id", "raw_event_id", "canonical_state",
                            "event_at", "attributes", "created_at"})
    \cup Objects(t, "null", {"vendor_milestone"})
    \cup Objects(t, "unique", {"raw_event_id"})
    \cup Objects(t, "references", {parent, "raw_events"})

EventIndex(t) == {<<t, "index", "entity_id_event_at">>}

RawEventBase ==
    Objects("raw_events", "not_null", {"id", "vendor_hint", "payload",
                                       "received_at", "status", "attempts"})
    \cup Objects("raw_events", "null", {"last_error", "locked_at", "processed_at"})

DedupeKey == {<<"raw_events", "not_null", "dedupe_key">>}
UniqueDedupeKey == {<<"raw_events", "unique", "dedupe_key">>}
HashExact == {<<"raw_events", "not_null", "hash_exact">>}
DuplicateOf == {<<"raw_events", "null", "duplicate_of_id">>,
                <<"raw_events", "references", "raw_events">>}
Pending == {<<"raw_events", "index", "pending_received_at">>}
HashIndex == {<<"raw_events", "index", "vendor_hash_exact">>}
UniquePrimary ==
    {<<"raw_events", "unique", "primary_vendor_hash_exact">>}

\* What the ORM maps, and so what the code of the head revision works on.
Models ==
    RawEventBase \cup HashExact \cup DuplicateOf \cup Pending \cup UniquePrimary
    \cup EntityTable("shipments") \cup EntityTable("invoices")
    \cup EventTable("shipment_events", "shipments")
    \cup EventTable("invoice_events", "invoices")
    \cup EventIndex("shipment_events") \cup EventIndex("invoice_events")

-----------------------------------------------------------------------------
(***************************************************************************)
(* Operations of a migration: what they add and drop, the table they drop, *)
(* and what the rows must be like.                                         *)
(***************************************************************************)
AddTo(objects, needs) ==
    [add |-> objects, drop |-> {}, table |-> "none", needs |-> needs]
Add(objects) == AddTo(objects, "nothing")
Drop(objects) == [add |-> {}, drop |-> objects, table |-> "none", needs |-> "nothing"]
DropTable(t) == [add |-> {}, drop |-> {}, table |-> t, needs |-> "nothing"]

Up1 == << Add(RawEventBase \cup DedupeKey \cup UniqueDedupeKey), Add(Pending),
          Add(EntityTable("shipments")),
          Add(EventTable("shipment_events", "shipments")),
          Add(EventIndex("shipment_events")),
          Add(EntityTable("invoices")),
          Add(EventTable("invoice_events", "invoices")),
          Add(EventIndex("invoice_events")) >>
Down1 == << Drop(EventIndex("invoice_events")), DropTable("invoice_events"),
            DropTable("invoices"),
            Drop(EventIndex("shipment_events")), DropTable("shipment_events"),
            DropTable("shipments"),
            Drop(Pending), DropTable("raw_events") >>

Up2 == << Drop(Pending), Drop(UniqueDedupeKey), Drop(DedupeKey),
          AddTo(HashExact, "no_rows"), Add(DuplicateOf),
          Add(Pending), Add(HashIndex) >>
Down2 == << Drop(HashIndex), Drop(Pending), Drop(DuplicateOf), Drop(HashExact),
            AddTo(DedupeKey, "no_rows"), Add(UniqueDedupeKey), Add(Pending) >>

\* Mutation of Up3: the index is not unique, and so needs nothing of the rows.
Up3Plain == << Drop(HashIndex), Add(UniquePrimary) >>

Up3 == << Drop(HashIndex), AddTo(UniquePrimary, "one_primary") >>
Down3 == << Drop(UniquePrimary), Add(HashIndex) >>

\* The operations of revision i, and the stamp of the version table after it.
Stamp(from, to) == [from |-> from, to |-> to]

UpOf(i) == (CASE i = 2 -> Up1 [] i = 3 -> Up2 [] i = 4 -> Up3) \o <<Stamp(i - 1, i)>>
DownOf(i) ==
    (CASE i = 2 -> Down1 [] i = 3 -> Down2 [] i = 4 -> Down3) \o <<Stamp(i, i - 1)>>

\* What a run plans to do when it finds the database at revision i.
UpgradeFrom(i) ==
    CASE i = 1 -> UpOf(2) \o UpOf(3) \o UpOf(4)
      [] i = 2 -> UpOf(3) \o UpOf(4)
      [] i = 3 -> UpOf(4)
      [] i = 4 -> << >>
PlanFrom(m, i) ==
    IF m \in Upgrades THEN UpgradeFrom(i)
    ELSE IF i > 1 THEN DownOf(i) ELSE << >>

-----------------------------------------------------------------------------
RowKinds == {"none", "unhashed", "primary", "duplicate"}
Outcomes == {"new", "planned", "open", "ok", "failed", "killed"}

VARIABLES
    db,        \* the committed database: its schema, rows and revision
    work,      \* the database as the open migration sees it
    plan,      \* the operations each run has still to do
    state,     \* where each run is
    looked     \* deliveries to 0002's API between its SELECT and its INSERT

vars == <<db, work, plan, state, looked>>

Database == [schema : SUBSET (Models \cup DedupeKey \cup UniqueDedupeKey \cup HashIndex),
             rows : [Deliveries -> RowKinds], revision : 1 .. HeadRevision]

\* The schema of each revision, told from the models back.
SchemaAt(i) ==
    CASE i = 4 -> Models
      [] i = 3 -> (Models \ UniquePrimary) \cup HashIndex
      [] i = 2 -> (Models \ (UniquePrimary \cup HashExact \cup DuplicateOf))
                  \cup DedupeKey \cup UniqueDedupeKey
      [] i = 1 -> {}

Init ==
    /\ \E i \in StartAt :
          db = [schema |-> SchemaAt(i), revision |-> i,
                rows |-> [d \in Deliveries |-> "none"]]
    /\ work = db
    /\ plan = [m \in Runs |-> << >>]
    /\ state = [m \in Runs |-> "new"]
    /\ looked = {}

Goto(m, to) == state' = [state EXCEPT ![m] = to]

\* The DDL locks raw_events exclusively: other runs and the API wait for its end.
Locked == \E m \in Runs : state[m] = "open"

-----------------------------------------------------------------------------
(***************************************************************************)
(* One run of alembic.                                                     *)
(***************************************************************************)
ReadRevision(m) ==
    /\ state[m] = "new"
    /\ plan' = [plan EXCEPT ![m] = PlanFrom(m, db.revision)]
    /\ Goto(m, IF plan'[m] # << >> THEN "planned"
               ELSE IF m \in Upgrades THEN "ok" ELSE "failed")
    /\ UNCHANGED <<db, work, looked>>

\* The first statement that needs raw_events: it waits for who uses the table.
Begin(m) ==
    /\ state[m] = "planned"
    /\ ~Locked /\ looked = {}
    /\ work' = db
    /\ Goto(m, "open")
    /\ UNCHANGED <<db, plan, looked>>

OnTable(S, t) == {x \in S : x[1] = t}

\* The names exist or are free, no other table refers to the one dropped, and
\* the rows are as the constraint wants them.
Primaries(rows) == {d \in Deliveries : rows[d] = "primary"}

\* Mutation of RowsAllow: a new column is filled in by a default.
RowsAllowDefault(rows, needs) ==
    needs = "one_primary" => \A c, d \in Primaries(rows) : c = d

RowsAllow(rows, needs) ==
    CASE needs = "no_rows" -> \A d \in Deliveries : rows[d] = "none"
      [] needs = "one_primary" -> \A c, d \in Primaries(rows) : c = d
      [] OTHER -> TRUE

Applies(op) ==
    /\ op.drop \subseteq work.schema
    /\ op.add \cap work.schema = {}
    /\ op.table # "none" =>
          /\ OnTable(work.schema, op.table) # {}
          /\ \A x \in work.schema :
                x[2] = "references" /\ x[3] = op.table => x[1] = op.table
    /\ RowsAllow(work.rows, op.needs)

\* What becomes of the rows: a dropped table has none, a dropped hash is gone.
RowsAfter(op) ==
    [d \in Deliveries |->
        IF op.table = "raw_events" THEN "none"
        ELSE IF op.drop = HashExact /\ work.rows[d] # "none" THEN "unhashed"
        ELSE work.rows[d]]

IsStamp(x) == "from" \in DOMAIN x

\* The version table must be where the plan thinks it is.
Possible(x) == IF IsStamp(x) THEN work.revision = x.from ELSE Applies(x)

Apply(m) ==
    /\ state[m] = "open" /\ plan[m] # << >>
    /\ LET x == Head(plan[m]) IN
          /\ Possible(x)
          /\ work' = IF IsStamp(x) THEN [work EXCEPT !.revision = x.to]
                     ELSE [work EXCEPT
                        !.schema = ((@ \ x.drop) \ OnTable(@, x.table)) \cup x.add,
                        !.rows = RowsAfter(x)]
    /\ plan' = [plan EXCEPT ![m] = Tail(@)]
    /\ UNCHANGED <<db, state, looked>>

Commit(m) ==
    /\ state[m] = "open" /\ plan[m] = << >>
    /\ db' = work
    /\ Goto(m, "ok")
    /\ UNCHANGED <<work, plan, looked>>

\* Mutation of Abort: every statement commits on its own.
AbortButKeep(m) ==
    /\ state[m] = "open" /\ plan[m] # << >> /\ ~Possible(Head(plan[m]))
    /\ db' = work
    /\ Goto(m, "failed")
    /\ UNCHANGED <<work, plan, looked>>

\* Mutation of Abort: the run waits for the operation to become possible.
AbortNever(m) == FALSE /\ UNCHANGED vars

\* A statement that fails ends the run, and the transaction with it.
Abort(m) ==
    /\ state[m] = "open" /\ plan[m] # << >> /\ ~Possible(Head(plan[m]))
    /\ Goto(m, "failed")
    /\ UNCHANGED <<db, work, plan, looked>>

\* The container is stopped before the transaction ends.
Kill(m) ==
    /\ state[m] \in {"planned", "open"}
    /\ Goto(m, "killed")
    /\ UNCHANGED <<db, work, plan, looked>>

-----------------------------------------------------------------------------
(***************************************************************************)
(* The API of the revision in force stores one of the deliveries.          *)
(***************************************************************************)
Store(d, kind) ==
    /\ db' = [db EXCEPT !.rows[d] = kind]
    /\ UNCHANGED <<work, plan, state>>

Free(d) == db.rows[d] = "none" /\ d \notin looked /\ ~Locked

\* 0001: the row has a key of the vendor's, and no hash.
InsertKeyed(d) ==
    /\ db.revision = 2 /\ Free(d)
    /\ Store(d, "unhashed")
    /\ UNCHANGED looked

\* 0002: SELECT for a primary, then INSERT by what the SELECT found.
LookForPrimary(d) ==
    /\ db.revision = 3 /\ Free(d)
    /\ IF Primaries(db.rows) = {}
       THEN looked' = looked \cup {d} /\ UNCHANGED <<db, work, plan, state>>
       ELSE Store(d, "duplicate") /\ UNCHANGED looked

InsertLooked(d) ==
    /\ d \in looked
    /\ Store(d, "primary")
    /\ looked' = looked \ {d}

\* 0003: INSERT .. ON CONFLICT on the partial unique index.
InsertUnlessPrimary(d) ==
    /\ db.revision = 4 /\ Free(d)
    /\ Store(d, IF Primaries(db.rows) = {} THEN "primary" ELSE "duplicate")
    /\ UNCHANGED looked

-----------------------------------------------------------------------------
Step(m) == ReadRevision(m) \/ Begin(m) \/ Apply(m) \/ Commit(m) \/ Abort(m)

Deliver(d) ==
    InsertKeyed(d) \/ LookForPrimary(d) \/ InsertLooked(d) \/ InsertUnlessPrimary(d)

AllEnded ==
    /\ \A m \in Runs : state[m] \in {"ok", "failed", "killed"}
    /\ UNCHANGED vars

Next ==
    \/ \E m \in Runs : Step(m) \/ Kill(m)
    \/ \E d \in Deliveries : Deliver(d)
    \/ AllEnded

Spec == Init /\ [][Next]_vars

\* Alembic runs until it ends, and the API ends the transaction it has begun.
Fairness ==
    /\ \A m \in Runs : WF_vars(Step(m))
    /\ \A d \in Deliveries : WF_vars(InsertLooked(d))

FairSpec == Spec /\ Fairness

-----------------------------------------------------------------------------
(***************************************************************************)
(* Properties.                                                             *)
(***************************************************************************)
\* Every part of the state has its type.
TypeOK ==
    /\ db \in Database
    /\ work \in Database
    /\ state \in [Runs -> Outcomes]
    /\ looked \subseteq Deliveries

\* However the runs interleave, fail and are killed, whatever revision each of
\* them read first, the database has the schema of the revision it is stamped
\* with, and at the head that is the one the ORM maps (the operations of
\* 0001-0003 up and down, and alembic's one transaction for them all).
SchemaMatchesRevision == db.schema = SchemaAt(db.revision)

\* At the head at most one row of a content is a primary, also of the rows
\* that the racing API of 0002 left behind (0003's unique index).
HeadAdmitsOnePrimary ==
    db.revision = HeadRevision => \A c, d \in Primaries(db.rows) : c = d

\* A row has a hash just when the table has the column: no migration leaves
\* old rows behind with nothing in a NOT NULL column (0002, up and down).
RowsFitSchema ==
    \A d \in Deliveries : db.rows[d] # "none" =>
        (db.rows[d] = "unhashed" <=> HashExact \cap db.schema = {})

\* No run waits for ever for another one's locks or for the API's.
EveryMigrationEnds ==
    \A m \in Runs : <>(state[m] \in {"ok", "failed", "killed"})

\* What 0003's docstring promises of its upgrade: that it closes the race.  An
\* upgrade that is alone and not killed gets the database to the head.
UpgradeReachesHead ==
    \A m \in Upgrades :
        <>[](state[m] # "killed" => db.revision = HeadRevision)
=============================================================================
