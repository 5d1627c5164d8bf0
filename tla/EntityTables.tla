---------------------------- MODULE EntityTables ----------------------------
(***************************************************************************)
(* The entity tables and the event logs that `persist_normalized` writes   *)
(* (src/app/services/normalization.py), and the typed answers of the       *)
(* classifier it writes from (src/app/core/events.py).  This module holds  *)
(* the tables and the effect of one persist transaction on them; the       *)
(* modules that extend it say when such a transaction runs.                *)
(*                                                                         *)
(* One persist transaction is one step.  The upsert of the entity row      *)
(* takes its row lock first and keeps it until COMMIT, so two transactions *)
(* on the same entity run one after the other.                             *)
(*                                                                         *)
(* Left out: `attributes`, `vendor_milestone` and `updated_at`, written by *)
(* the same statements as the columns kept here and read by no condition.  *)
(***************************************************************************)
EXTENDS Integers, FiniteSets

CONSTANTS
    Raws,         \* ids of raw_events rows, in the order of received_at
    Vendors,      \* values of raw_events.vendor_hint
    Refs,         \* external_ref: transport document or document reference
    States,       \* canonical_state of the classified payload variants
    EventTimes,   \* event_at, normalised to UTC
    VendorHint,   \* the vendor_hint of each raw event
    Absent        \* an entity that has no row

(***************************************************************************)
(* The classifier's answers: the members of the EventPayload union that    *)
(* make an entity, and UnclassifiedPayload, which makes none.              *)
(***************************************************************************)
Kinds == {"shipment", "invoice"}

ClassifiedResults ==
    [kind : Kinds, ref : Refs, state : States, at : EventTimes]

Unclassified == [kind |-> "unclassified"]

Results == ClassifiedResults \cup {Unclassified}

(***************************************************************************)
(* One row per (vendor, external_ref) in each of the tables shipments and  *)
(* invoices, and the rows of shipment_events and invoice_events.           *)
(***************************************************************************)
EntityKeys == [kind : Kinds, vendor : Vendors, ref : Refs]

NoTime == -1      \* last_event_at IS NULL
NoState == "null" \* current_state IS NULL

EntityRows == [state : States, last_event_at : EventTimes]

EventRows == [raw : Raws, entity : EntityKeys, state : States, at : EventTimes]

ASSUME RawsAssumption == Raws \subseteq Nat
ASSUME EventTimesAssumption == EventTimes \subseteq Nat
ASSUME VendorHintAssumption == VendorHint \in [Raws -> Vendors]
ASSUME AbsentAssumption == Absent \notin EntityRows

VARIABLES
    entities,     \* EntityKeys -> a row of shipments or invoices, or Absent
    events        \* the rows of shipment_events and invoice_events

tables == <<entities, events>>

TablesTypeOK ==
    /\ entities \in [EntityKeys -> EntityRows \cup {Absent}]
    /\ events \subseteq EventRows

TablesInit ==
    /\ entities = [k \in EntityKeys |-> Absent]
    /\ events = {}

EventsOf(k) == {x \in events : x.entity = k}

-----------------------------------------------------------------------------
(***************************************************************************)
(* The statements of the transaction.                                      *)
(***************************************************************************)

\* The entity's vendor is the URL's vendor_hint, never the one the LLM read.
EntityKey(r, e) == [kind |-> e.kind, vendor |-> VendorHint[r], ref |-> e.ref]

EventRow(r, e) ==
    [raw |-> r, entity |-> EntityKey(r, e), state |-> e.state, at |-> e.at]

\* Mutation of Upserted: the conflict branch resets the row to the defaults.
UpsertedAfresh(row) == [state |-> NoState, last_event_at |-> NoTime]

\* INSERT ... ON CONFLICT (vendor, external_ref) DO UPDATE SET updated_at: a
\* new row has no state yet, an existing row keeps its own.
Upserted(row) ==
    IF row = Absent THEN [state |-> NoState, last_event_at |-> NoTime] ELSE row

\* Mutations of IsNewer: <= for <, no guard.
IsNotOlder(at, row) == row.last_event_at = NoTime \/ row.last_event_at <= at
AlwaysNewer(at, row) == TRUE

\* The out-of-order guard: last_event_at IS NULL OR last_event_at < event_at.
IsNewer(at, row) == row.last_event_at = NoTime \/ row.last_event_at < at

\* The conditional UPDATE of current_state and last_event_at.
Advanced(row, e) ==
    IF IsNewer(e.at, row)
    THEN [state |-> e.state, last_event_at |-> e.at]
    ELSE row

\* Mutation of RawEventIdTaken: the conflict target is entity_id.
EntityIdTaken(r, e) == \E x \in events : x.entity = EntityKey(r, e)

\* raw_event_id is UNIQUE in each of the two event tables, not across them.
RawEventIdTaken(r, e) ==
    \E x \in events : x.raw = r /\ x.entity.kind = e.kind

\* INSERT ... ON CONFLICT (raw_event_id) DO NOTHING.
EventsWith(r, e) ==
    IF RawEventIdTaken(r, e) THEN events ELSE events \cup {EventRow(r, e)}

\* The tables after the transaction that persists answer e for raw event r.
PersistTables(r, e) ==
    IF e.kind = "unclassified"
    THEN UNCHANGED tables
    ELSE /\ entities' = [entities EXCEPT ![EntityKey(r, e)] =
                            Advanced(Upserted(@), e)]
         /\ events' = EventsWith(r, e)

-----------------------------------------------------------------------------
(***************************************************************************)
(* What README.md promises of the tables: the event log is the source of   *)
(* truth and the entity row a cache of its latest event.                   *)
(***************************************************************************)

\* Every entity row shows the state and the time of one of the events in its
\* own log, and no event in that log is newer: the cache that the conditional
\* UPDATE maintains never says anything the log does not.
EntityMirrorsLog ==
    \A k \in EntityKeys :
        entities[k] # Absent =>
            /\ \E x \in EventsOf(k) : x.state = entities[k].state
                                      /\ x.at = entities[k].last_event_at
            /\ \A x \in EventsOf(k) : x.at <= entities[k].last_event_at

EntitiesAdvance ==
    \A k \in EntityKeys :
        (entities[k] # Absent /\ entities'[k] # entities[k]) =>
            /\ entities'[k] # Absent
            /\ entities[k].last_event_at < entities'[k].last_event_at

\* Every raw event has at most one normalized event, in the two event tables
\* together: the second of README.md's idempotency layers.
OneNormalizedEvent ==
    \A x, y \in events : x.raw = y.raw => x = y

\* "Jump to latest, never roll back": a step that changes an entity's row
\* moves its last_event_at strictly forward, and no step removes the row.
NeverRollsBack == [][EntitiesAdvance]_tables
=============================================================================
