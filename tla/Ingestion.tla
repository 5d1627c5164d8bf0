----------------------------- MODULE Ingestion -----------------------------
(***************************************************************************)
(* The webhook request path: POST /webhooks/{vendor}                       *)
(* (src/app/api/webhooks.py) and insert_raw_event                          *)
(* (src/app/services/ingestion.py), run by concurrent requests against the *)
(* partial unique index uq_raw_events_primary_per_hash.                    *)
(*                                                                         *)
(* A delivery is one HTTP request and names the raw_events row it inserts. *)
(* A vendor's re-send is another delivery with the same content.  A step   *)
(* is one SQL statement, the response, or the end of the transaction.      *)
(*                                                                         *)
(* The response leaves before the COMMIT: get_session commits in the exit  *)
(* code of a dependency with `yield`, which the framework version of       *)
(* uv.lock runs after it has sent the response.                            *)
(***************************************************************************)
EXTENDS FiniteSets

CONSTANTS
    Deliveries,   \* HTTP requests
    Vendors,      \* values of the {vendor} path segment
    Hashes,       \* values of canonical_hash
    VendorOf,     \* the vendor path of each delivery
    HashOf,       \* the canonical hash of each delivery's body
    NoParent      \* duplicate_of_id IS NULL

ASSUME VendorOfAssumption == VendorOf \in [Deliveries -> Vendors]
ASSUME HashOfAssumption == HashOf \in [Deliveries -> Hashes]
ASSUME NoParentAssumption == NoParent \notin Deliveries

\* The columns of uq_raw_events_primary_per_hash.
SameContent(c, d) == VendorOf[c] = VendorOf[d] /\ HashOf[c] = HashOf[d]

RowStates == {"none", "primary", "duplicate"}
PCs == {"idle", "insert", "lookup", "chain", "respond", "commit", "done"}
Acks == {"none", "rejected", "error", "accepted"}

VARIABLES
    stored,       \* the committed raw_events row of each delivery
    open,         \* the row in the delivery's open transaction
    parent,       \* parent_id: duplicate_of_id of the row and the response
    pc,           \* where the request is
    ack           \* the response: 4xx, 5xx or 202

vars == <<stored, open, parent, pc, ack>>

TypeOK ==
    /\ stored \in [Deliveries -> RowStates]
    /\ open \in [Deliveries -> RowStates]
    /\ parent \in [Deliveries -> Deliveries \cup {NoParent}]
    /\ pc \in [Deliveries -> PCs]
    /\ ack \in [Deliveries -> Acks]

Init ==
    /\ stored = [d \in Deliveries |-> "none"]
    /\ open = [d \in Deliveries |-> "none"]
    /\ parent = [d \in Deliveries |-> NoParent]
    /\ pc = [d \in Deliveries |-> "idle"]
    /\ ack = [d \in Deliveries |-> "none"]

Goto(d, to) == pc' = [pc EXCEPT ![d] = to]

-----------------------------------------------------------------------------
(***************************************************************************)
(* _read_json_body: a body that is too large, empty or no JSON object is   *)
(* refused before any statement runs.                                      *)
(***************************************************************************)
Receive(d) ==
    /\ pc[d] = "idle"
    /\ Goto(d, "insert")
    /\ UNCHANGED <<stored, open, parent, ack>>

RejectBody(d) ==
    /\ pc[d] = "idle"
    /\ Goto(d, "done")
    /\ ack' = [ack EXCEPT ![d] = "rejected"]
    /\ UNCHANGED <<stored, open, parent>>

(***************************************************************************)
(* Phase 1: INSERT ... ON CONFLICT (vendor_hint, hash_exact) WHERE         *)
(* duplicate_of_id IS NULL DO NOTHING.  A primary in another open          *)
(* transaction makes the statement wait for that transaction's end.        *)
(***************************************************************************)
Primaries(d) == {c \in Deliveries : stored[c] = "primary" /\ SameContent(c, d)}

\* Mutation of MustWait: the index does not cover open transactions, as the
\* non-unique index of migration 0002.
NeverWaits(d) == FALSE

MustWait(d) ==
    \E c \in Deliveries : open[c] = "primary" /\ SameContent(c, d)

InsertPrimary(d) ==
    /\ pc[d] = "insert"
    /\ ~MustWait(d)
    /\ Primaries(d) = {}
    /\ open' = [open EXCEPT ![d] = "primary"]
    /\ Goto(d, "respond")
    /\ UNCHANGED <<stored, parent, ack>>

Conflict(d) ==
    /\ pc[d] = "insert"
    /\ ~MustWait(d)
    /\ Primaries(d) # {}
    /\ Goto(d, "lookup")
    /\ UNCHANGED <<stored, open, parent, ack>>

\* Mutations of Lookup: without vendor_hint in the WHERE clause; without
\* duplicate_of_id IS NULL.
LookupAnyVendor(d) ==
    /\ pc[d] = "lookup"
    /\ \E c \in Deliveries :
          /\ stored[c] = "primary" /\ HashOf[c] = HashOf[d]
          /\ parent' = [parent EXCEPT ![d] = c]
    /\ Goto(d, "chain")
    /\ UNCHANGED <<stored, open, ack>>
LookupAnyRow(d) ==
    /\ pc[d] = "lookup"
    /\ \E c \in Deliveries :
          /\ stored[c] # "none" /\ SameContent(c, d)
          /\ parent' = [parent EXCEPT ![d] = c]
    /\ Goto(d, "chain")
    /\ UNCHANGED <<stored, open, ack>>

\* Phase 2: the parent's id.  Without a row scalar_one() would raise.
Lookup(d) ==
    /\ pc[d] = "lookup"
    /\ \E c \in Primaries(d) : parent' = [parent EXCEPT ![d] = c]
    /\ Goto(d, "chain")
    /\ UNCHANGED <<stored, open, ack>>

\* Phase 3: the duplicate row, outside the partial index.
InsertDuplicate(d) ==
    /\ pc[d] = "chain"
    /\ open' = [open EXCEPT ![d] = "duplicate"]
    /\ Goto(d, "respond")
    /\ UNCHANGED <<stored, parent, ack>>

-----------------------------------------------------------------------------
(***************************************************************************)
(* The response, and the exit of session_scope.                            *)
(***************************************************************************)
Respond(d) ==
    /\ pc[d] = "respond"
    /\ ack' = [ack EXCEPT ![d] = "accepted"]
    /\ Goto(d, "commit")
    /\ UNCHANGED <<stored, open, parent>>

Commit(d) ==
    /\ pc[d] = "commit"
    /\ stored' = [stored EXCEPT ![d] = open[d]]
    /\ open' = [open EXCEPT ![d] = "none"]
    /\ Goto(d, "done")
    /\ UNCHANGED <<parent, ack>>

(***************************************************************************)
(* A statement or the COMMIT fails, or the API process dies: the           *)
(* transaction is rolled back.  A response already sent stays sent.  The   *)
(* death of a process is this step for each of its open requests.          *)
(***************************************************************************)
InTransaction(d) == pc[d] \in {"insert", "lookup", "chain", "respond", "commit"}

\* Mutation of Rollback: the transaction is left open.
RollbackForgotten(d) ==
    /\ InTransaction(d)
    /\ ack' = [ack EXCEPT ![d] = IF @ = "none" THEN "error" ELSE @]
    /\ Goto(d, "done")
    /\ UNCHANGED <<stored, open, parent>>

Rollback(d) ==
    /\ InTransaction(d)
    /\ open' = [open EXCEPT ![d] = "none"]
    /\ ack' = [ack EXCEPT ![d] = IF @ = "none" THEN "error" ELSE @]
    /\ Goto(d, "done")
    /\ UNCHANGED <<stored, parent>>

RequestStep(d) ==
    \/ InsertPrimary(d) \/ Conflict(d) \/ Lookup(d) \/ InsertDuplicate(d)
    \/ Respond(d) \/ Commit(d)

Finished == \A d \in Deliveries : pc[d] = "done"

Next ==
    \/ \E d \in Deliveries :
          Receive(d) \/ RejectBody(d) \/ RequestStep(d) \/ Rollback(d)
    \/ Finished /\ UNCHANGED vars

Spec == Init /\ [][Next]_vars

\* The event loop runs every request whose statement is not waiting.
FairSpec == Spec /\ \A d \in Deliveries : WF_vars(RequestStep(d))

-----------------------------------------------------------------------------
(***************************************************************************)
(* Properties.                                                             *)
(***************************************************************************)

\* At most one committed primary for one vendor and content, however the
\* identical requests interleave: the worker classifies the content once.
OnePrimaryPerContent ==
    \A c, d \in Deliveries :
        /\ stored[c] = "primary"
        /\ stored[d] = "primary"
        /\ SameContent(c, d)
        => c = d

\* A committed duplicate points at a committed primary of its own vendor and
\* content: nothing is set aside as a duplicate of a row that never was.
DuplicatesHaveParent ==
    \A d \in Deliveries :
        stored[d] = "duplicate" => parent[d] \in Primaries(d)

\* A 202 that says "duplicate of p" is true when it is sent and afterwards,
\* even if the duplicate row itself is rolled back.
AckedParentIsStored ==
    \A d \in Deliveries :
        ack[d] = "accepted" /\ parent[d] # NoParent =>
            stored[parent[d]] = "primary"

\* ingestion.py: "Always inserts a row"; README: raw_events is the durable
\* inbox.  A vendor that was told 202 finds its body there.
AckedIsStored ==
    \A d \in Deliveries :
        ack[d] = "accepted" /\ pc[d] = "done" => stored[d] # "none"

\* No request waits for ever behind an identical one: every request that
\* reached the database ends, however the others end.
EveryRequestEnds ==
    \A d \in Deliveries : InTransaction(d) ~> pc[d] = "done"
=============================================================================
