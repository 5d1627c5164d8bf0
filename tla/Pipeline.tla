------------------------------ MODULE Pipeline ------------------------------
(***************************************************************************)
(* A webhook from its request to its normalized event: the requests of     *)
(* Ingestion fill the raw_events table on which the workers and retries of *)
(* RawEventQueue work.  A request's COMMIT is the step the two share: it   *)
(* makes the row, `pending` or `duplicate`, visible to the claims.         *)
(*                                                                         *)
(* Here ingestion decides which rows are duplicates, so the queue's own    *)
(* Ingest and its constant Duplicates have no part.  A raw event's id is   *)
(* its place in the order of received_at, the start of the transaction;    *)
(* requests commit in any order.                                           *)
(***************************************************************************)
EXTENDS RawEventQueue

CONSTANTS Hashes, HashOf, NoParent      \* as in Ingestion

ASSUME HashOfAssumption == HashOf \in [Raws -> Hashes]
ASSUME NoParentAssumption == NoParent \notin Raws

VARIABLES stored, open, parent, request, ack

inbox == <<stored, open, parent, request, ack>>

Ing == INSTANCE Ingestion WITH
    Deliveries <- Raws, VendorOf <- VendorHint, pc <- request

PipelineInit == Init /\ Ing!Init

\* The transactions begin in the order of the ids.
Receive(d) ==
    /\ \A c \in Raws : c < d => request[c] # "idle"
    /\ Ing!Receive(d) \/ Ing!RejectBody(d)
    /\ UNCHANGED vars

\* A statement, the response or the rollback: the queue sees nothing of it.
Converse(d) ==
    /\ \/ Ing!InsertPrimary(d) \/ Ing!Conflict(d) \/ Ing!Lookup(d)
       \/ Ing!InsertDuplicate(d) \/ Ing!Respond(d)
    /\ UNCHANGED vars

Rollback(d) == Ing!Rollback(d) /\ UNCHANGED vars

\* Mutation of ArrivalStatus: a duplicate is added without its status.
ArrivalByDefault(kind) == "pending"

\* The status of a committed row: the column's default, or 'duplicate'.
ArrivalStatus(kind) == IF kind = "primary" THEN "pending" ELSE "duplicate"

Commit(d) ==
    /\ Ing!Commit(d)
    /\ row' = [row EXCEPT ![d].status = ArrivalStatus(open[d])]
    /\ UNCHANGED <<pc, job, loaded, result, elapsed, sinceReap, faults, tables>>

QueueStep ==
    /\ \/ \E w \in Workers : WorkerStep(w)
       \/ \E o \in Operators : \E r \in Raws : Acquire(o, r) \/ Refuse(o, r)
       \/ \E o \in Operators : RetryStep(o)
       \/ \E a \in Misled : LoadAfterUnconfirmed(a)
       \/ FaultStep
       \/ Tick
    /\ UNCHANGED inbox

PipelineNext ==
    \/ \E d \in Raws : Receive(d) \/ Converse(d) \/ Commit(d) \/ Rollback(d)
    \/ QueueStep

pipeline == <<vars, inbox>>

PipelineSpec == PipelineInit /\ [][PipelineNext]_pipeline

(***************************************************************************)
(* Fairness: the event loop runs every request whose statement does not    *)
(* wait, and that of a live worker; a retry that acquired its row runs to  *)
(* its end or dies; time passes.  Every database and LLM call returns or   *)
(* raises.  Nothing obliges a webhook or an operator to arrive.            *)
(***************************************************************************)
PipelineFairSpec ==
    /\ PipelineSpec
    /\ \A d \in Raws : WF_pipeline(Converse(d) \/ Commit(d))
    /\ \A w \in Workers : WF_pipeline(WorkerStep(w) /\ UNCHANGED inbox)
    /\ \A o \in Operators : WF_pipeline(RetryStep(o) /\ UNCHANGED inbox)
    /\ \A a \in Misled : WF_pipeline(LoadAfterUnconfirmed(a) /\ UNCHANGED inbox)
    /\ WF_pipeline(Tick /\ UNCHANGED inbox)

-----------------------------------------------------------------------------
(***************************************************************************)
(* Properties of the whole way.                                            *)
(***************************************************************************)
Settled(r) == row[r].status \in {"processed", "failed"}

\* However often a vendor sends one body, and whatever crashes, rolls back or
\* is retried on the way, at most one normalized event comes of it.
OneEventPerContent ==
    \A x, y \in events : Ing!SameContent(x.raw, y.raw) => x = y

\* Seen from outside, the pipeline is ContentLog: whatever is delivered again,
\* rolled back, crashed, retried or persisted twice, each content is stored once
\* and has its effect on the tables once, in one step, with its event.
Once == INSTANCE ContentLog WITH
    Deliveries <- Raws,
    ContentOf <- [d \in Raws |-> <<VendorHint[d], HashOf[d]>>],
    Readings <- [d \in Raws |->
                    {EventRow(d, e) : e \in Outcomes[d] \ {Unclassified}}],
    Entities <- EntityKeys,
    arrived <- {d \in Raws : stored[d] = "primary"}

ImplementsContentLog == Once!Spec

\* The queue's view agrees with the inbox, and a row set aside as a duplicate
\* leaves its content to a row that a worker takes, has taken or has settled.
DuplicateHasWork ==
    \A d \in Raws :
        /\ row[d].status = "absent" <=> stored[d] = "none"
        /\ row[d].status = "duplicate" <=> stored[d] = "duplicate"
        /\ stored[d] = "duplicate" =>
              /\ row[parent[d]].status \notin {"absent", "duplicate"}
              /\ Ing!SameContent(parent[d], d)


=============================================================================
