------------------------- MODULE CompositionProofs -------------------------
(***************************************************************************)
(* Proofs about the two compositions of the queue, for any number of       *)
(* requests, workers and retries, with every fault.                        *)
(*                                                                         *)
(* Pipeline: one content makes one event at most, and a duplicate has its  *)
(* work done under another row.  The pipeline is an ingestion to which the *)
(* queue's steps are stutters (InboxSteps), so the invariant of            *)
(* IngestionProofs holds of it.  The queue never moves a row into or out   *)
(* of the statuses that the inbox decides (RowChanges of                   *)
(* RawEventQueueProofs), which keeps the two views of a row together       *)
(* (LinkInv).  Seen by a vendor the pipeline stores and counts each        *)
(* content once (ExactlyOnce), and without retries a content is one item   *)
(* of work, however often it is delivered (ContentsAreItems).              *)
(*                                                                         *)
(* RetryEndpoint: it is a queue to which the read-back and the lookups are *)
(* stutters (EndpointImplementsQueue), so what is proved of the queue      *)
(* holds of it; and a 200 tells the truth about the log (ReplyInv).  On    *)
(* the rows that no retry has named the workers keep what they promise     *)
(* when there are no retries at all (RetriesAreLocal, UnnamedKept).        *)
(***************************************************************************)
EXTENDS Pipeline, RetryEndpoint, RawEventQueueProofs

IngP == INSTANCE IngestionProofs WITH
    Deliveries <- Raws, VendorOf <- VendorHint, pc <- request

\* The inbox and the queue agree on a row, a request that responds has a row to
\* commit, and an event is an answer for a row that is not set aside.
LinkInv ==
    /\ HeldInv
    /\ LogFromAnswers
    /\ \A d \in Raws :
          /\ row[d].status = "absent" <=> stored[d] = "none"
          /\ row[d].status = "duplicate" <=> stored[d] = "duplicate"
          /\ request[d] \in {"respond", "commit"} => open[d] # "none"
    /\ \A x \in events : row[x.raw].status \notin Aside

-----------------------------------------------------------------------------
\* Every step of the pipeline is one of the ingestion, or a stutter of it.
LEMMA InboxSteps == PipelineNext => IngP!Next \/ UNCHANGED inbox
<1> SUFFICES ASSUME PipelineNext, ~(UNCHANGED inbox)
             PROVE  IngP!Next
  OBVIOUS
<1>1. PICK d \in Raws : Receive(d) \/ Converse(d) \/ Commit(d) \/ Rollback(d)
  BY DEF PipelineNext, QueueStep
<1>2. CASE Receive(d)
  BY <1>2 DEF Receive, Ing!Receive, Ing!RejectBody, IngP!Receive, IngP!RejectBody,
              Ing!Goto, IngP!Goto, IngP!Next
<1>3. CASE Converse(d)
  <2>1. CASE Ing!InsertPrimary(d) \/ Ing!Conflict(d) \/ Ing!Lookup(d)
    BY <2>1 DEF Ing!InsertPrimary, Ing!Conflict, Ing!Lookup, IngP!InsertPrimary,
                IngP!Conflict, IngP!Lookup, Ing!Goto, IngP!Goto, Ing!MustWait,
                IngP!MustWait, Ing!Primaries, IngP!Primaries, Ing!SameContent,
                IngP!SameContent, IngP!RequestStep, IngP!Next
  <2>2. CASE Ing!InsertDuplicate(d) \/ Ing!Respond(d)
    BY <2>2 DEF Ing!InsertDuplicate, Ing!Respond, IngP!InsertDuplicate,
                IngP!Respond, Ing!Goto, IngP!Goto, IngP!RequestStep, IngP!Next
  <2> QED
    BY <1>3, <2>1, <2>2 DEF Converse
<1>4. CASE Commit(d)
  BY <1>4 DEF Commit, Ing!Commit, IngP!Commit, Ing!Goto, IngP!Goto,
              IngP!RequestStep, IngP!Next
<1>5. CASE Rollback(d)
  BY <1>5 DEF Rollback, Ing!Rollback, IngP!Rollback, Ing!InTransaction,
              IngP!InTransaction, Ing!Goto, IngP!Goto, IngP!Next
<1> QED
  BY <1>1, <1>2, <1>3, <1>4, <1>5

LEMMA InboxInvAlways == PipelineSpec => []IngP!Inv
<1>1. PipelineInit => IngP!Init
  BY DEF PipelineInit, Ing!Init, IngP!Init
<1>2. [PipelineNext]_pipeline => [IngP!Next]_IngP!vars
  BY InboxSteps DEF pipeline, inbox, IngP!vars
<1>3. IngP!Spec => []IngP!Inv
  BY IngP!InvAlways, VendorHintAssumption, HashOfAssumption, NoParentAssumption
<1> QED
  BY <1>1, <1>2, <1>3, PTL DEF PipelineSpec, IngP!Spec

-----------------------------------------------------------------------------
LEMMA QueueStepLink ==
    ASSUME LinkInv, QueueStep
    PROVE  LinkInv'
<1>1. RowChanges /\ HoldersInv'
  BY QueueStepHolders DEF QueueStep, LinkInv
<1>2. TypeOK'
  BY TypeOKStep DEF QueueStep, Next, LinkInv, HeldInv
<1>3. UNCHANGED <<stored, request, open>>
  BY DEF QueueStep, inbox
<1>4. \A d \in Raws :
          /\ row'[d].status = "absent" <=> stored'[d] = "none"
          /\ row'[d].status = "duplicate" <=> stored'[d] = "duplicate"
          /\ request'[d] \in {"respond", "commit"} => open'[d] # "none"
  BY <1>1, <1>3 DEF LinkInv, RowChanges, Aside
<1>5. ASSUME NEW x \in events'
      PROVE  /\ row'[x.raw].status \notin Aside
             /\ \E e \in Answers(x.raw) : x = EventRow(x.raw, e)
  <2>1. x.raw \in Raws
    BY <1>2, <1>5 DEF TypeOK, TablesTypeOK, EventRows
  <2>2. /\ row[x.raw].status \notin Aside
        /\ \E e \in Answers(x.raw) : x = EventRow(x.raw, e)
    BY <1>1, <1>5 DEF LinkInv, LogFromAnswers, RowChanges
  <2> QED
    BY <1>1, <2>1, <2>2 DEF RowChanges
<1> QED
  BY <1>1, <1>2, <1>4, <1>5 DEF LinkInv, HeldInv, LogFromAnswers, Answers, EventRow,
                                EntityKey

\* The steps of a request before its COMMIT: the queue sees nothing of them.
LEMMA RequestLink ==
    ASSUME LinkInv, IngP!Inv, NEW d \in Raws,
           Receive(d) \/ Converse(d) \/ Rollback(d)
    PROVE  LinkInv'
<1>1. UNCHANGED <<vars, stored>>
  BY DEF Receive, Converse, Rollback, Ing!Receive, Ing!RejectBody,
         Ing!InsertPrimary, Ing!Conflict, Ing!Lookup, Ing!InsertDuplicate,
         Ing!Respond, Ing!Rollback
<1>2. \A c \in Raws : request'[c] \in {"respond", "commit"} => open'[c] # "none"
  <2>1. IngP!TypeOK
    BY DEF IngP!Inv
  <2> QED
    BY <2>1 DEF LinkInv, IngP!TypeOK, Receive, Converse, Rollback, Ing!Receive,
         Ing!RejectBody, Ing!InsertPrimary, Ing!Conflict, Ing!Lookup,
         Ing!InsertDuplicate, Ing!Respond, Ing!Rollback, Ing!Goto
<1>3. HeldInv'
  BY <1>1 DEF LinkInv, HeldInv, HoldersInv, TypeOK, TablesTypeOK, Busy, InFlight, vars
<1> QED
  BY <1>1, <1>2, <1>3 DEF LinkInv, LogFromAnswers, Answers, vars, EventRow, EntityKey

\* The COMMIT: the row is new to both views, and nobody holds it.
LEMMA CommitLink ==
    ASSUME LinkInv, IngP!Inv, NEW d \in Raws, Commit(d)
    PROVE  LinkInv'
<1>1. /\ IngP!TypeOK
      /\ request[d] = "commit" /\ stored[d] = "none"
      /\ stored' = [stored EXCEPT ![d] = open[d]]
      /\ open' = [open EXCEPT ![d] = "none"]
      /\ request' = [request EXCEPT ![d] = "done"]
  BY DEF Commit, Ing!Commit, Ing!Goto, IngP!Inv, IngP!OpenRows
<1>2. open[d] \in {"primary", "duplicate"}
  BY <1>1 DEF LinkInv, IngP!TypeOK, IngP!RowStates
<1>3. row[d].status = "absent" /\ row \in [Raws -> Rows]
  BY <1>1 DEF LinkInv, HeldInv, TypeOK
<1>4. /\ row' = [row EXCEPT ![d].status = ArrivalStatus(open[d])]
      /\ UNCHANGED <<pc, job, loaded, result, elapsed, sinceReap, faults, tables>>
  BY DEF Commit
<1>5. /\ \A c \in Raws : c # d => row'[c] = row[c]
      /\ row'[d] = [row[d] EXCEPT !.status = ArrivalStatus(open[d])]
  BY <1>3, <1>4
<1>6. row'[d].status = ArrivalStatus(open[d]) /\ row'[d] \in Rows
  BY <1>2, <1>3, <1>5 DEF Rows, Statuses, ArrivalStatus
<1>7. TypeOK'
  <2>1. row' \in [Raws -> Rows]
    BY <1>3, <1>4, <1>5, <1>6
  <2> QED
    BY <1>4, <2>1 DEF LinkInv, HeldInv, TypeOK, TablesTypeOK, tables, Busy, InFlight
<1>8. \A a \in Actors : Busy(a) => job[a] \in Raws /\ job[a] # d
  BY <1>3, HeldRow DEF LinkInv, Aside
<1>9. HoldersInv'
  BY <1>4, <1>5, <1>8 DEF LinkInv, HeldInv, HoldersInv, Busy, InFlight
<1>10. \A c \in Raws :
          /\ row'[c].status = "absent" <=> stored'[c] = "none"
          /\ row'[c].status = "duplicate" <=> stored'[c] = "duplicate"
          /\ request'[c] \in {"respond", "commit"} => open'[c] # "none"
  <2>1. ASSUME NEW c \in Raws, c # d
        PROVE  /\ row'[c] = row[c] /\ stored'[c] = stored[c]
               /\ request'[c] = request[c] /\ open'[c] = open[c]
    BY <1>1, <1>5, <2>1 DEF IngP!TypeOK
  <2>2. stored'[d] = open[d] /\ request'[d] = "done"
    BY <1>1 DEF IngP!TypeOK
  <2>3. /\ row'[d].status = "absent" <=> stored'[d] = "none"
        /\ row'[d].status = "duplicate" <=> stored'[d] = "duplicate"
    BY <1>2, <1>6, <2>2 DEF ArrivalStatus
  <2> QED
    BY <2>1, <2>2, <2>3 DEF LinkInv
<1>11. ASSUME NEW x \in events
       PROVE  row'[x.raw].status \notin Aside
  <2>1. x.raw \in Raws /\ row[x.raw].status \notin Aside
    BY <1>11 DEF LinkInv, HeldInv, TypeOK, TablesTypeOK, EventRows
  <2> QED
    BY <1>3, <1>5, <2>1 DEF Aside
<1> QED
  BY <1>4, <1>7, <1>9, <1>10, <1>11
     DEF LinkInv, HeldInv, LogFromAnswers, Answers, tables, EventRow, EntityKey

LEMMA LinkInvAlways == PipelineSpec => []LinkInv
<1>1. PipelineInit => LinkInv
  <2> SUFFICES ASSUME PipelineInit
               PROVE  LinkInv
    OBVIOUS
  <2>1. Init /\ HeldInv
    BY TypeOKInit, HoldersInit DEF PipelineInit, HeldInv
  <2>2. events = {} /\ \A d \in Raws : row[d].status = "absent"
    BY <2>1 DEF Init, TablesInit, NoRow
  <2>3. \A d \in Raws : stored[d] = "none" /\ request[d] = "idle"
    BY DEF PipelineInit, Ing!Init
  <2> QED
    BY <2>1, <2>2, <2>3 DEF LinkInv, LogFromAnswers
<1>2. LinkInv /\ IngP!Inv /\ [PipelineNext]_pipeline => LinkInv'
  <2> SUFFICES ASSUME LinkInv, IngP!Inv, [PipelineNext]_pipeline
               PROVE  LinkInv'
    OBVIOUS
  <2>1. CASE UNCHANGED pipeline
    <3>1. UNCHANGED <<vars, stored, request, open>>
      BY <2>1 DEF pipeline, inbox
    <3>2. HeldInv'
      BY <3>1 DEF LinkInv, HeldInv, HoldersInv, TypeOK, TablesTypeOK, Busy,
                  InFlight, vars
    <3> QED
      BY <3>1, <3>2 DEF LinkInv, LogFromAnswers, Answers, vars, EventRow, EntityKey
  <2>2. CASE PipelineNext
    BY <2>2, QueueStepLink, RequestLink, CommitLink DEF PipelineNext
  <2> QED
    BY <2>1, <2>2
<1> QED
  BY <1>1, <1>2, InboxInvAlways, PTL DEF PipelineSpec

-----------------------------------------------------------------------------
\* A row set aside as a duplicate leaves its content to a row of the queue,
\* whatever rolls back, crashes or is retried.
THEOREM DuplicatesAreServed == PipelineSpec => []DuplicateHasWork
<1>1. LinkInv /\ IngP!Inv => DuplicateHasWork
  <2> SUFFICES ASSUME LinkInv, IngP!Inv, NEW d \in Raws, stored[d] = "duplicate"
               PROVE  /\ row[parent[d]].status \notin {"absent", "duplicate"}
                      /\ Ing!SameContent(parent[d], d)
    BY DEF LinkInv, DuplicateHasWork
  <2>1. parent[d] \in IngP!Primaries(d)
    BY DEF IngP!Inv, IngP!ParentsAreStored
  <2>2. /\ parent[d] \in Raws /\ stored[parent[d]] = "primary"
        /\ IngP!SameContent(parent[d], d)
    BY <2>1 DEF IngP!Primaries
  <2> QED
    BY <2>2 DEF LinkInv, Ing!SameContent, IngP!SameContent
<1> QED
  BY <1>1, LinkInvAlways, InboxInvAlways, PTL

\* At most one normalized event comes of one content, however often a vendor
\* sends it and whoever processes it, if the classifier is consistent.
THEOREM OneEventForOneContent ==
    ASSUME ConsistentClassifier
    PROVE  PipelineSpec => []OneEventPerContent
<1>1. LinkInv /\ IngP!Inv => OneEventPerContent
  <2> SUFFICES ASSUME LinkInv, IngP!Inv, NEW x \in events, NEW y \in events,
                      Ing!SameContent(x.raw, y.raw)
               PROVE  x = y
    BY DEF OneEventPerContent
  <2>1. x.raw \in Raws /\ y.raw \in Raws
    BY DEF LinkInv, HeldInv, TypeOK, TablesTypeOK, EventRows
  <2>2. stored[x.raw] = "primary" /\ stored[y.raw] = "primary"
    BY <2>1 DEF LinkInv, Aside, IngP!Inv, IngP!TypeOK, IngP!RowStates
  <2>3. x.raw = y.raw
    BY <2>1, <2>2 DEF IngP!Inv, IngP!OnePrimaryPerContent, Ing!SameContent,
                      IngP!SameContent
  <2>4. PICK e \in Answers(x.raw) : x = EventRow(x.raw, e)
    BY DEF LinkInv, LogFromAnswers
  <2>5. PICK f \in Answers(y.raw) : y = EventRow(y.raw, f)
    BY DEF LinkInv, LogFromAnswers
  <2> QED
    BY <2>1, <2>3, <2>4, <2>5 DEF ConsistentClassifier
<1> QED
  BY <1>1, LinkInvAlways, InboxInvAlways, PTL

-----------------------------------------------------------------------------
(***************************************************************************)
(* What is proved of the queue's own arrivals holds of those of the inbox  *)
(* too: the steps of the requests leave the tables alone, and a row that   *)
(* arrives is not processed.                                               *)
(***************************************************************************)
LEMMA PipelineTables ==
    ASSUME PipelineNext
    PROVE  Next \/ UNCHANGED tables
BY DEF PipelineNext, Receive, Converse, Rollback, Commit, QueueStep, Next, vars, tables

\* No step of the pipeline rolls an entity back.
THEOREM PipelineRollsNothingBack == PipelineSpec => NeverRollsBack
<1>1. LinkInv /\ [PipelineNext]_pipeline => [EntitiesAdvance]_tables
  BY PipelineTables, RollbackStep DEF LinkInv, HeldInv, pipeline, vars, tables
<1> QED
  BY <1>1, LinkInvAlways, PTL DEF PipelineSpec, NeverRollsBack

LEMMA MirrorsAlways ==
    ASSUME ConsistentClassifier
    PROVE  PipelineSpec => []MirrorInv
<1> DEFINE Mirrors == EntityMirrorsLog /\ LoggedEntitiesExist
<1>1. PipelineInit => Mirrors
  BY DEF PipelineInit, Init, TablesInit, EntityMirrorsLog, LoggedEntitiesExist
<1>2. LinkInv /\ LinkInv' /\ Mirrors /\ [PipelineNext]_pipeline => Mirrors'
  <2> SUFFICES ASSUME LinkInv, LinkInv', Mirrors, [PipelineNext]_pipeline
               PROVE  Mirrors'
    OBVIOUS
  <2>1. CASE UNCHANGED tables
    BY <2>1 DEF tables, EntityMirrorsLog, LoggedEntitiesExist, EventsOf
  <2>2. CASE Next
    BY <2>2, MirrorInvStep DEF LinkInv, MirrorInv, HeldInv
  <2>3. CASE UNCHANGED pipeline
    BY <2>1, <2>3 DEF pipeline, vars, tables
  <2> QED
    BY <2>1, <2>2, <2>3, PipelineTables
<1>3. LinkInv /\ Mirrors => MirrorInv
  BY DEF LinkInv, MirrorInv
<1> QED
  BY <1>1, <1>2, <1>3, LinkInvAlways, PTL DEF PipelineSpec

\* With a consistent classifier every entity shows the latest event of its own
\* log, whichever bodies come in whatever order and whoever processes them.
THEOREM PipelineMirrors ==
    ASSUME ConsistentClassifier
    PROVE  PipelineSpec => []EntityMirrorsLog
<1>1. MirrorInv => EntityMirrorsLog
  BY DEF MirrorInv
<1> QED
  BY <1>1, MirrorsAlways, PTL

\* A processed row has its event, or an answer that calls for none.
THEOREM PipelineLogsProcessed == PipelineSpec => []ProcessedHasEvent
<1>1. PipelineInit => ProcessedHasEvent
  BY DEF PipelineInit, Init, NoRow, ProcessedHasEvent
<1>2. LinkInv /\ IngP!Inv /\ ProcessedHasEvent /\ [PipelineNext]_pipeline
        => ProcessedHasEvent'
  <2> SUFFICES ASSUME LinkInv, IngP!Inv, ProcessedHasEvent, [PipelineNext]_pipeline
               PROVE  ProcessedHasEvent'
    OBVIOUS
  <2>1. CASE QueueStep
    <3>1. RowChanges
      BY <2>1, QueueStepHolders DEF QueueStep, LinkInv
    <3> QED
      BY <3>1 DEF RowChanges, ProcessedHasEvent
  <2>2. ASSUME NEW d \in Raws, Commit(d)
        PROVE  ProcessedHasEvent'
    <3>1. row' = [row EXCEPT ![d].status = ArrivalStatus(open[d])] /\ UNCHANGED events
      BY <2>2 DEF Commit, tables
    <3>2. \A c \in Raws : row'[c].status = "processed" => row[c].status = "processed"
      BY <3>1 DEF LinkInv, HeldInv, TypeOK, Rows, ArrivalStatus
    <3> QED
      BY <3>1, <3>2 DEF ProcessedHasEvent
  <2>3. CASE UNCHANGED vars
    BY <2>3 DEF vars, ProcessedHasEvent
  <2> QED
    BY <2>1, <2>2, <2>3 DEF PipelineNext, Receive, Converse, Rollback, pipeline
<1> QED
  BY <1>1, <1>2, LinkInvAlways, InboxInvAlways, PTL DEF PipelineSpec

-----------------------------------------------------------------------------
(***************************************************************************)
(* The pipeline implements ContentLog.  A persist of a raw event that has  *)
(* an event finds that very event, and an entity that is not behind it;    *)
(* any other one logs the first event of its content.                      *)
(***************************************************************************)
LEMMA CountsOnce ==
    ASSUME ConsistentClassifier, MirrorInv, NEW r \in Raws, NEW e \in Outcomes[r],
           PersistTables(r, e)
    PROVE  \/ UNCHANGED tables
           \/ /\ e \in Answers(r)
              /\ \A y \in events : y.raw # r
              /\ events' = events \cup {EventRow(r, e)}
              /\ entities' = [entities EXCEPT ![EntityKey(r, e)] =
                                 Once!LaterOf(@, EventRow(r, e))]
<1> DEFINE k == EntityKey(r, e)
           answer == [state |-> e.state, last_event_at |-> e.at]
<1>0. e \in Results
  BY OutcomesAssumption
<1>1. CASE e.kind = "unclassified"
  BY <1>1 DEF PersistTables
<1>2. CASE e.kind # "unclassified"
  <2>1. e \in ClassifiedResults /\ e \in Answers(r)
    BY <1>0, <1>2, ResultCases DEF Answers, Unclassified
  <2>2. /\ k \in EntityKeys /\ k.kind = e.kind
        /\ entities \in [EntityKeys -> EntityRows \cup {Absent}]
        /\ entities' = [entities EXCEPT ![k] = Advanced(Upserted(@), e)]
        /\ events' = EventsWith(r, e)
    BY <1>2, <2>1, EntityKeyType DEF PersistTables, MirrorInv, HeldInv, TypeOK,
                                     TablesTypeOK
  <2>3. /\ EventRow(r, e).raw = r /\ EventRow(r, e).entity = k
        /\ EventRow(r, e).state = e.state /\ EventRow(r, e).at = e.at
    BY DEF EventRow
  <2>4. /\ Advanced(Upserted(entities[k]), e) = Once!LaterOf(entities[k], EventRow(r, e))
        /\ entities[k] # Absent /\ ~(entities[k].last_event_at < e.at)
             => Advanced(Upserted(entities[k]), e) = entities[k]
    BY <2>1, <2>2, <2>3, AdvancedCases DEF Once!LaterOf
  <2>5. ASSUME NEW y \in events, y.raw = r
        PROVE  UNCHANGED tables
    <3>1. y = EventRow(r, e)
      BY <2>1, <2>5 DEF MirrorInv, LogFromAnswers, ConsistentClassifier
    <3>2. events' = events
      BY <2>2, <2>3, <2>5, <3>1 DEF EventsWith, RawEventIdTaken
    <3>3. y \in EventsOf(k) /\ y.at = e.at
      BY <2>3, <3>1 DEF EventsOf
    <3>4. entities[k] # Absent /\ entities[k] \in EntityRows
      BY <2>2, <3>3 DEF MirrorInv, LoggedEntitiesExist, EventsOf
    <3>5. e.at <= entities[k].last_event_at
      BY <2>2, <3>3, <3>4 DEF MirrorInv, EntityMirrorsLog
    <3>6. e.at \in Nat /\ entities[k].last_event_at \in Nat
      BY <2>1, <3>4, EventTimesAssumption DEF ClassifiedResults, EntityRows
    <3>7. entities' = entities
      BY <2>2, <2>4, <3>4, <3>5, <3>6
    <3> QED
      BY <3>2, <3>7 DEF tables
  <2>6. ASSUME \A y \in events : y.raw # r
        PROVE  events' = events \cup {EventRow(r, e)}
    BY <2>2, <2>6 DEF EventsWith, RawEventIdTaken
  <2>7. entities' = [entities EXCEPT ![k] = Once!LaterOf(@, EventRow(r, e))]
    BY <2>2, <2>4
  <2> QED
    BY <2>1, <2>5, <2>6, <2>7
<1> QED
  BY <1>1, <1>2

\* A step that writes the tables counts the content of a stored primary.
LEMMA QueueStepCounts ==
    ASSUME ConsistentClassifier, MirrorInv, LinkInv, IngP!Inv, QueueStep
    PROVE  [Once!Next]_(Once!vars)
<1>1. UNCHANGED stored
  BY DEF QueueStep, inbox
<1>2. CASE UNCHANGED tables
  BY <1>1, <1>2 DEF Once!vars, tables
<1>3. ASSUME NEW a \in Actors, Persist(a) \/ PersistUnconfirmed(a)
      PROVE  [Once!Next]_(Once!vars)
  <2> DEFINE r == job[a]
             e == result[a]
             x == EventRow(r, e)
  <2>1. /\ r \in Raws /\ e \in Outcomes[r] /\ PersistTables(r, e)
        /\ row[r].status \notin Aside
    BY <1>3, PersistedAnswer
       DEF MirrorInv, HeldInv, HoldersInv, Persist, PersistUnconfirmed, Busy, InFlight
  <2> HIDE DEF r, e
  <2>2. stored[r] = "primary"
    BY <2>1 DEF LinkInv, Aside, IngP!Inv, IngP!TypeOK, IngP!RowStates
  <2>3. CASE UNCHANGED tables
    BY <1>1, <2>3 DEF Once!vars, tables
  <2>4. CASE /\ e \in Answers(r)
             /\ \A y \in events : y.raw # r
             /\ events' = events \cup {x}
             /\ entities' = [entities EXCEPT ![EntityKey(r, e)] = Once!LaterOf(@, x)]
    <3>1. x.raw = r /\ x.entity = EntityKey(r, e)
      BY DEF EventRow
    <3>2. x \in {EventRow(r, f) : f \in Outcomes[r] \ {Unclassified}}
      BY <2>4 DEF Answers
    <3>3. Once!Count(x)
      BY <1>1, <2>1, <2>2, <2>4, <3>1 DEF Once!Count
    <3> QED
      BY <2>1, <3>2, <3>3 DEF Once!Next
  <2> QED
    BY <2>1, <2>3, <2>4, CountsOnce
<1> QED
  BY <1>2, <1>3, TablesStep DEF QueueStep, Next

\* A COMMIT stores the first delivery of its content, or one that is set aside.
LEMMA CommitArrives ==
    ASSUME IngP!Inv, NEW d \in Raws, Commit(d)
    PROVE  [Once!Next]_(Once!vars)
<1>1. /\ IngP!TypeOK /\ UNCHANGED tables
      /\ stored[d] = "none"
      /\ stored' = [stored EXCEPT ![d] = open[d]]
  BY DEF Commit, Ing!Commit, IngP!Inv, IngP!OpenRows
<1>2. \A c \in Raws : stored'[c] = IF c = d THEN open[d] ELSE stored[c]
  BY <1>1 DEF IngP!TypeOK
<1>3. CASE open[d] = "primary"
  <2>1. \A c \in Raws : stored[c] = "primary" =>
            <<VendorHint[c], HashOf[c]>> # <<VendorHint[d], HashOf[d]>>
    BY <1>1, <1>3 DEF IngP!Inv, IngP!OpenPrimaryIsAlone, IngP!SameContent
  <2>2. {c \in Raws : stored'[c] = "primary"}
          = {c \in Raws : stored[c] = "primary"} \cup {d}
    BY <1>2, <1>3
  <2>3. Once!Arrive(d)
    BY <1>1, <2>1, <2>2 DEF Once!Arrive, tables
  <2> QED
    BY <2>3 DEF Once!Next
<1>4. CASE open[d] # "primary"
  <2>1. {c \in Raws : stored'[c] = "primary"} = {c \in Raws : stored[c] = "primary"}
    BY <1>1, <1>2, <1>4
  <2> QED
    BY <1>1, <2>1 DEF Once!vars, tables
<1> QED
  BY <1>3, <1>4

\* From outside the service is a log in which each content counts once, with
\* every rollback, crash, retry, lost confirmation and repeated delivery.
THEOREM ExactlyOnce ==
    ASSUME ConsistentClassifier
    PROVE  PipelineSpec => ImplementsContentLog
<1>1. PipelineInit => Once!Init
  BY DEF PipelineInit, Init, TablesInit, Ing!Init, Once!Init
<1>2. /\ MirrorInv /\ LinkInv /\ IngP!Inv /\ [PipelineNext]_pipeline
      => [Once!Next]_(Once!vars)
  <2> SUFFICES ASSUME MirrorInv, LinkInv, IngP!Inv, [PipelineNext]_pipeline
               PROVE  [Once!Next]_(Once!vars)
    OBVIOUS
  <2>1. CASE UNCHANGED <<vars, stored>>
    BY <2>1 DEF vars, Once!vars
  <2>2. ASSUME NEW d \in Raws, Receive(d) \/ Converse(d) \/ Rollback(d)
        PROVE  UNCHANGED <<vars, stored>>
    BY <2>2 DEF Receive, Converse, Rollback, Ing!Receive, Ing!RejectBody,
                Ing!InsertPrimary, Ing!Conflict, Ing!Lookup, Ing!InsertDuplicate,
                Ing!Respond, Ing!Rollback
  <2>3. UNCHANGED pipeline => UNCHANGED <<vars, stored>>
    BY DEF pipeline, inbox
  <2> QED
    BY <2>1, <2>2, <2>3, QueueStepCounts, CommitArrives DEF PipelineNext
<1> QED
  BY <1>1, <1>2, MirrorsAlways, LinkInvAlways, InboxInvAlways, PTL
     DEF PipelineSpec, ImplementsContentLog, Once!Spec

-----------------------------------------------------------------------------
(***************************************************************************)
(* Without retries and lost confirmations the pipeline implements          *)
(* WorkItems too, and its items are the contents, not the rows: a content  *)
(* that is delivered many times is one item of work.                       *)
(***************************************************************************)
ContentOf(d) == <<VendorHint[d], HashOf[d]>>
Contents == {ContentOf(d) : d \in Raws}

\* What f says of the primary of each content, or `none` if st has no primary.
OfContents(st, f, none) ==
    [c \in Contents |->
        IF \E d \in Raws : st[d] = "primary" /\ ContentOf(d) = c
        THEN f[CHOOSE d \in Raws : st[d] = "primary" /\ ContentOf(d) = c]
        ELSE none]

Items == INSTANCE WorkItems WITH
    Items <- Contents, SetAside <- {}, Budget <- MaxAttempts,
    status <- OfContents(stored, StatusOfRows, "absent"),
    failures <- OfContents(stored, AttemptsOfRows, 0),
    logged <- {ContentOf(r) : r \in Logged}

ContentsAreWorkItems == Items!Spec

\* One primary for each content.
Single(st) ==
    \A c, d \in Raws :
        st[c] = "primary" /\ st[d] = "primary" /\ ContentOf(c) = ContentOf(d) => c = d

LEMMA OfContentsValue ==
    ASSUME NEW st, NEW f, NEW none, Single(st), NEW r \in Raws, st[r] = "primary"
    PROVE  OfContents(st, f, none)[ContentOf(r)] = f[r]
<1> DEFINE P(d) == st[d] = "primary" /\ ContentOf(d) = ContentOf(r)
<1>1. ContentOf(r) \in Contents /\ \E d \in Raws : P(d)
  BY DEF Contents
<1>2. P(CHOOSE d \in Raws : P(d)) /\ (CHOOSE d \in Raws : P(d)) \in Raws
  BY <1>1
<1>3. (CHOOSE d \in Raws : P(d)) = r
  BY <1>2 DEF Single
<1> QED
  BY <1>1, <1>3 DEF OfContents

LEMMA OfContentsNone ==
    ASSUME NEW st, NEW f, NEW none, NEW c \in Contents,
           \A d \in Raws : st[d] = "primary" => ContentOf(d) # c
    PROVE  OfContents(st, f, none)[c] = none
BY DEF OfContents

\* Two views are one if they agree on the primaries.
LEMMA OfContentsAgree ==
    ASSUME NEW st, NEW tt, NEW f, NEW g, NEW none, Single(st),
           \A d \in Raws : st[d] = "primary" <=> tt[d] = "primary",
           \A d \in Raws : st[d] = "primary" => f[d] = g[d]
    PROVE  OfContents(tt, g, none) = OfContents(st, f, none)
<1>1. Single(tt)
  BY DEF Single
<1>2. ASSUME NEW c \in Contents
      PROVE  OfContents(tt, g, none)[c] = OfContents(st, f, none)[c]
  <2>1. CASE \E d \in Raws : st[d] = "primary" /\ ContentOf(d) = c
    BY <1>1, <2>1, OfContentsValue
  <2>2. CASE \A d \in Raws : st[d] = "primary" => ContentOf(d) # c
    BY <2>2, OfContentsNone
  <2> QED
    BY <2>1, <2>2
<1> QED
  BY <1>2 DEF OfContents

LEMMA OfContentsType ==
    \A st, f, none :
        OfContents(st, f, none) = [c \in Contents |-> OfContents(st, f, none)[c]]
BY DEF OfContents

\* A view in which one primary is new, or says something new.
SameBut(r, st, f, tt, g) ==
    \A d \in Raws : d # r => /\ st[d] = "primary" <=> tt[d] = "primary"
                             /\ st[d] = "primary" => f[d] = g[d]

Updated(view, c, value) == [view EXCEPT ![c] = value]

LEMMA OfContentsUpdate ==
    ASSUME NEW st, NEW tt, NEW f, NEW g, NEW none, NEW r \in Raws, Single(tt),
           tt[r] = "primary", SameBut(r, st, f, tt, g)
    PROVE  OfContents(tt, g, none) = Updated(OfContents(st, f, none), ContentOf(r), g[r])
<1>0. /\ \A d \in Raws : d # r => /\ st[d] = "primary" <=> tt[d] = "primary"
                                  /\ st[d] = "primary" => f[d] = g[d]
      /\ Single(st)
  BY DEF SameBut, Single
<1>1. OfContents(tt, g, none)[ContentOf(r)] = g[r]
  BY OfContentsValue
<1>2. ASSUME NEW c \in Contents, c # ContentOf(r)
      PROVE  OfContents(tt, g, none)[c] = OfContents(st, f, none)[c]
  <2>1. ASSUME NEW d \in Raws, st[d] = "primary", ContentOf(d) = c
        PROVE  OfContents(tt, g, none)[c] = OfContents(st, f, none)[c]
    <3>1. d # r /\ tt[d] = "primary" /\ f[d] = g[d]
      BY <1>0, <1>2, <2>1
    <3> QED
      BY <1>0, <2>1, <3>1, OfContentsValue
  <2>2. CASE \A d \in Raws : st[d] = "primary" => ContentOf(d) # c
    <3>1. \A d \in Raws : tt[d] = "primary" => ContentOf(d) # c
      BY <1>0, <1>2, <2>2
    <3> QED
      BY <2>2, <3>1, OfContentsNone
  <2> QED
    BY <2>1, <2>2
<1> QED
  BY <1>1, <1>2, OfContentsType DEF Updated

LEMMA ViewsPrimed ==
    /\ OfContents(stored, StatusOfRows, "absent")'
         = OfContents(stored', StatusOfRows', "absent")
    /\ OfContents(stored, AttemptsOfRows, 0)'
         = OfContents(stored', AttemptsOfRows', 0)
BY DEF OfContents

\* A row that nobody may work on has no failures.
Unworked == \A r \in Raws : row[r].status \in Aside => row[r].attempts = 0

ItemsInv == LinkInv /\ IngP!Inv /\ WorkInv /\ Unworked

LEMMA ItemsInvFacts ==
    ASSUME ItemsInv
    PROVE  /\ Single(stored) /\ TypeOK /\ IngP!TypeOK
           /\ \A r \in Raws : row[r].status \notin Aside <=> stored[r] = "primary"
<1>1. LinkInv /\ IngP!Inv /\ TypeOK /\ IngP!TypeOK /\ IngP!OnePrimaryPerContent
  BY DEF ItemsInv, WorkInv, IngP!Inv
<1>2. Single(stored)
  BY <1>1 DEF Single, ContentOf, IngP!OnePrimaryPerContent, IngP!SameContent
<1>3. \A r \in Raws : row[r].status \notin Aside <=> stored[r] = "primary"
  BY <1>1 DEF LinkInv, Aside, IngP!TypeOK, IngP!RowStates
<1> QED
  BY <1>1, <1>2, <1>3

\* The COMMIT of a request touches a row that is in nobody's hands.
LEMMA CommitKeepsWork ==
    ASSUME LinkInv, LinkInv', IngP!Inv, WorkInv, Unworked, NEW d \in Raws, Commit(d)
    PROVE  WorkInv' /\ Unworked'
<1>1. /\ TypeOK /\ TypeOK' /\ row[d] \in Rows /\ row[d].status = "absent"
      /\ row' = [row EXCEPT ![d].status = ArrivalStatus(open[d])]
      /\ UNCHANGED <<pc, job, loaded, result, elapsed, events>>
  BY DEF LinkInv, HeldInv, TypeOK, Commit, Ing!Commit, IngP!Inv, IngP!OpenRows, tables
<1>2. /\ \A c \in Raws : c # d => row'[c] = row[c]
      /\ row'[d].status \in {"pending", "duplicate"}
      /\ row'[d].attempts = row[d].attempts
  BY <1>1 DEF TypeOK, ArrivalStatus, Rows
<1>3. \A a \in Actors : Busy(a) => job[a] \in Raws /\ job[a] # d
  BY <1>1, HeldRow DEF LinkInv, Aside
<1>4. ASSUME NEW c \in Raws
      PROVE  RowInv(c)'
  <2>1. RowInv(c)
    BY DEF WorkInv
  <2>2. WorkAt(c)'
    BY <1>1, <1>2, <1>3, <2>1 DEF RowInv, WorkAt, OwnedAt, Holds, Held, Fresh, Busy,
                                  InFlight
  <2>3. BudgetAt(c)' /\ LockedAt(c)' /\ EventAt(c)'
    BY <1>1, <1>2, <2>1 DEF RowInv, BudgetAt, LockedAt, EventAt
  <2> QED
    BY <2>2, <2>3 DEF RowInv
<1>5. Unworked'
  BY <1>1, <1>2 DEF Unworked, Aside
<1> QED
  BY <1>1, <1>4, <1>5 DEF WorkInv

LEMMA ItemsInvAlways ==
    ASSUME Operators = {}, Misled = {}, Slow = {}
    PROVE  PipelineSpec => []ItemsInv
<1>1. PipelineInit => WorkInv /\ Unworked
  BY TypeOKInit, RowInvInit DEF PipelineInit, WorkInv, Unworked, Init, NoRow
<1>2. /\ LinkInv /\ LinkInv' /\ IngP!Inv /\ WorkInv /\ Unworked
      /\ [PipelineNext]_pipeline
      => WorkInv' /\ Unworked'
  <2> SUFFICES ASSUME LinkInv, LinkInv', IngP!Inv, WorkInv, Unworked,
                      [PipelineNext]_pipeline
               PROVE  WorkInv' /\ Unworked'
    OBVIOUS
  <2>1. CASE UNCHANGED vars
    <3>1. WorkInv'
      BY <2>1, WorkInvStep
    <3> QED
      BY <2>1, <3>1 DEF vars, Unworked
  <2>2. CASE QueueStep
    <3>1. WorkInv'
      BY <2>2, WorkInvStep DEF QueueStep, Next
    <3>2. RowChanges
      BY <2>2, QueueStepHolders DEF QueueStep, LinkInv
    <3>3. Unworked'
      BY <3>2 DEF RowChanges, Unworked
    <3> QED
      BY <3>1, <3>3
  <2> QED
    BY <2>1, <2>2, CommitKeepsWork
       DEF PipelineNext, Receive, Converse, Rollback, pipeline
<1>3. LinkInv /\ IngP!Inv /\ WorkInv /\ Unworked => ItemsInv
  BY DEF ItemsInv
<1> QED
  BY <1>1, <1>2, <1>3, LinkInvAlways, InboxInvAlways, PTL DEF PipelineSpec

\* A step that moves one row to status s with n failures, and the same of its
\* content.
RowTurns(r, s, n) ==
    \A d \in Raws :
        /\ StatusOfRows'[d] = IF d = r THEN s ELSE StatusOfRows[d]
        /\ AttemptsOfRows'[d] = IF d = r THEN n ELSE AttemptsOfRows[d]

ContentTurns(c, s, n) ==
    /\ OfContents(stored, StatusOfRows, "absent")'
         = Updated(OfContents(stored, StatusOfRows, "absent"), c, s)
    /\ OfContents(stored, AttemptsOfRows, 0)'
         = Updated(OfContents(stored, AttemptsOfRows, 0), c, n)

ContentReads(c, s, n) ==
    /\ c \in Contents
    /\ OfContents(stored, StatusOfRows, "absent")[c] = s
    /\ OfContents(stored, AttemptsOfRows, 0)[c] = n

LEMMA RowIsContent ==
    ASSUME ItemsInv, UNCHANGED stored, NEW r \in Raws, row[r].status \notin Aside,
           NEW s, NEW n, RowTurns(r, s, n)
    PROVE  /\ ContentReads(ContentOf(r), row[r].status, row[r].attempts)
           /\ ContentTurns(ContentOf(r), s, n)
<1> DEFINE status == OfContents(stored, StatusOfRows, "absent")
           failures == OfContents(stored, AttemptsOfRows, 0)
<1>1. Single(stored) /\ stored[r] = "primary" /\ Single(stored')
  BY ItemsInvFacts DEF Single
<1>2. /\ StatusOfRows[r] = row[r].status /\ AttemptsOfRows[r] = row[r].attempts
      /\ StatusOfRows'[r] = s /\ AttemptsOfRows'[r] = n
      /\ \A d \in Raws : d # r => /\ StatusOfRows[d] = StatusOfRows'[d]
                                  /\ AttemptsOfRows[d] = AttemptsOfRows'[d]
  BY DEF RowTurns, StatusOfRows, AttemptsOfRows
<1>3. OfContents(stored, StatusOfRows, "absent")[ContentOf(r)] = row[r].status
      /\ OfContents(stored, AttemptsOfRows, 0)[ContentOf(r)] = row[r].attempts
  BY <1>1, <1>2, OfContentsValue
<1>4. /\ SameBut(r, stored, StatusOfRows, stored, StatusOfRows')
      /\ SameBut(r, stored, AttemptsOfRows, stored, AttemptsOfRows')
  BY <1>2 DEF SameBut
<1>6. /\ ContentOf(r) \in Contents
      /\ OfContents(stored, StatusOfRows', "absent") = status'
      /\ OfContents(stored, AttemptsOfRows', 0) = failures'
  BY ViewsPrimed DEF Contents
<1> HIDE DEF status, failures
<1>7. /\ status' = Updated(status, ContentOf(r), s)
      /\ failures' = Updated(failures, ContentOf(r), n)
  <2>1. OfContents(stored, StatusOfRows', "absent")
          = Updated(OfContents(stored, StatusOfRows, "absent"), ContentOf(r),
                    StatusOfRows'[r])
    BY <1>1, <1>4, OfContentsUpdate
  <2>2. OfContents(stored, AttemptsOfRows', 0)
          = Updated(OfContents(stored, AttemptsOfRows, 0), ContentOf(r),
                    AttemptsOfRows'[r])
    BY <1>1, <1>4, OfContentsUpdate
  <2> QED
    BY <1>2, <1>6, <2>1, <2>2 DEF status, failures
<1>8. status[ContentOf(r)] = row[r].status /\ failures[ContentOf(r)] = row[r].attempts
  BY <1>3 DEF status, failures
<1> QED
  BY <1>6, <1>7, <1>8 DEF status, failures, ContentReads, ContentTurns

LEMMA QueueStepSeen ==
    ASSUME Operators = {}, Misled = {}, Slow = {}, ItemsInv, QueueStep
    PROVE  [Items!Next]_(Items!vars)
<1> DEFINE status == OfContents(stored, StatusOfRows, "absent")
           failures == OfContents(stored, AttemptsOfRows, 0)
           logged == {ContentOf(r) : r \in Logged}
<1>1. /\ UNCHANGED stored /\ [Work!Next]_(Work!vars) /\ RowChanges
      /\ TypeOK /\ TypeOK' /\ Single(stored)
      /\ \A r \in Raws : row[r].status \notin Aside <=> stored[r] = "primary"
  <2>1. Next /\ UNCHANGED stored /\ LinkInv /\ WorkInv /\ TypeOK
    BY DEF QueueStep, Next, inbox, ItemsInv, WorkInv
  <2>2. RowChanges
    BY <2>1, QueueStepHolders DEF QueueStep, LinkInv
  <2>3. [Work!Next]_(Work!vars) /\ TypeOK'
    BY <2>1, StepSeen, TypeOKStep
  <2> QED
    BY <2>1, <2>2, <2>3, ItemsInvFacts
<1>0. UNCHANGED stored
  BY <1>1
<1>2. \A r \in Raws : /\ StatusOfRows[r] = row[r].status
                      /\ AttemptsOfRows[r] = row[r].attempts
                      /\ StatusOfRows'[r] = row'[r].status
                      /\ AttemptsOfRows'[r] = row'[r].attempts
  BY DEF StatusOfRows, AttemptsOfRows
<1>3. ASSUME UNCHANGED AttemptsOfRows
      PROVE  failures' = failures
  BY <1>1, <1>3 DEF OfContents
<1>4. ASSUME UNCHANGED Logged
      PROVE  logged' = logged
  BY <1>4
<1>5. CASE UNCHANGED Work!vars
  <2>1. status' = status /\ failures' = failures /\ logged' = logged
    BY <1>1, <1>3, <1>4, <1>5 DEF Work!vars, OfContents
  <2> QED
    BY <2>1 DEF Items!vars
<1>6. ASSUME NEW r \in Raws, Work!Arrive(r)
      PROVE  FALSE
  <2>1. row[r].status = "absent" /\ row'[r].status # "absent"
    BY <1>2, <1>6 DEF Work!Arrive, StatusOfRows
  <2> QED
    BY <1>1, <2>1 DEF RowChanges, Aside
<1>7. ASSUME NEW r \in Raws, Work!Take(r)
      PROVE  Items!Take(ContentOf(r)) /\ ContentOf(r) \in Contents
  <2>1. /\ row[r].status = "pending" /\ row[r].status \notin Aside
        /\ StatusOfRows' = [StatusOfRows EXCEPT ![r] = "processing"]
        /\ AttemptsOfRows' = AttemptsOfRows /\ Logged' = Logged
    BY <1>2, <1>7 DEF Work!Take, Aside
  <2>2. RowTurns(r, "processing", row[r].attempts)
    BY <2>1 DEF RowTurns, StatusOfRows, AttemptsOfRows
  <2>3. /\ ContentReads(ContentOf(r), "pending", row[r].attempts)
        /\ ContentTurns(ContentOf(r), "processing", row[r].attempts)
    <3>1. row[r].status = "pending" /\ row[r].status \notin Aside
      BY <2>1
    <3> QED
      BY <1>0, <2>2, <3>1, RowIsContent
  <2> QED
    BY <1>3, <1>4, <2>1, <2>3 DEF Items!Take, ContentReads, ContentTurns, Updated
<1>8. ASSUME NEW r \in Raws, Work!Settle(r)
      PROVE  Items!Settle(ContentOf(r)) /\ ContentOf(r) \in Contents
  <2>1. /\ row[r].status = "processing" /\ row[r].status \notin Aside
        /\ StatusOfRows' = [StatusOfRows EXCEPT ![r] = "processed"]
        /\ AttemptsOfRows' = AttemptsOfRows
        /\ Logged' \in {Logged, Logged \cup {r}}
    BY <1>2, <1>8 DEF Work!Settle, Aside
  <2>2. RowTurns(r, "processed", row[r].attempts)
    BY <2>1 DEF RowTurns, StatusOfRows, AttemptsOfRows
  <2>3. /\ ContentReads(ContentOf(r), "processing", row[r].attempts)
        /\ ContentTurns(ContentOf(r), "processed", row[r].attempts)
    <3>1. row[r].status = "processing" /\ row[r].status \notin Aside
      BY <2>1
    <3> QED
      BY <1>0, <2>2, <3>1, RowIsContent
  <2>4. logged' \in {logged, logged \cup {ContentOf(r)}}
    BY <2>1
  <2> QED
    BY <1>3, <2>1, <2>3, <2>4 DEF Items!Settle, ContentReads, ContentTurns, Updated
<1>9. ASSUME NEW r \in Raws, Work!Fail(r)
      PROVE  Items!Fail(ContentOf(r)) /\ ContentOf(r) \in Contents
  <2> DEFINE n == row[r].attempts + 1
             s == IF n >= MaxAttempts THEN "failed" ELSE "pending"
  <2>1. /\ row[r].status = "processing" /\ row[r].status \notin Aside
        /\ Logged' = Logged
        /\ StatusOfRows' = [StatusOfRows EXCEPT ![r] = s]
        /\ AttemptsOfRows' = [AttemptsOfRows EXCEPT ![r] = n]
    BY <1>2, <1>9 DEF Work!Fail, AttemptsOfRows, Aside
  <2> HIDE DEF s, n
  <2>2. RowTurns(r, s, n)
    BY <2>1 DEF RowTurns, StatusOfRows, AttemptsOfRows
  <2>3. /\ ContentReads(ContentOf(r), "processing", row[r].attempts)
        /\ ContentTurns(ContentOf(r), s, n)
    <3>1. row[r].status = "processing" /\ row[r].status \notin Aside
      BY <2>1
    <3> QED
      BY <1>0, <2>2, <3>1, RowIsContent
  <2> DEFINE c == ContentOf(r)
  <2>4. /\ c \in Contents /\ status[c] = "processing" /\ failures[c] + 1 = n
        /\ status' = [status EXCEPT ![c] = s] /\ failures' = [failures EXCEPT ![c] = n]
    BY <2>3 DEF ContentReads, ContentTurns, Updated, n
  <2>5. failures' = [failures EXCEPT ![c] = @ + 1]
        /\ s = IF failures[c] + 1 >= MaxAttempts THEN "failed" ELSE "pending"
    <3> HIDE DEF status, failures, c
    <3> QED
      BY <2>4 DEF s
  <2> QED
    BY <1>4, <2>1, <2>4, <2>5 DEF Items!Fail
<1>10. ASSUME NEW S \in SUBSET Raws, Work!GiveBack(S)
       PROVE  \E T \in SUBSET Contents : Items!GiveBack(T)
  <2> DEFINE T == {ContentOf(r) : r \in S}
  <2>1. /\ \A r \in S : r \in Raws /\ row[r].status = "processing"
        /\ \A r \in Raws :
              StatusOfRows'[r] = IF r \in S THEN "pending" ELSE row[r].status
        /\ AttemptsOfRows' = AttemptsOfRows /\ Logged' = Logged
    BY <1>2, <1>10 DEF Work!GiveBack
  <2>2. \A r \in S : stored[r] = "primary"
    BY <1>1, <2>1 DEF Aside
  <2>3. T \in SUBSET Contents
    BY <2>1 DEF Contents
  <2>4. \A r \in S : status[ContentOf(r)] = "processing"
    BY <1>1, <1>2, <2>1, <2>2, OfContentsValue
  <2>5. ASSUME NEW c \in Contents
        PROVE  status'[c] = IF c \in T THEN "pending" ELSE status[c]
    <3>1. ASSUME NEW r \in Raws, stored[r] = "primary", ContentOf(r) = c
          PROVE  status'[c] = IF c \in T THEN "pending" ELSE status[c]
      <4>1. OfContents(stored', StatusOfRows', "absent")[c] = StatusOfRows'[r]
            /\ status[c] = row[r].status
        BY <1>1, <1>2, <3>1, OfContentsValue
      <4>2. c \in T <=> r \in S
        BY <1>1, <2>1, <2>2, <3>1 DEF Single
      <4> QED
        BY <2>1, <3>1, <4>1, <4>2 DEF OfContents
    <3>2. CASE \A r \in Raws : stored[r] = "primary" => ContentOf(r) # c
      <4>1. OfContents(stored', StatusOfRows', "absent")[c] = "absent"
            /\ status[c] = "absent" /\ c \notin T
        BY <1>1, <2>1, <2>2, <3>2, OfContentsNone
      <4> QED
        BY <4>1 DEF OfContents
    <3> QED
      BY <3>1, <3>2
  <2>6. status' = [c \in Contents |-> IF c \in T THEN "pending" ELSE status[c]]
    <3>1. status' = [c \in Contents |-> status'[c]]
      BY DEF OfContents
    <3> QED
      BY <2>5, <3>1
  <2>7. Items!GiveBack(T)
    BY <1>3, <1>4, <2>1, <2>4, <2>6 DEF Items!GiveBack
  <2> QED
    BY <2>3, <2>7
<1> QED
  BY <1>1, <1>5, <1>6, <1>7, <1>8, <1>9, <1>10 DEF Work!Next, Items!Next

\* The first COMMIT of a content is its arrival; all later ones are not seen.
LEMMA CommitSeen ==
    ASSUME ItemsInv, ItemsInv', NEW d \in Raws, Commit(d)
    PROVE  [Items!Next]_(Items!vars)
<1> DEFINE status == OfContents(stored, StatusOfRows, "absent")
           failures == OfContents(stored, AttemptsOfRows, 0)
<1>1. /\ TypeOK /\ IngP!TypeOK /\ IngP!OpenRows /\ IngP!OpenPrimaryIsAlone
      /\ Single(stored) /\ Single(stored')
      /\ \A r \in Raws : row[r].status \notin Aside <=> stored[r] = "primary"
  <2>1. Single(stored')
    <3>1. IngP!OnePrimaryPerContent'
      BY DEF ItemsInv, IngP!Inv
    <3> QED
      BY <3>1 DEF Single, ContentOf, IngP!OnePrimaryPerContent, IngP!SameContent
  <2> QED
    BY <2>1, ItemsInvFacts DEF ItemsInv, IngP!Inv
<1>2. /\ stored[d] = "none" /\ row[d] \in Rows /\ UNCHANGED events
      /\ stored' = [stored EXCEPT ![d] = open[d]]
      /\ row' = [row EXCEPT ![d].status = ArrivalStatus(open[d])]
  BY <1>1 DEF Commit, Ing!Commit, IngP!OpenRows, TypeOK, tables
<1>3. /\ row[d].status = "absent" /\ row[d].attempts = 0
  BY <1>1, <1>2 DEF ItemsInv, LinkInv, Unworked, Aside
<1>4. /\ \A c \in Raws : c # d => row'[c] = row[c] /\ stored'[c] = stored[c]
      /\ row'[d].status = ArrivalStatus(open[d]) /\ row'[d].attempts = 0
      /\ stored'[d] = open[d]
  BY <1>1, <1>2, <1>3 DEF TypeOK, IngP!TypeOK, ArrivalStatus, Rows
<1>5. \A r \in Raws : /\ StatusOfRows[r] = row[r].status
                      /\ AttemptsOfRows[r] = row[r].attempts
                      /\ StatusOfRows'[r] = row'[r].status
                      /\ AttemptsOfRows'[r] = row'[r].attempts
  BY DEF StatusOfRows, AttemptsOfRows
<1>6. Logged' = Logged
  BY <1>2 DEF Logged
<1>7. CASE open[d] = "primary"
  <2>1. \A c \in Raws : stored[c] = "primary" => ContentOf(c) # ContentOf(d)
    BY <1>1, <1>7 DEF IngP!OpenPrimaryIsAlone, IngP!SameContent, ContentOf
  <2>2. ContentOf(d) \in Contents
    BY DEF Contents
  <2>3. status[ContentOf(d)] = "absent" /\ failures[ContentOf(d)] = 0
    BY <2>1, <2>2, OfContentsNone
  <2>4. /\ SameBut(d, stored, StatusOfRows, stored', StatusOfRows')
        /\ SameBut(d, stored, AttemptsOfRows, stored', AttemptsOfRows')
    BY <1>4, <1>5 DEF SameBut
  <2>5. /\ StatusOfRows'[d] = "pending" /\ AttemptsOfRows'[d] = 0
        /\ stored'[d] = "primary"
    BY <1>4, <1>5, <1>7 DEF ArrivalStatus
  <2>6. OfContents(stored', StatusOfRows', "absent")
          = Updated(status, ContentOf(d), StatusOfRows'[d])
    BY <1>1, <2>4, <2>5, OfContentsUpdate
  <2>7. OfContents(stored', AttemptsOfRows', 0)
          = Updated(failures, ContentOf(d), AttemptsOfRows'[d])
    BY <1>1, <2>4, <2>5, OfContentsUpdate
  <2>8. status' = [status EXCEPT ![ContentOf(d)] = "pending"]
    BY <2>5, <2>6, ViewsPrimed DEF Updated
  <2>10. failures' = failures
    <3>1. failures' = Updated(failures, ContentOf(d), 0)
      BY <2>5, <2>7, ViewsPrimed
    <3> HIDE DEF failures
    <3>2. failures = [c \in Contents |-> failures[c]]
      BY OfContentsType DEF failures
    <3> QED
      BY <2>3, <3>1, <3>2 DEF Updated
  <2>9. Items!Arrive(ContentOf(d))
    BY <1>6, <2>3, <2>8, <2>10 DEF Items!Arrive
  <2> QED
    BY <2>2, <2>9 DEF Items!Next
<1>8. CASE open[d] # "primary"
  <2>1. \A c \in Raws : stored[c] = "primary" <=> stored'[c] = "primary"
    BY <1>2, <1>4, <1>8
  <2>2. \A c \in Raws : stored[c] = "primary" =>
            StatusOfRows[c] = StatusOfRows'[c] /\ AttemptsOfRows[c] = AttemptsOfRows'[c]
    BY <1>2, <1>4, <1>5
  <2>3. /\ OfContents(stored', StatusOfRows', "absent") = status
        /\ OfContents(stored', AttemptsOfRows', 0) = failures
    BY <1>1, <2>1, <2>2, OfContentsAgree
  <2>4. status' = status /\ failures' = failures
    BY <2>3 DEF OfContents
  <2> QED
    BY <1>6, <2>4 DEF Items!vars
<1> QED
  BY <1>7, <1>8

\* However often a content is delivered, and however its requests, workers,
\* reapers and crashes interleave, it is one item of work: taken, settled,
\* failed and given back as a whole, with one budget of failures.
THEOREM ContentsAreItems ==
    ASSUME Operators = {}, Misled = {}, Slow = {}
    PROVE  PipelineSpec => ContentsAreWorkItems
<1>1. PipelineInit => Items!Init
  <2> SUFFICES ASSUME PipelineInit
               PROVE  Items!Init
    OBVIOUS
  <2>1. events = {} /\ \A d \in Raws : stored[d] = "none"
    BY DEF PipelineInit, Init, TablesInit, Ing!Init
  <2> QED
    BY <2>1 DEF Items!Init, OfContents, Logged
<1>2. ItemsInv /\ ItemsInv' /\ [PipelineNext]_pipeline => [Items!Next]_(Items!vars)
  <2> SUFFICES ASSUME ItemsInv, ItemsInv', [PipelineNext]_pipeline
               PROVE  [Items!Next]_(Items!vars)
    OBVIOUS
  <2>1. CASE UNCHANGED <<row, events, stored>>
    BY <2>1 DEF Items!vars, OfContents, StatusOfRows, AttemptsOfRows, Logged
  <2>2. ASSUME NEW d \in Raws, Receive(d) \/ Converse(d) \/ Rollback(d)
        PROVE  UNCHANGED <<row, events, stored>>
    BY <2>2 DEF Receive, Converse, Rollback, Ing!Receive, Ing!RejectBody,
                Ing!InsertPrimary, Ing!Conflict, Ing!Lookup, Ing!InsertDuplicate,
                Ing!Respond, Ing!Rollback, vars, tables
  <2>3. UNCHANGED pipeline => UNCHANGED <<row, events, stored>>
    BY DEF pipeline, inbox, vars, tables
  <2> QED
    BY <2>1, <2>2, <2>3, QueueStepSeen, CommitSeen DEF PipelineNext
<1> QED
  BY <1>1, <1>2, ItemsInvAlways, PTL DEF PipelineSpec, ContentsAreWorkItems, Items!Spec

-----------------------------------------------------------------------------
(***************************************************************************)
(* The retry endpoint.                                                     *)
(***************************************************************************)
Calls == {"retry", "readback", "shipment", "invoice", "answered", "gone"}
Codes == {0, 200, 404, 409, 500, 502}
Replies == [code : Codes, status : Statuses, kind : Kinds \cup {"none"},
            state : States \cup {"none"}]

ApiTypeOK ==
    /\ call \in [Operators -> Calls]
    /\ asked \in [Operators -> Raws \cup {NoJob}]
    /\ reply \in [Operators -> Replies]

\* A persist of r has been: there is its event, or none is called for.
MayBeNone(r) == Unclassified \in Outcomes[r]
HasEvent(r) == \E x \in events : x.raw = r
HasEventOf(r, kind) == \E x \in events : x.raw = r /\ x.entity.kind = kind

\* Request o asks for the row that its retry holds, and has left the retry when
\* the retry is over.
RequestInv(o) ==
    /\ pc[o] = "idle" => asked[o] = NoJob
    /\ InFlight(o) => asked[o] = job[o]
    /\ call[o] = "retry" <=> pc[o] # "done"
    /\ call[o] \in {"readback", "shipment", "invoice"} => asked[o] \in Raws

\* What the lookups will find: they come after the persist, and the log never
\* loses an event.  At the invoices the shipments have been seen without one.
LookupInv(o) ==
    /\ call[o] \in {"readback", "shipment"} =>
          HasEvent(asked[o]) \/ MayBeNone(asked[o])
    /\ call[o] = "invoice" =>
          HasEventOf(asked[o], "invoice") \/ MayBeNone(asked[o])

\* What the response says once its code is set.
AnswerInv(o) ==
    /\ call[o] # "answered" => reply[o].code = 0
    /\ reply[o].code = 0 => reply[o].kind = "none"
    /\ reply[o].code = 200 =>
          \/ \E x \in events :
                /\ x.raw = asked[o]
                /\ x.entity.kind = reply[o].kind /\ x.state = reply[o].state
          \/ reply[o].kind = "none" /\ MayBeNone(asked[o])

ReplyInv ==
    /\ ApiTypeOK
    /\ \A o \in Operators : RequestInv(o) /\ LookupInv(o) /\ AnswerInv(o)

\* The endpoint's steps are steps of the queue, or stutters of it.
LEMMA EndpointSteps == [EndpointNext]_endpoint => [Next]_vars
<1> SUFFICES ASSUME EndpointNext
             PROVE  [Next]_vars
  BY DEF endpoint
<1>1. ASSUME NEW o \in Operators, Process(o) \/ Persisted(o) \/ Failed(o)
      PROVE  Next
  BY <1>1, ProceedSteps
     DEF Process, Persisted, Failed, Next, RetryStep, Attempt, FaultStep
<1>2. ASSUME NEW o \in Operators,
             \/ ReadBack(o) \/ ReadBackFailed(o) \/ LookupFailed(o)
             \/ DiedReading(o)
             \/ \E kind \in Kinds : Hit(o, kind) \/ Miss(o, kind)
      PROVE  UNCHANGED vars
  BY <1>2 DEF ReadBack, ReadBackFailed, LookupFailed, DiedReading, Hit, Miss
<1>3. ASSUME NEW o \in Operators,
             Died(o) \/ \E r \in Raws : Begin(o, r) \/ Refused(o, r)
      PROVE  Next
  BY <1>3 DEF Died, Begin, Refused, Next, FaultStep
<1>4. ASSUME OthersStep
      PROVE  Next
  BY <1>4, ProceedSteps DEF OthersStep, Next, FaultStep
<1> QED
  BY <1>1, <1>2, <1>3, <1>4 DEF EndpointNext, RequestStep

\* Seen without its responses, the endpoint is a run of the queue: what is
\* proved of the queue holds of it.
THEOREM EndpointImplementsQueue == EndpointSpec => Spec
<1>1. EndpointInit => Init
  BY DEF EndpointInit
<1> QED
  BY <1>1, EndpointSteps, PTL DEF EndpointSpec, Spec

\* The others leave a request's retry alone.
LEMMA OthersLeaveRetry ==
    ASSUME TypeOK, OthersStep, NEW o \in Operators
    PROVE  pc'[o] = pc[o] /\ job'[o] = job[o]
<1>1. ASSUME NEW w \in Workers, \A a \in Actors : a # w => pc'[a] = pc[a]
                                                           /\ job'[a] = job[a]
      PROVE  pc'[o] = pc[o] /\ job'[o] = job[o]
  BY <1>1, ActorsAssumption DEF Actors
<1>2. ASSUME NEW w \in Workers,
             \/ WorkerStep(w)
             \/ ReapFailed(w) \/ ClaimFailed(w) \/ RecordLost(w) \/ Crash(w)
             \/ ClaimUnconfirmed(w)
             \/ PersistUnconfirmed(w) \/ LoadAfterUnconfirmed(w)
      PROVE  \A a \in Actors : a # w => pc'[a] = pc[a] /\ job'[a] = job[a]
  <2>1. CASE \/ ClaimFailed(w) \/ RecordLost(w) \/ Crash(w)
             \/ ClaimUnconfirmed(w) \/ Persist(w) \/ MarkFailed(w)
    BY <2>1 DEF ClaimFailed, RecordLost, Crash, ClaimUnconfirmed, Persist,
                MarkFailed, Leave, TypeOK
  <2>2. CASE \/ Reap(w) \/ CommitClaim(w) \/ NothingToClaim(w) \/ Wake(w)
             \/ ReapFailed(w) \/ \E r \in Raws : Claim(w, r)
    BY <2>2 DEF Reap, CommitClaim, NothingToClaim, Wake, ReapFailed, Claim, TypeOK
  <2>3. CASE \/ \E e \in Results : ClassifyOk(w, e)
             \/ ClassifyFailed(w) \/ PersistFailed(w)
             \/ PersistUnconfirmed(w) \/ LoadAfterUnconfirmed(w)
    BY <2>3 DEF ClassifyOk, ClassifyFailed, PersistFailed, PersistUnconfirmed,
                LoadAfterUnconfirmed, TypeOK
  <2> QED
    BY <1>2, <2>1, <2>2, <2>3 DEF WorkerStep, Attempt
<1>3. CASE Tick \/ \E r \in Raws : Ingest(r)
  BY <1>3 DEF Tick, Ingest
<1> QED
  BY <1>1, <1>2, <1>3 DEF OthersStep

LEMMA LogGrows ==
    ASSUME TypeOK, [Next]_vars
    PROVE  events \subseteq events'
<1>1. UNCHANGED tables => events \subseteq events'
  BY DEF tables
<1>2. UNCHANGED vars => UNCHANGED tables
  BY DEF vars, tables
<1>3. ASSUME NEW a \in Actors, Persist(a) \/ PersistUnconfirmed(a)
      PROVE  events \subseteq events'
  BY <1>1, <1>3, PersistedAnswer DEF PersistTables, EventsWith
<1> QED
  BY <1>1, <1>2, <1>3, TablesStep

\* A request that does not move keeps its part of the invariant, whatever the
\* others log.
LEMMA WaitingKeeps ==
    ASSUME NEW o \in Operators, RequestInv(o), LookupInv(o), AnswerInv(o),
           events \subseteq events',
           pc'[o] = pc[o], job'[o] = job[o], call'[o] = call[o],
           asked'[o] = asked[o], reply'[o] = reply[o]
    PROVE  RequestInv(o)' /\ LookupInv(o)' /\ AnswerInv(o)'
BY DEF RequestInv, LookupInv, AnswerInv, InFlight, HasEvent, HasEventOf, MayBeNone

\* What a step of request o may do.
MovesOnly(o) ==
    \A p \in Operators \ {o} :
        /\ pc'[p] = pc[p] /\ job'[p] = job[p] /\ call'[p] = call[p]
        /\ asked'[p] = asked[p] /\ reply'[p] = reply[p]

\* The retry under way.
LEMMA RetryPhases ==
    ASSUME TypeOK, ReplyInv, NEW o \in Operators,
           Process(o) \/ \E r \in Raws : Begin(o, r)
    PROVE  /\ ApiTypeOK' /\ MovesOnly(o)
           /\ RequestInv(o)' /\ LookupInv(o)' /\ AnswerInv(o)'
<1>0. o \in Actors /\ Operators \subseteq Actors
  BY DEF Actors
<1>1. CASE Process(o)
  <2>1. UNCHANGED <<call, asked, reply, job>>
    BY <1>1 DEF Process, api, ClassifyOk, ClassifyFailed, PersistFailed,
                PersistUnconfirmed, LoadAfterUnconfirmed
  <2>2. /\ InFlight(o) /\ pc'[o] \in {"persist", "record", "unconfirmed"}
        /\ \A p \in Operators \ {o} : pc'[p] = pc[p]
    BY <1>0, <1>1 DEF Process, ClassifyOk, ClassifyFailed, PersistFailed,
                PersistUnconfirmed, LoadAfterUnconfirmed, InFlight, TypeOK
  <2>3. call[o] = "retry" /\ reply[o].code = 0
    BY <2>2 DEF ReplyInv, RequestInv, AnswerInv, InFlight
  <2> QED
    BY <2>1, <2>2, <2>3 DEF ReplyInv, ApiTypeOK, MovesOnly, RequestInv, LookupInv,
                            AnswerInv
<1>2. ASSUME NEW r \in Raws, Begin(o, r)
      PROVE  /\ ApiTypeOK' /\ MovesOnly(o)
             /\ RequestInv(o)' /\ LookupInv(o)' /\ AnswerInv(o)'
  <2>1. /\ pc[o] = "idle" /\ UNCHANGED <<call, reply>>
        /\ pc' = [pc EXCEPT ![o] = "classify"]
        /\ job' = [job EXCEPT ![o] = r]
        /\ asked' = [asked EXCEPT ![o] = r]
    BY <1>2 DEF Begin, Acquire
  <2>2. pc'[o] = "classify" /\ job'[o] = r /\ asked'[o] = r /\ MovesOnly(o)
    BY <1>0, <2>1 DEF TypeOK, ReplyInv, ApiTypeOK, MovesOnly
  <2>3. call[o] = "retry" /\ reply[o].code = 0
    BY <2>1 DEF ReplyInv, RequestInv, AnswerInv
  <2> QED
    BY <2>1, <2>2, <2>3 DEF ReplyInv, ApiTypeOK, RequestInv, LookupInv, AnswerInv
<1> QED
  BY <1>1, <1>2

\* What Goto and Answer do to a request.
LEMMA Responds ==
    ASSUME ApiTypeOK, NEW o \in Operators, NEW code \in Codes, Answer(o, code)
    PROVE  /\ ApiTypeOK' /\ UNCHANGED asked
           /\ call'[o] = "answered"
           /\ reply'[o].code = code /\ reply'[o].kind = reply[o].kind
           /\ \A p \in Operators \ {o} : call'[p] = call[p] /\ reply'[p] = reply[p]
<1> DEFINE new == [reply[o] EXCEPT !.code = code]
<1>1. reply[o] \in Replies
  BY DEF ApiTypeOK
<1>2. new \in Replies /\ new.code = code /\ new.kind = reply[o].kind
  BY <1>1 DEF Replies
<1>3. reply' = [reply EXCEPT ![o] = new] /\ Goto(o, "answered")
  BY DEF Answer
<1> HIDE DEF new
<1>4. /\ reply' \in [Operators -> Replies] /\ reply'[o] = new
      /\ \A p \in Operators \ {o} : reply'[p] = reply[p]
  BY <1>2, <1>3 DEF ApiTypeOK
<1> QED
  BY <1>2, <1>3, <1>4 DEF ApiTypeOK, Goto, Calls

LEMMA GoesTo ==
    ASSUME ApiTypeOK, NEW o \in Operators, NEW to \in Calls, Goto(o, to)
    PROVE  /\ call' \in [Operators -> Calls] /\ UNCHANGED asked
           /\ call'[o] = to
           /\ \A p \in Operators \ {o} : call'[p] = call[p]
BY DEF ApiTypeOK, Goto

\* The end of the retry.
LEMMA RetryEnds ==
    ASSUME HeldInv, ReplyInv, NEW o \in Operators,
           Persisted(o) \/ Failed(o) \/ Died(o) \/ \E r \in Raws : Refused(o, r)
    PROVE  /\ ApiTypeOK' /\ MovesOnly(o)
           /\ RequestInv(o)' /\ LookupInv(o)' /\ AnswerInv(o)'
<1>0. o \in Actors /\ Operators \subseteq Actors /\ o \notin Workers
  BY ActorsAssumption DEF Actors
<1>1. /\ pc[o] # "done" /\ pc'[o] = "done"
      /\ \A p \in Operators \ {o} : pc'[p] = pc[p] /\ job'[p] = job[p]
  BY <1>0 DEF Persisted, Failed, Died, Refused, Persist, After, RecordRetryFailure,
              RecordLost, ApiCrash, Refuse, Leave, InFlight, HeldInv, TypeOK
<1>2. /\ reply[o] \in Replies /\ call[o] = "retry" /\ reply[o].code = 0
      /\ reply[o].kind = "none"
  BY <1>1 DEF ReplyInv, ApiTypeOK, RequestInv, AnswerInv
<1>3. CASE Failed(o) \/ \E r \in Raws : Refused(o, r)
  <2>1. PICK code \in {404, 409, 502} : Answer(o, code)
    BY <1>3 DEF Failed, Refused
  <2>2. /\ ApiTypeOK' /\ UNCHANGED asked /\ call'[o] = "answered"
        /\ reply'[o].code = code
        /\ \A p \in Operators \ {o} : call'[p] = call[p] /\ reply'[p] = reply[p]
    BY <2>1, Responds DEF ReplyInv, Codes
  <2> QED
    BY <1>1, <2>1, <2>2 DEF MovesOnly, RequestInv, LookupInv, AnswerInv,
                                  InFlight
<1>4. CASE Died(o)
  <2>1. Goto(o, "gone") /\ UNCHANGED reply
    BY <1>4 DEF Died
  <2>2. /\ call' \in [Operators -> Calls] /\ UNCHANGED asked /\ call'[o] = "gone"
        /\ \A p \in Operators \ {o} : call'[p] = call[p]
    BY <2>1, GoesTo DEF ReplyInv, Calls
  <2> QED
    BY <1>1, <1>2, <2>1, <2>2 DEF ReplyInv, ApiTypeOK, MovesOnly, RequestInv,
                                  LookupInv, AnswerInv, InFlight
<1>5. CASE Persisted(o)
  <2>1. Persist(o) /\ Goto(o, "readback") /\ UNCHANGED reply
    BY <1>5 DEF Persisted
  <2>2. /\ call' \in [Operators -> Calls] /\ UNCHANGED asked
        /\ call'[o] = "readback"
        /\ \A p \in Operators \ {o} : call'[p] = call[p]
    BY <2>1, GoesTo DEF ReplyInv, Calls
  <2>3. /\ asked[o] = job[o] /\ job[o] \in Raws /\ result[o] \in Results
        /\ result[o] \in Outcomes[job[o]] /\ PersistTables(job[o], result[o])
    BY <1>0, <2>1, PersistedAnswer
       DEF ReplyInv, RequestInv, HeldInv, HoldersInv, Persist, InFlight
  <2>4. HasEvent(asked[o])' \/ MayBeNone(asked[o])
    BY <2>2, <2>3, PersistLogs DEF HasEvent, MayBeNone
  <2> QED
    BY <1>1, <1>2, <2>1, <2>2, <2>3, <2>4
       DEF ReplyInv, ApiTypeOK, MovesOnly, RequestInv, LookupInv, AnswerInv,
           InFlight, MayBeNone
<1> QED
  BY <1>3, <1>4, <1>5

\* The read-back and the lookups.
LEMMA Lookups ==
    ASSUME TypeOK, ReplyInv, NEW o \in Operators,
           \/ ReadBack(o) \/ ReadBackFailed(o) \/ LookupFailed(o)
           \/ DiedReading(o)
           \/ \E kind \in Kinds : Hit(o, kind) \/ Miss(o, kind)
    PROVE  /\ ApiTypeOK' /\ MovesOnly(o)
           /\ RequestInv(o)' /\ LookupInv(o)' /\ AnswerInv(o)'
<1>1. /\ UNCHANGED vars /\ UNCHANGED <<row, pc, job, events>> /\ UNCHANGED asked
      /\ call[o] \in {"readback", "shipment", "invoice"}
  BY DEF ReadBack, ReadBackFailed, LookupFailed, DiedReading, Hit, Miss, Answer,
         Goto, vars, Kinds
<1>2. /\ pc[o] = "done" /\ asked[o] \in Raws /\ reply[o] \in Replies
      /\ reply[o].code = 0 /\ reply[o].kind = "none" /\ row[asked[o]] \in Rows
  BY <1>1 DEF ReplyInv, ApiTypeOK, RequestInv, AnswerInv, TypeOK
<1>3. CASE ReadBack(o)
  <2> DEFINE new == [reply[o] EXCEPT !.status = row[asked[o]].status]
  <2>1. /\ call[o] = "readback" /\ Goto(o, "shipment")
        /\ reply' = [reply EXCEPT ![o] = new]
    BY <1>3 DEF ReadBack
  <2>2. /\ call' \in [Operators -> Calls] /\ call'[o] = "shipment"
        /\ \A p \in Operators \ {o} : call'[p] = call[p]
    BY <2>1, GoesTo DEF ReplyInv, Calls
  <2>3. new \in Replies /\ new.code = 0 /\ new.kind = "none"
    BY <1>2 DEF Replies, Rows
  <2> HIDE DEF new
  <2>4. /\ reply' \in [Operators -> Replies] /\ reply'[o] = new
        /\ \A p \in Operators \ {o} : reply'[p] = reply[p]
    BY <2>1, <2>3 DEF ReplyInv, ApiTypeOK
  <2> QED
    BY <1>1, <1>2, <2>1, <2>2, <2>3, <2>4
       DEF ReplyInv, ApiTypeOK, MovesOnly, RequestInv, LookupInv, AnswerInv, InFlight,
           HasEvent, MayBeNone
<1>4. CASE ReadBackFailed(o) \/ LookupFailed(o)
  <2>1. PICK code \in {500, 502} : Answer(o, code)
    BY <1>4 DEF ReadBackFailed, LookupFailed
  <2>2. /\ ApiTypeOK' /\ call'[o] = "answered"
        /\ reply'[o].code = code
        /\ \A p \in Operators \ {o} : call'[p] = call[p] /\ reply'[p] = reply[p]
    BY <2>1, Responds DEF ReplyInv, Codes
  <2> QED
    BY <1>1, <1>2, <2>1, <2>2
       DEF MovesOnly, RequestInv, LookupInv, AnswerInv, InFlight
<1>5. ASSUME NEW kind \in Kinds, Hit(o, kind)
      PROVE  /\ ApiTypeOK' /\ MovesOnly(o)
             /\ RequestInv(o)' /\ LookupInv(o)' /\ AnswerInv(o)'
  <2>1. PICK x \in Found(o, kind) :
            reply' = [reply EXCEPT
                ![o] = [@ EXCEPT !.code = 200, !.kind = kind, !.state = x.state]]
    BY <1>5 DEF Hit
  <2> DEFINE new == [reply[o] EXCEPT !.code = 200, !.kind = kind, !.state = x.state]
  <2>2. x \in events /\ x.raw = asked[o] /\ x.entity.kind = kind /\ x.state \in States
    BY <2>1 DEF Found, TypeOK, TablesTypeOK, EventRows
  <2>3. new \in Replies /\ new.code = 200 /\ new.kind = kind /\ new.state = x.state
    <3>1. 200 \in Codes
      BY DEF Codes
    <3>2. new \in Replies
      BY <1>2, <1>5, <2>2, <3>1 DEF Replies
    <3>3. new.code = 200 /\ new.kind = kind /\ new.state = x.state
      BY <1>2 DEF Replies
    <3> QED
      BY <3>2, <3>3
  <2>4. /\ call' \in [Operators -> Calls] /\ call'[o] = "answered"
        /\ \A p \in Operators \ {o} : call'[p] = call[p]
    BY <1>5, GoesTo DEF ReplyInv, Calls, Hit
  <2>5. reply' = [reply EXCEPT ![o] = new]
    BY <2>1
  <2> HIDE DEF new
  <2>6. /\ reply' \in [Operators -> Replies] /\ reply'[o] = new
        /\ \A p \in Operators \ {o} : reply'[p] = reply[p]
    BY <2>3, <2>5 DEF ReplyInv, ApiTypeOK
  <2>7. AnswerInv(o)'
    BY <1>1, <2>2, <2>3, <2>4, <2>6 DEF AnswerInv
  <2> QED
    BY <1>1, <1>2, <2>4, <2>6, <2>7
       DEF ReplyInv, ApiTypeOK, MovesOnly, RequestInv, LookupInv, InFlight
<1>6. ASSUME NEW kind \in Kinds, Miss(o, kind)
      PROVE  /\ ApiTypeOK' /\ MovesOnly(o)
             /\ RequestInv(o)' /\ LookupInv(o)' /\ AnswerInv(o)'
  <2>1. call[o] = kind /\ Found(o, kind) = {} /\ kind \in {"shipment", "invoice"}
    BY <1>6 DEF Miss, Kinds
  <2>2. \A x \in events : x.entity.kind \in Kinds
    BY DEF TypeOK, TablesTypeOK, EventRows, EntityKeys
  <2>3. CASE kind = "shipment"
    <3>1. Goto(o, "invoice") /\ UNCHANGED reply
      BY <1>6, <2>3 DEF Miss
    <3>2. /\ call' \in [Operators -> Calls] /\ call'[o] = "invoice"
          /\ \A p \in Operators \ {o} : call'[p] = call[p]
      BY <3>1, GoesTo DEF ReplyInv, Calls
    <3>3. HasEventOf(asked[o], "invoice") \/ MayBeNone(asked[o])
      BY <2>1, <2>2, <2>3
         DEF ReplyInv, LookupInv, HasEvent, HasEventOf, Found, Kinds
    <3> QED
      BY <1>1, <1>2, <3>1, <3>2, <3>3
         DEF ReplyInv, ApiTypeOK, MovesOnly, RequestInv, LookupInv, AnswerInv,
             InFlight, HasEventOf, MayBeNone
  <2>4. CASE kind = "invoice"
    <3>1. Answer(o, 200)
      BY <1>6, <2>4 DEF Miss
    <3>2. /\ ApiTypeOK' /\ call'[o] = "answered"
          /\ reply'[o].code = 200 /\ reply'[o].kind = "none"
          /\ \A p \in Operators \ {o} : call'[p] = call[p] /\ reply'[p] = reply[p]
      BY <1>2, <3>1, Responds DEF ReplyInv, Codes
    <3>3. MayBeNone(asked[o])
      BY <2>1, <2>4 DEF ReplyInv, LookupInv, HasEventOf, Found
    <3> QED
      BY <1>1, <1>2, <3>2, <3>3
         DEF MovesOnly, RequestInv, LookupInv, AnswerInv, InFlight, MayBeNone
  <2> QED
    BY <2>1, <2>3, <2>4
<1>7. CASE DiedReading(o)
  <2>1. Goto(o, "gone") /\ UNCHANGED reply
    BY <1>7 DEF DiedReading
  <2>2. /\ call' \in [Operators -> Calls] /\ call'[o] = "gone"
        /\ \A p \in Operators \ {o} : call'[p] = call[p]
    BY <2>1, GoesTo DEF ReplyInv, Calls
  <2> QED
    BY <1>1, <1>2, <2>1, <2>2
       DEF ReplyInv, ApiTypeOK, MovesOnly, RequestInv, LookupInv, AnswerInv, InFlight
<1> QED
  BY <1>3, <1>4, <1>5, <1>6, <1>7

LEMMA ReplyInvInit == EndpointInit => ReplyInv
<1> SUFFICES ASSUME EndpointInit, NEW o \in Operators
             PROVE  ApiTypeOK /\ RequestInv(o) /\ LookupInv(o) /\ AnswerInv(o)
  BY DEF ReplyInv, EndpointInit, ApiTypeOK, Calls, Codes, Replies, NoReply, Statuses
<1>1. ApiTypeOK
  BY DEF EndpointInit, ApiTypeOK, Calls, Codes, Replies, NoReply, Statuses
<1>2. pc[o] = "idle"
  BY ActorsAssumption DEF EndpointInit, Init, Actors
<1> QED
  BY <1>1, <1>2 DEF EndpointInit, RequestInv, LookupInv, AnswerInv, InFlight, NoReply

LEMMA ReplyInvStep == HeldInv /\ ReplyInv /\ [EndpointNext]_endpoint => ReplyInv'
<1> SUFFICES ASSUME HeldInv, ReplyInv, [EndpointNext]_endpoint
             PROVE  ReplyInv'
  OBVIOUS
<1>1. TypeOK /\ events \subseteq events'
  BY EndpointSteps, LogGrows DEF HeldInv
<1>2. ASSUME NEW o \in Operators, ApiTypeOK', MovesOnly(o),
             RequestInv(o)', LookupInv(o)', AnswerInv(o)'
      PROVE  ReplyInv'
  <2>1. ASSUME NEW p \in Operators \ {o}
        PROVE  RequestInv(p)' /\ LookupInv(p)' /\ AnswerInv(p)'
    BY <1>1, <1>2, WaitingKeeps DEF MovesOnly, ReplyInv
  <2> QED
    BY <1>2, <2>1 DEF ReplyInv
<1>3. ASSUME NEW o \in Operators,
             \/ \E r \in Raws : Begin(o, r) \/ Refused(o, r)
             \/ RequestStep(o)
             \/ ReadBackFailed(o) \/ LookupFailed(o)
             \/ Died(o) \/ DiedReading(o)
      PROVE  ReplyInv'
  BY <1>1, <1>2, <1>3, RetryPhases, RetryEnds, Lookups DEF RequestStep
<1>4. ASSUME \A o \in Operators : pc'[o] = pc[o] /\ job'[o] = job[o], UNCHANGED api
      PROVE  ReplyInv'
  BY <1>1, <1>4, WaitingKeeps DEF ReplyInv, ApiTypeOK, api
<1>5. CASE OthersStep
  BY <1>1, <1>4, <1>5, OthersLeaveRetry DEF OthersStep
<1>6. CASE UNCHANGED endpoint
  BY <1>4, <1>6 DEF endpoint, vars
<1> QED
  BY <1>3, <1>5, <1>6 DEF EndpointNext

LEMMA HeldAlways == EndpointSpec => []HeldInv
<1>1. SettledRowsInv => HeldInv
  BY DEF SettledRowsInv
<1> QED
  BY <1>1, EndpointImplementsQueue, SettledRowsInvAlways, PTL

LEMMA ReplyInvAlways == EndpointSpec => []ReplyInv
BY ReplyInvInit, ReplyInvStep, HeldAlways, PTL DEF EndpointSpec

\* A 200 tells the truth about the log: the event it names is this raw event's
\* own, and it names none only if the classifier may have found none, whoever
\* else works on the row between the persist and the lookups.
THEOREM RepliesAreTrue == EndpointSpec => []ReplyReportsLog
<1>1. ReplyInv => ReplyReportsLog
  BY DEF ReplyInv, AnswerInv, ReplyReportsLog, MayBeNone
<1> QED
  BY <1>1, ReplyInvAlways, PTL

\* What the queue promises, the endpoint keeps: no rollback, duplicates at
\* rest, processed rows logged, and, with a consistent classifier, entities
\* that mirror their log.
THEOREM EndpointRollsNothingBack == EndpointSpec => NeverRollsBack
BY EndpointImplementsQueue, NoRollback, PTL

THEOREM EndpointSparesDuplicates == EndpointSpec => []DuplicateUntouched
BY EndpointImplementsQueue, DuplicatesRest, PTL

THEOREM EndpointLogsProcessed == EndpointSpec => []ProcessedHasEvent
BY EndpointImplementsQueue, ProcessedIsLogged, PTL

THEOREM EndpointMirrors ==
    ASSUME ConsistentClassifier
    PROVE  EndpointSpec => []EntityMirrorsLog
BY EndpointImplementsQueue, ConsistentMirror, PTL
-----------------------------------------------------------------------------
(***************************************************************************)
(* How far the harm of a retry reaches.  A retry acquires its row without  *)
(* asking who holds it, so for the row it names the promises of the queue  *)
(* are off.  They hold for every other row, with any number of retries.    *)
(***************************************************************************)
Unnamed(r) == \A o \in Operators : asked[o] # r

\* A row that no retry has named has one actor at most, a worker; while that
\* worker claims it the row is pending, and then it carries the worker's own
\* claim in locked_at.
UnnamedHaveOneOwner ==
    \A r \in Raws : Unnamed(r) =>
        \A a \in Actors : Busy(a) /\ job[a] = r =>
            /\ a \in Workers
            /\ \A b \in Actors : Busy(b) /\ job[b] = r => b = a
            /\ pc[a] = "claiming" => row[r].status = "pending"
            /\ InFlight(a) => row[r].locked_at = elapsed[a]

\* Such a row is failed exactly when its budget is spent, can be reaped when it
\* is in processing, and is processed, with one event at most, if it has one.
UnnamedKeepPromises ==
    \A r \in Raws : Unnamed(r) =>
        /\ row[r].attempts <= MaxAttempts
        /\ row[r].status = "failed" <=> row[r].attempts = MaxAttempts
        /\ row[r].status = "processing" => row[r].locked_at # NotLocked
        /\ \A x \in events : x.raw = r => row[r].status = "processed"
        /\ \A x, y \in events : x.raw = r /\ y.raw = r => x = y

\* And it stays in a terminal status, unless this very step names it.
UnnamedStayTerminal ==
    [][\A r \in Raws :
          Unnamed(r)' /\ row[r].status \in {"processed", "failed", "duplicate"} =>
              row'[r].status = row[r].status]_endpoint

LEMMA NamedForGood ==
    ASSUME HeldInv, ReplyInv, [EndpointNext]_endpoint, NEW r \in Raws, Unnamed(r)'
    PROVE  Unnamed(r)
<1> SUFFICES ASSUME NEW o \in Operators, asked[o] = r
             PROVE  asked'[o] = r
  BY DEF Unnamed
<1>1. r # NoJob
  BY RawsAssumption DEF NoJob
<1>2. ASSUME NEW p \in Operators, NEW q \in Raws, Begin(p, q)
      PROVE  asked'[o] = r
  <2>1. pc[p] = "idle" /\ asked' = [asked EXCEPT ![p] = q]
    BY <1>2 DEF Begin, Acquire
  <2>2. o # p
    BY <1>1, <2>1 DEF ReplyInv, RequestInv
  <2> QED
    BY <2>1, <2>2 DEF ReplyInv, ApiTypeOK
<1>3. CASE UNCHANGED asked
  BY <1>3
<1>4. CASE ~(\E p \in Operators : \E q \in Raws : Begin(p, q))
  BY <1>4, <1>3
     DEF EndpointNext, endpoint, api, RequestStep, OthersStep, Refused, Process,
         Persisted, Failed, Died, DiedReading, ReadBack, ReadBackFailed,
         LookupFailed, Hit, Miss, Answer, Goto
<1> QED
  BY <1>2, <1>4

\* Whoever acquires a row has named it.
LEMMA UnnamedIsNotAcquired ==
    ASSUME ReplyInv', NEW r \in Raws, Unnamed(r)'
    PROVE  \A o \in Operators : ~AcquiresRow(o, r)
BY DEF AcquiresRow, Unnamed, ReplyInv, RequestInv, InFlight

LEMMA OwnedUnnamedAlways ==
    ASSUME WorkersInTime
    PROVE  EndpointSpec => [](\A r \in Raws : Unnamed(r) => OwnedAt(r))
<1>1. EndpointInit => \A r \in Raws : Unnamed(r) => OwnedAt(r)
  BY RowInvInit DEF EndpointInit, RowInv, WorkAt
<1>2. /\ HeldInv /\ ReplyInv /\ ReplyInv' /\ [EndpointNext]_endpoint
      /\ \A r \in Raws : Unnamed(r) => OwnedAt(r)
      => (\A r \in Raws : Unnamed(r) => OwnedAt(r))'
  BY EndpointSteps, NamedForGood, UnnamedIsNotAcquired, OwnedStep DEF HeldInv
<1> QED
  BY <1>1, <1>2, ReplyInvAlways, HeldAlways, PTL DEF EndpointSpec

LEMMA UnnamedRowsAlways ==
    ASSUME WorkersInTime, WorkersToldTheTruth
    PROVE  EndpointSpec => [](\A r \in Raws : Unnamed(r) => RowInv(r))
<1>1. EndpointInit => \A r \in Raws : Unnamed(r) => RowInv(r)
  BY RowInvInit DEF EndpointInit
<1>2. /\ HeldInv /\ ReplyInv /\ ReplyInv' /\ [EndpointNext]_endpoint
      /\ \A r \in Raws : Unnamed(r) => RowInv(r)
      => (\A r \in Raws : Unnamed(r) => RowInv(r))'
  BY EndpointSteps, NamedForGood, UnnamedIsNotAcquired, RowInvStep DEF HeldInv
<1> QED
  BY <1>1, <1>2, ReplyInvAlways, HeldAlways, PTL DEF EndpointSpec

\* Mutual exclusion survives the retries on every row they have not named,
\* with every fault and lost confirmation, if the workers keep to the worst
\* case; the retries need not.
THEOREM RetriesAreLocal ==
    ASSUME WorkersInTime
    PROVE  EndpointSpec => []UnnamedHaveOneOwner
<1>1. (\A r \in Raws : Unnamed(r) => OwnedAt(r)) => UnnamedHaveOneOwner
  BY DEF UnnamedHaveOneOwner, OwnedAt, Holds, Held
<1> QED
  BY <1>1, OwnedUnnamedAlways, PTL

\* So do the budget, the one event and the reaper's hold on the row, if no
\* worker's COMMIT is misreported; those of the retries may be.
THEOREM UnnamedKept ==
    ASSUME WorkersInTime, WorkersToldTheTruth
    PROVE  EndpointSpec => []UnnamedKeepPromises
<1>1. (\A r \in Raws : Unnamed(r) => RowInv(r)) => UnnamedKeepPromises
  BY DEF UnnamedKeepPromises, RowInv, BudgetAt, LockedAt, EventAt
<1> QED
  BY <1>1, UnnamedRowsAlways, PTL

\* And the terminal statuses.
THEOREM UnnamedFinal ==
    ASSUME WorkersInTime, WorkersToldTheTruth
    PROVE  EndpointSpec => UnnamedStayTerminal
<1>1. /\ HeldInv /\ ReplyInv /\ ReplyInv' /\ [EndpointNext]_endpoint
      /\ \A r \in Raws : Unnamed(r) => RowInv(r)
      => [\A r \in Raws :
             Unnamed(r)' /\ row[r].status \in {"processed", "failed", "duplicate"} =>
                 row'[r].status = row[r].status]_endpoint
  BY EndpointSteps, NamedForGood, UnnamedIsNotAcquired, RowInvStep
     DEF HeldInv, Terminal
<1> QED
  BY <1>1, UnnamedRowsAlways, ReplyInvAlways, HeldAlways, PTL
     DEF EndpointSpec, UnnamedStayTerminal
=============================================================================
