------------------------ MODULE EntityTablesProofs -------------------------
(***************************************************************************)
(* Lemmas about one persist transaction on the entity tables, used by the  *)
(* proofs about every module that runs such transactions.                  *)
(***************************************************************************)
EXTENDS EntityTables, TLAPS

-----------------------------------------------------------------------------
(***************************************************************************)
(* One row under one persist transaction.                                  *)
(***************************************************************************)

\* The upsert followed by the conditional update: a new entity, or an entity
\* whose last event is older, takes the answer; any other row is unchanged.
LEMMA AdvancedCases ==
    ASSUME NEW row \in EntityRows \cup {Absent}, NEW e \in ClassifiedResults
    PROVE  LET new == Advanced(Upserted(row), e)
               answer == [state |-> e.state, last_event_at |-> e.at]
           IN  /\ new \in EntityRows
               /\ new # Absent
               /\ row = Absent => new = answer
               /\ row # Absent /\ row.last_event_at < e.at => new = answer
               /\ row # Absent /\ ~(row.last_event_at < e.at) => new = row
<1>1. e.at \in Nat /\ e.at \in EventTimes /\ e.state \in States
  BY EventTimesAssumption DEF ClassifiedResults
<1>2. [state |-> e.state, last_event_at |-> e.at] \in EntityRows
  BY <1>1 DEF EntityRows
<1>3. CASE row = Absent
  <2>1. Upserted(row).last_event_at = NoTime
    BY <1>3 DEF Upserted
  <2>2. Advanced(Upserted(row), e) =
          [state |-> e.state, last_event_at |-> e.at]
    BY <2>1 DEF Advanced, IsNewer
  <2> QED
    BY <2>2, <1>2, <1>3, AbsentAssumption
<1>4. CASE row # Absent
  <2>1. /\ row \in EntityRows
        /\ row.last_event_at \in Nat
        /\ Upserted(row) = row
    BY <1>4, EventTimesAssumption DEF EntityRows, Upserted
  <2>2. IsNewer(e.at, row) <=> row.last_event_at < e.at
    BY <2>1 DEF IsNewer, NoTime
  <2>3. Advanced(Upserted(row), e) =
          IF row.last_event_at < e.at
          THEN [state |-> e.state, last_event_at |-> e.at]
          ELSE row
    BY <2>1, <2>2 DEF Advanced
  <2> QED
    BY <2>1, <2>3, <1>2, <1>4, AbsentAssumption
<1> QED
  BY <1>3, <1>4

\* The entity key of a classified answer is a key of the entity tables.
LEMMA EntityKeyType ==
    ASSUME NEW r \in Raws, NEW e \in ClassifiedResults
    PROVE  EntityKey(r, e) \in EntityKeys /\ EntityKey(r, e).kind = e.kind
BY VendorHintAssumption DEF EntityKey, EntityKeys, ClassifiedResults

\* A classifier answer is classified or it is the unclassified one.
LEMMA ResultCases ==
    ASSUME NEW e \in Results
    PROVE  IF e.kind = "unclassified" THEN e = Unclassified
                                      ELSE e \in ClassifiedResults
BY DEF Results, ClassifiedResults, Unclassified, Kinds

-----------------------------------------------------------------------------
(***************************************************************************)
(* The tables under one persist transaction.                               *)
(***************************************************************************)

\* A persist transaction keeps both tables well typed.
LEMMA PersistTablesType ==
    ASSUME TablesTypeOK, NEW r \in Raws, NEW e \in Results,
           PersistTables(r, e)
    PROVE  TablesTypeOK'
<1>1. CASE e.kind = "unclassified"
  BY <1>1 DEF PersistTables, TablesTypeOK, tables
<1>2. CASE e.kind # "unclassified"
  <2> DEFINE k == EntityKey(r, e)
  <2>1. e \in ClassifiedResults
    BY <1>2, ResultCases
  <2>2. k \in EntityKeys
    BY <2>1, EntityKeyType
  <2>3. Advanced(Upserted(entities[k]), e) \in EntityRows
    <3>1. entities[k] \in EntityRows \cup {Absent}
      BY <2>2 DEF TablesTypeOK
    <3> QED
      BY <3>1, <2>1, AdvancedCases
  <2>4. EventRow(r, e) \in EventRows
    BY <2>1, <2>2 DEF EventRow, EventRows, ClassifiedResults
  <2>5. entities' = [entities EXCEPT ![k] = Advanced(Upserted(entities[k]), e)]
    BY <1>2 DEF PersistTables
  <2>6. events' \subseteq events \cup {EventRow(r, e)}
    BY <1>2 DEF PersistTables, EventsWith
  <2> HIDE DEF k
  <2> QED
    BY <2>2, <2>3, <2>4, <2>5, <2>6 DEF TablesTypeOK
<1> QED
  BY <1>1, <1>2

\* A persist transaction changes at most the one entity row it names, and in
\* that row it moves last_event_at strictly forward.
LEMMA PersistTablesAdvance ==
    ASSUME TablesTypeOK, NEW r \in Raws, NEW e \in Results,
           PersistTables(r, e)
    PROVE  EntitiesAdvance
<1>1. CASE e.kind = "unclassified"
  BY <1>1 DEF PersistTables, EntitiesAdvance, tables
<1>2. CASE e.kind # "unclassified"
  <2> DEFINE k == EntityKey(r, e)
  <2>1. e \in ClassifiedResults
    BY <1>2, ResultCases
  <2>2. k \in EntityKeys
    BY <2>1, EntityKeyType
  <2>3. entities[k] \in EntityRows \cup {Absent}
    BY <2>2 DEF TablesTypeOK
  <2>4. entities' = [entities EXCEPT ![k] = Advanced(Upserted(entities[k]), e)]
    BY <1>2 DEF PersistTables
  <2>5. entities'[k] = Advanced(Upserted(entities[k]), e)
    BY <2>2, <2>4 DEF TablesTypeOK
  <2>6. \A j \in EntityKeys : j # k => entities'[j] = entities[j]
    BY <2>4 DEF TablesTypeOK
  <2>7. entities[k] # Absent /\ entities'[k] # entities[k] =>
          /\ entities'[k] # Absent
          /\ entities[k].last_event_at < entities'[k].last_event_at
    BY <2>1, <2>3, <2>5, AdvancedCases
  <2> HIDE DEF k
  <2> QED
    BY <2>6, <2>7 DEF EntitiesAdvance
<1> QED
  BY <1>1, <1>2

-----------------------------------------------------------------------------
(***************************************************************************)
(* The log and its mirror.  EntityMirrorsLog alone is not inductive: a new *)
(* entity row takes the answer it is created with, which mirrors the log   *)
(* only if the log had no event of that entity before.                     *)
(***************************************************************************)

LoggedEntitiesExist == \A x \in events : entities[x.entity] # Absent

\* Persisting an answer whose event is already in the log in this very form,
\* or not in the log at all, keeps the entity a mirror of its log and only
\* ever adds that one event.
LEMMA PersistTablesMirror ==
    ASSUME TablesTypeOK, EntityMirrorsLog, LoggedEntitiesExist,
           NEW r \in Raws, NEW e \in ClassifiedResults,
           PersistTables(r, e),
           \A x \in events :
              x.raw = r /\ x.entity.kind = e.kind => x = EventRow(r, e)
    PROVE  /\ EntityMirrorsLog'
           /\ LoggedEntitiesExist'
           /\ events' = events \cup {EventRow(r, e)}
<1> DEFINE k == EntityKey(r, e)
           new == Advanced(Upserted(entities[k]), e)
           answer == [state |-> e.state, last_event_at |-> e.at]
<1>1. /\ e.kind # "unclassified"
      /\ e.at \in Nat
  BY EventTimesAssumption DEF ClassifiedResults, Kinds
<1>2. /\ k \in EntityKeys
      /\ entities[k] \in EntityRows \cup {Absent}
  BY EntityKeyType DEF TablesTypeOK
<1>3. /\ new # Absent
      /\ entities[k] = Absent => new = answer
      /\ entities[k] # Absent /\ entities[k].last_event_at < e.at => new = answer
      /\ entities[k] # Absent /\ ~(entities[k].last_event_at < e.at) =>
            new = entities[k]
  BY <1>2, AdvancedCases
<1>4. /\ entities' = [entities EXCEPT ![k] = new]
      /\ events' = EventsWith(r, e)
  BY <1>1 DEF PersistTables
<1>5. events' = events \cup {EventRow(r, e)}
  BY <1>4 DEF EventsWith, RawEventIdTaken
<1>6. /\ entities'[k] = new
      /\ \A j \in EntityKeys : j # k => entities'[j] = entities[j]
  BY <1>2, <1>4 DEF TablesTypeOK
<1>7. /\ EventRow(r, e).entity = k
      /\ EventRow(r, e).state = e.state
      /\ EventRow(r, e).at = e.at
  BY DEF EventRow
<1>8. \A x \in events : x.at \in Nat /\ x.entity \in EntityKeys
  BY EventTimesAssumption DEF TablesTypeOK, EventRows
<1>9. entities[k] # Absent => entities[k].last_event_at \in Nat
  BY <1>2, EventTimesAssumption DEF EntityRows
<1> HIDE DEF k, new
<1>10. LoggedEntitiesExist'
  BY <1>3, <1>5, <1>6, <1>7, <1>8 DEF LoggedEntitiesExist
<1>11. ASSUME NEW j \in EntityKeys, entities'[j] # Absent
       PROVE  /\ \E x \in events' : /\ x.entity = j
                                    /\ x.state = entities'[j].state
                                    /\ x.at = entities'[j].last_event_at
              /\ \A x \in events' :
                    x.entity = j => x.at <= entities'[j].last_event_at
  <2>1. CASE j # k
    <3>1. entities'[j] = entities[j]
      BY <2>1, <1>6
    <3>2. \A x \in events' : x.entity = j => x \in events
      BY <2>1, <1>5, <1>7
    <3> QED
      BY <1>11, <3>1, <3>2, <1>5 DEF EntityMirrorsLog, EventsOf
  <2>2. CASE j = k /\ new = answer
    <3>1. \A x \in events : x.entity = k => x.at <= e.at
      <4> SUFFICES ASSUME NEW x \in events, x.entity = k
                   PROVE  x.at <= e.at
        OBVIOUS
      <4>1. entities[k] # Absent /\ x.at <= entities[k].last_event_at
        BY <1>2 DEF LoggedEntitiesExist, EntityMirrorsLog, EventsOf
      <4>2. CASE entities[k].last_event_at < e.at
        BY <4>1, <4>2, <1>1, <1>8, <1>9
      <4>3. CASE ~(entities[k].last_event_at < e.at)
        <5>1. entities[k] = answer
          BY <2>2, <4>1, <4>3, <1>3
        <5> QED
          BY <4>1, <5>1
      <4> QED
        BY <4>2, <4>3
    <3>2. \A x \in events' : x.entity = k => x.at <= e.at
      BY <3>1, <1>1, <1>5, <1>7
    <3>3. EventRow(r, e) \in events'
      BY <1>5
    <3> QED
      BY <2>2, <3>2, <3>3, <1>6, <1>7
  <2>3. CASE j = k /\ new # answer
    <3>1. /\ entities[k] # Absent
          /\ new = entities[k]
          /\ e.at <= entities[k].last_event_at
      BY <2>3, <1>1, <1>3, <1>9
    <3>2. /\ \E x \in events : /\ x.entity = k
                               /\ x.state = entities[k].state
                               /\ x.at = entities[k].last_event_at
          /\ \A x \in events :
                x.entity = k => x.at <= entities[k].last_event_at
      BY <3>1, <1>2 DEF EntityMirrorsLog, EventsOf
    <3> QED
      BY <2>3, <3>1, <3>2, <1>5, <1>6, <1>7
  <2> QED
    BY <2>1, <2>2, <2>3
<1>12. EntityMirrorsLog'
  BY <1>11 DEF EntityMirrorsLog, EventsOf
<1> QED
  BY <1>5, <1>10, <1>12
=============================================================================
