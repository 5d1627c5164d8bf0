------------------------- MODULE EntityReaderProofs -------------------------
(***************************************************************************)
(* Proofs about Normalization, the tables as persists leave them, and      *)
(* about EntityReader, which reads them: for every set of raw events,      *)
(* vendors, references, states, times, answers and clients.                *)
(***************************************************************************)
EXTENDS EntityReader, EntityTablesProofs

-----------------------------------------------------------------------------
(***************************************************************************)
(* Type correctness.                                                       *)
(***************************************************************************)

LEMMA TypeOKInit == Init => TypeOK
BY DEF Init, TypeOK, TablesInit, TablesTypeOK

LEMMA TypeOKStep == TypeOK /\ [Next]_vars => TypeOK'
<1> SUFFICES ASSUME TypeOK, [Next]_vars
             PROVE  TypeOK'
  OBVIOUS
<1>1. ASSUME NEW r \in Raws, Persist(r)
      PROVE  TypeOK'
  <2>1. TablesTypeOK'
    BY <1>1, PersistTablesType DEF Persist, TypeOK
  <2> QED
    BY <1>1, <2>1 DEF Persist, TypeOK
<1>2. CASE UNCHANGED vars
  BY <1>2 DEF vars, TypeOK, TablesTypeOK
<1> QED
  BY <1>1, <1>2 DEF Next

\* Every reachable state of the tables is well typed: in particular no entity
\* row is ever left with a NULL state or a NULL last_event_at.
THEOREM TypeCorrect == Spec => []TypeOK
BY TypeOKInit, TypeOKStep, PTL DEF Spec

-----------------------------------------------------------------------------
(***************************************************************************)
(* The log and the entities.                                               *)
(***************************************************************************)

Inv == TypeOK /\ LogMatchesProcessed /\ ConvergesToLatest

LEMMA InvInit == Init => Inv
<1> SUFFICES ASSUME Init
             PROVE  Inv
  OBVIOUS
<1>1. TypeOK
  BY TypeOKInit
<1>2. LogMatchesProcessed
  BY DEF Init, TablesInit, LogMatchesProcessed
<1>3. ConvergesToLatest
  BY DEF Init, TablesInit, ConvergesToLatest, Contributors
<1> QED
  BY <1>1, <1>2, <1>3 DEF Inv

\* The event insert adds the row of r, or finds that very row already there.
LEMMA LogStep ==
    ASSUME Inv, NEW r \in Raws, Persist(r)
    PROVE  LogMatchesProcessed'
<1> DEFINE Log(P) == {EventRow(p, verdict[p]) : p \in {q \in P : Classified(q)}}
<1>1. events = Log(processed) /\ verdict' = verdict
      /\ processed' = processed \cup {r} /\ verdict[r] \in Results
  BY DEF Inv, TypeOK, LogMatchesProcessed, Persist
<1>2. LogMatchesProcessed' <=> events' = Log(processed')
  BY <1>1 DEF LogMatchesProcessed, Classified, EventRow, EntityKey
<1>3. CASE ~Classified(r)
  <2>1. events' = events
    BY <1>3 DEF Persist, PersistTables, Classified, tables
  <2>2. Log(processed') = Log(processed)
    BY <1>1, <1>3
  <2> QED
    BY <1>1, <1>2, <2>1, <2>2
<1>4. CASE Classified(r)
  <2>1. events' = EventsWith(r, verdict[r])
    BY <1>4 DEF Persist, PersistTables, Classified
  <2>2. Log(processed') = Log(processed) \cup {EventRow(r, verdict[r])}
    BY <1>1, <1>4
  <2>3. RawEventIdTaken(r, verdict[r]) => EventRow(r, verdict[r]) \in events
    <3> SUFFICES ASSUME NEW x \in events, x.raw = r
                 PROVE  EventRow(r, verdict[r]) \in events
      BY DEF RawEventIdTaken
    <3>1. PICK p \in processed : Classified(p) /\ x = EventRow(p, verdict[p])
      BY <1>1
    <3>2. p = r
      BY <3>1 DEF EventRow
    <3> QED
      BY <3>1, <3>2
  <2>4. events' = events \cup {EventRow(r, verdict[r])}
    BY <2>1, <2>3 DEF EventsWith
  <2> QED
    BY <1>1, <1>2, <2>2, <2>4
<1> QED
  BY <1>3, <1>4

\* What the entity of a processed raw event already shows is not older than
\* that raw event's answer.
LEMMA ProcessedNotNewer ==
    ASSUME Inv, NEW r \in processed, Classified(r)
    PROVE  LET k == EntityKey(r, verdict[r])
           IN  /\ entities[k] # Absent
               /\ ~(entities[k].last_event_at < verdict[r].at)
<1> DEFINE k == EntityKey(r, verdict[r])
<1>1. r \in Raws /\ verdict[r] \in ClassifiedResults
  BY ResultCases DEF Inv, TypeOK, Classified
<1>2. k \in EntityKeys /\ r \in Contributors(k)
  BY <1>1, EntityKeyType DEF Contributors
<1>3. PICK s \in Contributors(k) :
        /\ entities[k] = [state |-> verdict[s].state,
                           last_event_at |-> verdict[s].at]
        /\ \A t \in Contributors(k) : verdict[t].at <= verdict[s].at
  BY <1>2 DEF Inv, ConvergesToLatest
<1>4. s \in Raws /\ verdict[s] \in ClassifiedResults
  BY ResultCases DEF Contributors, Inv, TypeOK, Classified
<1>5. verdict[r].at \in Nat /\ verdict[s].at \in Nat
      /\ verdict[s].at \in EventTimes /\ verdict[s].state \in States
  BY <1>1, <1>4, EventTimesAssumption DEF ClassifiedResults
<1>6. entities[k] \in EntityRows
  BY <1>3, <1>5 DEF EntityRows
<1> HIDE DEF k
<1>7. entities[k] # Absent /\ ~(entities[k].last_event_at < verdict[r].at)
  BY <1>2, <1>3, <1>5, <1>6, AbsentAssumption
<1> QED
  BY <1>7 DEF k

\* A persist moves the one entity it names to the answer of r, or leaves it at
\* an answer that r does not exceed.
LEMMA ConvergesStep ==
    ASSUME Inv, NEW r \in Raws, Persist(r)
    PROVE  ConvergesToLatest'
<1>1. /\ TablesTypeOK
      /\ verdict' = verdict
      /\ processed' = processed \cup {r}
      /\ processed \subseteq Raws
      /\ verdict \in [Raws -> Results]
  BY DEF Inv, TypeOK, Persist
<1>2. CASE ~Classified(r)
  <2>1. entities' = entities
    BY <1>2 DEF Persist, PersistTables, Classified, tables
  <2>2. \A k \in EntityKeys : Contributors(k)' = Contributors(k)
    BY <1>1, <1>2 DEF Contributors, Classified, EntityKey
  <2> QED
    BY <1>1, <2>1, <2>2 DEF ConvergesToLatest, Inv
<1>3. CASE Classified(r)
  <2> PICK j \in EntityKeys : j = EntityKey(r, verdict[r])
    BY <1>1, <1>3, ResultCases, EntityKeyType DEF Classified
  <2> DEFINE Answer(s) == [state |-> verdict[s].state,
                           last_event_at |-> verdict[s].at]
             Latest(k, C) == \E s \in C :
                               /\ entities'[k] = Answer(s)
                               /\ \A t \in C : verdict[t].at <= verdict[s].at
  <2>1. verdict[r] \in ClassifiedResults /\ j \in EntityKeys
    BY <1>1, <1>3, ResultCases, EntityKeyType DEF Classified
  <2>2. entities' = [entities EXCEPT ![j] =
                       Advanced(Upserted(entities[j]), verdict[r])]
    BY <1>3 DEF Persist, PersistTables, Classified
  <2>3. entities'[j] = Advanced(Upserted(entities[j]), verdict[r])
        /\ entities[j] \in EntityRows \cup {Absent}
    BY <2>1, <2>2, <1>1 DEF TablesTypeOK
  <2>4. \A k \in EntityKeys : k # j => entities'[k] = entities[k]
    BY <2>2, <1>1 DEF TablesTypeOK
  <2>5. \A k \in EntityKeys : k # j => Contributors(k)' = Contributors(k)
    BY <1>1 DEF Contributors, Classified, EntityKey
  <2>6. Contributors(j)' = Contributors(j) \cup {r}
    BY <1>1, <1>3 DEF Contributors, Classified, EntityKey
  <2>7. \A s \in Contributors(j) : verdict[s].at \in Nat
    <3>1. \A s \in Contributors(j) : verdict[s] \in ClassifiedResults
      BY <1>1, ResultCases DEF Contributors, Classified
    <3> QED
      BY <3>1, EventTimesAssumption DEF ClassifiedResults
  <2>8. verdict[r].at \in Nat
    BY <2>1, EventTimesAssumption DEF ClassifiedResults
  <2>9. Latest(j, Contributors(j) \cup {r})
    <3>1. CASE entities[j] = Absent
      <4>1. Contributors(j) = {}
        <5> SUFFICES ASSUME NEW s \in Contributors(j)
                     PROVE  FALSE
          OBVIOUS
        <5>1. s \in processed /\ Classified(s) /\ EntityKey(s, verdict[s]) = j
          BY DEF Contributors
        <5> QED
          BY <5>1, <3>1, ProcessedNotNewer
      <4>2. entities'[j] = Answer(r)
        BY <3>1, <2>1, <2>3, AdvancedCases
      <4> QED
        BY <4>1, <4>2, <2>8
    <3>2. CASE entities[j] # Absent
      <4>1. PICK s \in Contributors(j) :
              /\ entities[j] = Answer(s)
              /\ \A t \in Contributors(j) : verdict[t].at <= verdict[s].at
        BY <3>2, <2>1 DEF Inv, ConvergesToLatest
      <4>2. entities[j].last_event_at = verdict[s].at /\ verdict[s].at \in Nat
        BY <4>1, <2>7
      <4>3. CASE verdict[s].at < verdict[r].at
        <5>1. entities'[j] = Answer(r)
          BY <4>2, <4>3, <3>2, <2>1, <2>3, AdvancedCases
        <5>2. \A t \in Contributors(j) \cup {r} : verdict[t].at <= verdict[r].at
          BY <4>1, <4>2, <4>3, <2>7, <2>8
        <5> QED
          BY <5>1, <5>2
      <4>4. CASE ~(verdict[s].at < verdict[r].at)
        <5>1. entities'[j] = Answer(s)
          BY <4>1, <4>2, <4>4, <3>2, <2>1, <2>3, AdvancedCases
        <5>2. \A t \in Contributors(j) \cup {r} : verdict[t].at <= verdict[s].at
          BY <4>1, <4>2, <4>4, <2>7, <2>8
        <5> QED
          BY <5>1, <5>2
      <4> QED
        BY <4>3, <4>4
    <3> QED
      BY <3>1, <3>2
  <2>10. Latest(j, Contributors(j)')
    BY <2>6, <2>9
  <2>11. \A k \in EntityKeys : k # j =>
           \/ entities'[k] = Absent /\ Contributors(k)' = {}
           \/ Latest(k, Contributors(k)')
    BY <2>4, <2>5 DEF Inv, ConvergesToLatest
  <2>12. \A k \in EntityKeys :
           \/ entities'[k] = Absent /\ Contributors(k)' = {}
           \/ Latest(k, Contributors(k)')
    BY <2>10, <2>11
  <2> QED
    BY <1>1, <2>12 DEF ConvergesToLatest
<1> QED
  BY <1>2, <1>3

LEMMA InvStep == Inv /\ [Next]_vars => Inv'
<1> SUFFICES ASSUME Inv, [Next]_vars
             PROVE  Inv'
  OBVIOUS
<1>1. TypeOK'
  BY TypeOKStep DEF Inv
<1>2. ASSUME NEW r \in Raws, Persist(r)
      PROVE  LogMatchesProcessed' /\ ConvergesToLatest'
  BY <1>2, LogStep, ConvergesStep
<1>3. CASE UNCHANGED vars
  <2>1. entities' = entities /\ events' = events
        /\ verdict' = verdict /\ processed' = processed
    BY <1>3 DEF vars
  <2>2. LogMatchesProcessed'
    BY <2>1 DEF Inv, LogMatchesProcessed, Classified, EventRow, EntityKey
  <2>3. \A k \in EntityKeys : Contributors(k)' = Contributors(k)
    BY <2>1 DEF Contributors, Classified, EntityKey
  <2>4. ConvergesToLatest'
    BY <2>1, <2>3 DEF Inv, ConvergesToLatest
  <2> QED
    BY <1>1, <2>2, <2>4 DEF Inv
<1> QED
  BY <1>1, <1>2, <1>3 DEF Inv, Next

LEMMA InvAlways == Spec => []Inv
BY InvInit, InvStep, PTL DEF Spec

\* The event tables are exactly the classified answers of the raw events that
\* were processed, one row each, however often each was persisted.
THEOREM LogCorrect == Spec => []LogMatchesProcessed
<1>1. Inv => LogMatchesProcessed
  BY DEF Inv
<1> QED
  BY <1>1, InvAlways, PTL

\* Every delivery order of every set of raw events leaves each entity at the
\* answer of a contributor that no other contributor is newer than.
THEOREM Convergence == Spec => []ConvergesToLatest
<1>1. Inv => ConvergesToLatest
  BY DEF Inv
<1> QED
  BY <1>1, InvAlways, PTL

\* No persist rolls an entity back.
THEOREM NoRollback == Spec => NeverRollsBack
<1>1. TypeOK /\ [Next]_vars => [EntitiesAdvance]_tables
  <2> SUFFICES ASSUME TypeOK, [Next]_vars
               PROVE  [EntitiesAdvance]_tables
    OBVIOUS
  <2>1. ASSUME NEW r \in Raws, Persist(r)
        PROVE  EntitiesAdvance
    BY <2>1, PersistTablesAdvance DEF Persist, TypeOK
  <2>2. CASE UNCHANGED vars
    BY <2>2 DEF vars, tables
  <2> QED
    BY <2>1, <2>2 DEF Next
<1> QED
  BY <1>1, TypeCorrect, PTL DEF Spec, NeverRollsBack

\* Persisting an already processed raw event again changes no table, given the
\* same answer of the classifier.
THEOREM Idempotence == Spec => RerunIsNoOp
<1> DEFINE NoOp == \A r \in processed : Persist(r) => UNCHANGED tables
<1>1. Inv => NoOp
  <2> SUFFICES ASSUME Inv, NEW r \in processed, Persist(r)
               PROVE  UNCHANGED tables
    OBVIOUS
  <2>1. CASE ~Classified(r)
    BY <2>1 DEF Persist, PersistTables, Classified
  <2>2. CASE Classified(r)
    <3> DEFINE k == EntityKey(r, verdict[r])
    <3>1. /\ r \in Raws
          /\ verdict[r] \in ClassifiedResults
          /\ k \in EntityKeys
      BY <2>2, ResultCases, EntityKeyType DEF Inv, TypeOK, Classified
    <3>2. /\ entities[k] \in EntityRows
          /\ entities \in [EntityKeys -> EntityRows \cup {Absent}]
      BY <2>2, <3>1, ProcessedNotNewer DEF Inv, TypeOK, TablesTypeOK
    <3>3. Advanced(Upserted(entities[k]), verdict[r]) = entities[k]
      BY <2>2, <3>1, <3>2, ProcessedNotNewer, AdvancedCases
    <3>4. entities' = [entities EXCEPT
                          ![k] = Advanced(Upserted(entities[k]), verdict[r])]
      BY <2>2 DEF Persist, PersistTables, Classified
    <3>5. entities' = entities
      <4> HIDE DEF k
      <4> QED
        BY <3>1, <3>2, <3>3, <3>4
    <3>6. RawEventIdTaken(r, verdict[r])
      <4>1. EventRow(r, verdict[r]) \in events
        BY <2>2 DEF Inv, LogMatchesProcessed
      <4> QED
        BY <4>1 DEF RawEventIdTaken, EventRow, EntityKey
    <3>7. events' = events
      BY <2>2, <3>6 DEF Persist, PersistTables, Classified, EventsWith
    <3> QED
      BY <3>5, <3>7 DEF tables
  <2> QED
    BY <2>1, <2>2
<1>2. Inv /\ [Next]_vars => [NoOp]_vars
  BY <1>1
<1> QED
  BY <1>2, InvAlways, PTL DEF Spec, RerunIsNoOp

-----------------------------------------------------------------------------
(***************************************************************************)
(* The readers.  The argument has two halves.  The tables: the log only    *)
(* grows, and every entity row mirrors it (TablesInv).  A request: what it *)
(* has read so far relates to the tables of now, and keeps doing so while  *)
(* persists go on, because the log grows and the entity advances           *)
(* (ReadInv).                                                              *)
(***************************************************************************)

\* Every event in the log is the answer for its raw event.
LogFromVerdict ==
    \A x \in events : /\ verdict[x.raw] \in ClassifiedResults
                      /\ x = EventRow(x.raw, verdict[x.raw])

TablesInv == EntityMirrorsLog /\ LoggedEntitiesExist /\ LogFromVerdict

\* The row that client c has read is one the entity has had.
GotFromTables(c) ==
    got[c] # Absent =>
        /\ entities[Wanted[c]] # Absent
        /\ \/ got[c] = entities[Wanted[c]]
           \/ got[c].last_event_at < entities[Wanted[c]].last_event_at

\* Between the two reads, the log can already serve what the row needs.
ListWillServe(c) ==
    pc[c] = "list" =>
        /\ got[c] # Absent
        /\ \E x \in EventsOf(Wanted[c]) : /\ x.state = got[c].state
                                          /\ x.at = got[c].last_event_at
        /\ \A x \in before[c] : x.at <= got[c].last_event_at

ReadInv ==
    \A c \in Clients :
        /\ before[c] \subseteq EventsOf(Wanted[c])
        /\ GotFromTables(c)
        /\ ListWillServe(c)

ReaderInv ==
    /\ ReaderTypeOK
    /\ TablesInv
    /\ ReadInv
    /\ HistoryBacksState
    /\ ResponseIsFresh

-----------------------------------------------------------------------------
LEMMA ReaderInvInit == ReaderInit => ReaderInv
<1> SUFFICES ASSUME ReaderInit
             PROVE  ReaderInv
  OBVIOUS
<1>1. ReaderTypeOK
  BY DEF ReaderInit, Init, ReaderTypeOK, TypeOK, TablesInit, TablesTypeOK, PCs
<1>2. TablesInv
  BY DEF ReaderInit, Init, TablesInit, TablesInv, EntityMirrorsLog,
         LoggedEntitiesExist,
         LogFromVerdict
<1>3. ReadInv /\ HistoryBacksState /\ ResponseIsFresh
  BY DEF ReaderInit, Init, ReadInv, GotFromTables, ListWillServe, HistoryBacksState,
         ResponseIsFresh
<1> QED
  BY <1>1, <1>2, <1>3 DEF ReaderInv

(***************************************************************************)
(* A persist: the log grows, the entities advance, no request notices.     *)
(***************************************************************************)
LEMMA PersistTablesInv ==
    ASSUME ReaderTypeOK, TablesInv, NEW r \in Raws, PersistEvent(r)
    PROVE  TablesInv' /\ events \subseteq events'
<1> DEFINE e == verdict[r]
<1>1. e \in Results /\ PersistTables(r, e) /\ verdict' = verdict
  BY DEF PersistEvent, Persist, readers, ReaderTypeOK, TypeOK
<1>2. CASE e.kind = "unclassified"
  BY <1>1, <1>2
     DEF PersistTables, tables, TablesInv, EntityMirrorsLog, EventsOf,
         LoggedEntitiesExist, LogFromVerdict
<1>3. CASE e.kind # "unclassified"
  <2>1. e \in ClassifiedResults
    BY <1>1, <1>3, ResultCases
  <2>2. \A x \in events : x.raw = r => x = EventRow(r, e)
    BY DEF TablesInv, LogFromVerdict
  <2>3. /\ EntityMirrorsLog'
        /\ LoggedEntitiesExist'
        /\ events' = events \cup {EventRow(r, e)}
    BY <1>1, <2>1, <2>2, PersistTablesMirror DEF ReaderTypeOK, TypeOK, TablesInv
  <2>4. EventRow(r, e).raw = r
    BY DEF EventRow
  <2>5. LogFromVerdict'
    BY <1>1, <2>1, <2>3, <2>4 DEF TablesInv, LogFromVerdict, EventRow, EntityKey
  <2> QED
    BY <2>3, <2>5 DEF TablesInv
<1> QED
  BY <1>2, <1>3

LEMMA PersistInv ==
    ASSUME ReaderInv, NEW r \in Raws, PersistEvent(r)
    PROVE  ReaderInv'
<1>1. TablesInv' /\ events \subseteq events'
  BY PersistTablesInv DEF ReaderInv
<1>2. /\ verdict[r] \in Results /\ PersistTables(r, verdict[r])
      /\ UNCHANGED <<verdict, pc, got, listed, before>>
  BY DEF PersistEvent, Persist, readers, ReaderInv, ReaderTypeOK, TypeOK
<1>3. ReaderTypeOK'
  BY <1>2, PersistTablesType
     DEF PersistEvent, Persist, ReaderInv, ReaderTypeOK, TypeOK
<1>4. EntitiesAdvance
  BY <1>2, PersistTablesAdvance DEF ReaderInv, ReaderTypeOK, TypeOK
<1>5. ReadInv'
  <2> SUFFICES ASSUME NEW c \in Clients
               PROVE  /\ before'[c] \subseteq EventsOf(Wanted[c])'
                      /\ GotFromTables(c)'
                      /\ ListWillServe(c)'
    BY DEF ReadInv
  <2>1. EventsOf(Wanted[c]) \subseteq EventsOf(Wanted[c])'
    BY <1>1 DEF EventsOf
  <2>2. before'[c] \subseteq EventsOf(Wanted[c])'
    BY <1>2, <2>1 DEF ReaderInv, ReadInv
  <2>3. ListWillServe(c)'
    BY <1>2, <2>1 DEF ReaderInv, ReadInv, ListWillServe
  <2>4. GotFromTables(c)'
    <3> DEFINE k == Wanted[c]
    <3>1. k \in EntityKeys
      BY WantedAssumption
    <3>2. CASE entities'[k] = entities[k]
      BY <3>2, <1>2 DEF ReaderInv, ReadInv, GotFromTables
    <3>3. CASE entities'[k] # entities[k] /\ got[c] # Absent
      <4>1. entities[k] # Absent
        BY <3>3 DEF ReaderInv, ReadInv, GotFromTables
      <4>2. /\ entities'[k] # Absent
            /\ entities[k].last_event_at < entities'[k].last_event_at
        BY <3>1, <3>3, <4>1, <1>4 DEF EntitiesAdvance
      <4>3. /\ got[c].last_event_at \in Nat
            /\ entities[k].last_event_at \in Nat
            /\ entities'[k].last_event_at \in Nat
        BY <3>1, <3>3, <4>1, <4>2, <1>3, EventTimesAssumption
           DEF ReaderInv, ReaderTypeOK, TypeOK, TablesTypeOK, EntityRows
      <4>4. got[c].last_event_at <= entities[k].last_event_at
        BY <3>3, <4>3 DEF ReaderInv, ReadInv, GotFromTables
      <4> QED
        BY <4>2, <4>3, <4>4, <1>2 DEF GotFromTables
    <3>4. CASE got[c] = Absent
      BY <3>4, <1>2 DEF GotFromTables
    <3> QED
      BY <3>2, <3>3, <3>4
  <2> QED
    BY <2>2, <2>3, <2>4
<1>6. HistoryBacksState' /\ ResponseIsFresh'
  BY <1>2 DEF ReaderInv, HistoryBacksState, ResponseIsFresh
<1> QED
  BY <1>1, <1>3, <1>5, <1>6 DEF ReaderInv

(***************************************************************************)
(* The steps of a request.  Each changes the variables of one client.      *)
(***************************************************************************)
LEMMA TablesInvUnchanged ==
    ASSUME TablesInv, UNCHANGED <<entities, events, verdict>>
    PROVE  TablesInv'
BY DEF TablesInv, EntityMirrorsLog, EventsOf, LoggedEntitiesExist,
       LogFromVerdict

LEMMA RequestInv ==
    ASSUME ReaderInv, NEW c \in Clients, Request(c)
    PROVE  ReaderInv'
<1>1. TablesInv'
  BY TablesInvUnchanged DEF ReaderInv, Request, vars
<1>2. EventsOf(Wanted[c]) \subseteq EventRows
  BY DEF ReaderInv, ReaderTypeOK, TypeOK, TablesTypeOK, EventsOf
<1>3. ReaderTypeOK'
  BY <1>2 DEF ReaderInv, Request, vars, ReaderTypeOK, TypeOK, TablesTypeOK, PCs
<1>4. /\ pc'[c] = "get"
      /\ before'[c] = EventsOf(Wanted[c])
      /\ \A d \in Clients : d # c => pc'[d] = pc[d] /\ before'[d] = before[d]
      /\ UNCHANGED <<entities, events, got, listed>>
  BY DEF ReaderInv, Request, vars, ReaderTypeOK, TypeOK
<1>5. ReadInv'
  BY <1>4 DEF ReaderInv, ReadInv, GotFromTables, ListWillServe, EventsOf
<1>6. HistoryBacksState' /\ ResponseIsFresh'
  BY <1>4 DEF ReaderInv, HistoryBacksState, ResponseIsFresh
<1> QED
  BY <1>1, <1>3, <1>5, <1>6 DEF ReaderInv

LEMMA GetEntityInv ==
    ASSUME ReaderInv, NEW c \in Clients, GetEntity(c)
    PROVE  ReaderInv'
<1> DEFINE k == Wanted[c]
<1>1. TablesInv'
  BY TablesInvUnchanged DEF ReaderInv, GetEntity, vars
<1>2. k \in EntityKeys
  BY WantedAssumption
<1>3. ReaderTypeOK'
  BY <1>2
     DEF ReaderInv, GetEntity, vars, LoadedEntity, ReaderTypeOK, TypeOK,
         TablesTypeOK, PCs
<1>4. /\ got'[c] = entities[k]
      /\ listed'[c] = {}
      /\ pc'[c] = IF entities[k] = Absent THEN "idle" ELSE "list"
      /\ before' = before
      /\ \A d \in Clients : d # c =>
            pc'[d] = pc[d] /\ got'[d] = got[d] /\ listed'[d] = listed[d]
      /\ UNCHANGED <<entities, events>>
  BY DEF ReaderInv, GetEntity, vars, LoadedEntity, ReaderTypeOK, TypeOK
<1>5. before[c] \subseteq EventsOf(k)
  BY DEF ReaderInv, ReadInv
<1>6. entities[k] = Absent => before[c] = {}
  BY <1>5 DEF ReaderInv, TablesInv, LoggedEntitiesExist, EventsOf
<1>7. entities[k] # Absent =>
        /\ \E x \in EventsOf(k) : /\ x.state = entities[k].state
                                  /\ x.at = entities[k].last_event_at
        /\ \A x \in before[c] : x.at <= entities[k].last_event_at
  BY <1>2, <1>5 DEF ReaderInv, TablesInv, EntityMirrorsLog
<1>8. ASSUME NEW d \in Clients
      PROVE  /\ before'[d] \subseteq EventsOf(Wanted[d])'
             /\ GotFromTables(d)'
             /\ ListWillServe(d)'
  <2>1. CASE d = c
    BY <2>1, <1>4, <1>5, <1>7 DEF GotFromTables, ListWillServe, EventsOf
  <2>2. CASE d # c
    BY <2>2, <1>4 DEF ReaderInv, ReadInv, GotFromTables, ListWillServe, EventsOf
  <2> QED
    BY <2>1, <2>2
<1>9. HistoryBacksState' /\ ResponseIsFresh'
  BY <1>4, <1>6 DEF ReaderInv, HistoryBacksState, ResponseIsFresh
<1> QED
  BY <1>1, <1>3, <1>8, <1>9 DEF ReaderInv, ReadInv

LEMMA ListEventsInv ==
    ASSUME ReaderInv, NEW c \in Clients, ListEvents(c)
    PROVE  ReaderInv'
<1> DEFINE k == Wanted[c]
<1>1. TablesInv'
  BY TablesInvUnchanged DEF ReaderInv, ListEvents, vars
<1>2. EventsOf(k) \subseteq EventRows
  BY DEF ReaderInv, ReaderTypeOK, TypeOK, TablesTypeOK, EventsOf
<1>3. ReaderTypeOK'
  BY <1>2
     DEF ReaderInv, ListEvents, vars, ListedEvents, ReaderTypeOK, TypeOK,
         TablesTypeOK, PCs
<1>4. /\ pc[c] = "list" /\ pc'[c] = "idle"
      /\ listed'[c] = EventsOf(k)
      /\ \A d \in Clients : d # c => pc'[d] = pc[d] /\ listed'[d] = listed[d]
      /\ UNCHANGED <<entities, events, got, before>>
  BY DEF ReaderInv, ListEvents, vars, ListedEvents, ReaderTypeOK, TypeOK
<1>5. ReadInv'
  BY <1>4 DEF ReaderInv, ReadInv, GotFromTables, ListWillServe, EventsOf
<1>6. before[c] \subseteq EventsOf(k) /\ ListWillServe(c)
  BY DEF ReaderInv, ReadInv
<1>7. HistoryBacksState' /\ ResponseIsFresh'
  BY <1>4, <1>6 DEF ReaderInv, HistoryBacksState, ResponseIsFresh, ListWillServe
<1> QED
  BY <1>1, <1>3, <1>5, <1>7 DEF ReaderInv

LEMMA ReaderInvStep == ReaderInv /\ [ReaderNext]_system => ReaderInv'
<1> SUFFICES ASSUME ReaderInv, [ReaderNext]_system
             PROVE  ReaderInv'
  OBVIOUS
<1>1. CASE UNCHANGED system
  BY <1>1
     DEF system, vars, readers, ReaderInv, ReaderTypeOK, TypeOK, TablesTypeOK,
         TablesInv, EntityMirrorsLog, EventsOf, LoggedEntitiesExist,
         LogFromVerdict, ReadInv, GotFromTables, ListWillServe,
         HistoryBacksState, ResponseIsFresh
<1>2. CASE \E r \in Raws : PersistEvent(r)
  BY <1>2, PersistInv
<1>3. CASE \E c \in Clients : ReaderStep(c)
  BY <1>3, RequestInv, GetEntityInv, ListEventsInv DEF ReaderStep
<1> QED
  BY <1>1, <1>2, <1>3 DEF ReaderNext

LEMMA ReaderInvAlways == ReaderSpec => []ReaderInv
BY ReaderInvInit, ReaderInvStep, PTL DEF ReaderSpec

\* The reads and the tables under them are well typed, for any clients.
THEOREM ReaderTypeCorrect == ReaderSpec => []ReaderTypeOK
<1>1. ReaderInv => ReaderTypeOK
  BY DEF ReaderInv
<1> QED
  BY <1>1, ReaderInvAlways, PTL

-----------------------------------------------------------------------------
\* A response's current state is always backed by its own list of events,
\* whatever number of persists came between the two reads.
THEOREM StateIsBacked == ReaderSpec => []HistoryBacksState
<1>1. ReaderInv => HistoryBacksState
  BY DEF ReaderInv
<1> QED
  BY <1>1, ReaderInvAlways, PTL

\* A response holds everything that was persisted before its request.
THEOREM ReadsAreFresh == ReaderSpec => []ResponseIsFresh
<1>1. ReaderInv => ResponseIsFresh
  BY DEF ReaderInv
<1> QED
  BY <1>1, ReaderInvAlways, PTL

\* Successive reads of one entity by one client never go back.
THEOREM ReadsAreMonotonic == ReaderSpec => RepeatedReadsAdvance
<1> DEFINE Advances ==
        \A c \in Clients :
            got[c] # Absent /\ got'[c] # got[c] =>
                /\ got'[c] # Absent
                /\ got[c].last_event_at < got'[c].last_event_at
<1>1. ASSUME ReaderInv, ReaderNext
      PROVE  Advances
  <2>1. CASE \E r \in Raws : PersistEvent(r)
    BY <2>1 DEF PersistEvent, readers
  <2>2. ASSUME NEW c \in Clients, Request(c) \/ ListEvents(c)
        PROVE  Advances
    BY <2>2 DEF Request, ListEvents, vars
  <2>3. ASSUME NEW c \in Clients, GetEntity(c)
        PROVE  Advances
    <3>1. /\ got'[c] = entities[Wanted[c]]
          /\ \A d \in Clients : d # c => got'[d] = got[d]
      BY <2>3, <1>1
         DEF ReaderInv, GetEntity, vars, LoadedEntity, ReaderTypeOK, TypeOK
    <3> QED
      BY <3>1, <1>1 DEF ReaderInv, ReadInv, GotFromTables
  <2> QED
    BY <2>1, <2>2, <2>3, <1>1 DEF ReaderNext, ReaderStep
<1>2. ReaderInv /\ [ReaderNext]_system => [Advances]_system
  BY <1>1
<1> QED
  BY <1>2, ReaderInvAlways, PTL DEF ReaderSpec, RepeatedReadsAdvance
=============================================================================
