-------------------------- MODULE PersistTxProofs --------------------------
(***************************************************************************)
(* Proof that the statements of `persist_normalized` implement the atomic  *)
(* persist, and that no deadlock is broken at their cost, for any number   *)
(* of calls, raw events, answers, reapers and acquirers.                   *)
(***************************************************************************)
EXTENDS PersistTx, EntityTablesProofs, WellFoundedInduction

Key(c) == EntityKey(RawOf[c], answer[c])

\* The call's transaction has written its entity row.
Entered(c) ==
    Classified(c) /\ pc[c] \in {"event", "foreignKey", "update", "mark", "commit"}

\* It holds the locks of what it has written, so nobody else has written it.
WritesAreLocked ==
    \A c \in Calls :
        /\ Entered(c) => EntityLock(c) \in held[c]
        /\ Open(c) /\ added[c] # {} => EventLock(c) \in held[c]

OneWriterPerEntity ==
    \A c, d \in Calls : Entered(c) /\ Entered(d) /\ Key(c) = Key(d) => c = d

OneInsertPerRawEvent ==
    \A c, d \in Calls :
        /\ Open(c) /\ added[c] # {}
        /\ Open(d) /\ added[d] # {}
        /\ RawOf[c] = RawOf[d] /\ answer[c].kind = answer[d].kind
        => c = d

\* So what it read is still what is committed.
RowIsCurrent ==
    \A c \in Calls :
        Entered(c) =>
            mine[c] = IF pc[c] \in {"mark", "commit"}
                      THEN Advanced(Upserted(entities[Key(c)]), answer[c])
                      ELSE Upserted(entities[Key(c)])

InsertIsCurrent ==
    \A c \in Calls :
        IF Classified(c)
        THEN /\ pc[c] \in {"upsert", "event"} => added[c] = {}
             /\ pc[c] \in {"foreignKey", "update", "mark", "commit"} =>
                   added[c] = IF RawEventIdTaken(RawOf[c], answer[c])
                              THEN {} ELSE {EventRow(RawOf[c], answer[c])}
        ELSE added[c] = {} /\ pc[c] \in {"mark", "commit", "committed", "aborted"}

Inv ==
    /\ TypeOK
    /\ WritesAreLocked
    /\ OneWriterPerEntity
    /\ OneInsertPerRawEvent
    /\ RowIsCurrent
    /\ InsertIsCurrent

-----------------------------------------------------------------------------
(***************************************************************************)
(* Types and locks.                                                        *)
(***************************************************************************)

LEMMA CallFacts ==
    ASSUME TypeOK, NEW c \in Calls
    PROVE  /\ RawOf[c] \in Raws
           /\ answer[c] \in Results
           /\ Classified(c) =>
                 /\ answer[c] \in ClassifiedResults
                 /\ answer[c].kind \in Kinds
                 /\ Key(c) \in EntityKeys
                 /\ EventRow(RawOf[c], answer[c]) \in EventRows
<1>1. RawOf[c] \in Raws /\ answer[c] \in Results
  BY CallsAssumption DEF TypeOK
<1>2. ASSUME Classified(c)
      PROVE  answer[c] \in ClassifiedResults
  BY <1>1, <1>2, ResultCases DEF Classified
<1>3. ASSUME Classified(c)
      PROVE  Key(c) \in EntityKeys /\ answer[c].kind \in Kinds
  BY <1>1, <1>2, <1>3, EntityKeyType DEF Key, ClassifiedResults
<1>4. ASSUME Classified(c)
      PROVE  EventRow(RawOf[c], answer[c]) \in EventRows
  BY <1>1, <1>2, <1>3, <1>4 DEF Key, EventRow, EventRows, ClassifiedResults
<1> QED
  BY <1>1, <1>2, <1>3, <1>4

LEMMA WantedType ==
    ASSUME TypeOK, InsertIsCurrent, NEW t \in Txs
    PROVE  Wanted(t) \subseteq Locks
<1>1. ASSUME NEW r \in Raws, NEW m \in Modes
      PROVE  RawLock(r, m) \in Locks
  BY DEF RawLock, Locks
<1>2. CASE t \in Calls
  <2>1. CASE Classified(t)
    <3>1. EntityLock(t) \in Locks
      BY <1>2, <2>1, CallFacts DEF EntityLock, Locks, Modes, Key
    <3>2. EventLock(t) \in Locks
      BY <1>2, <2>1, CallFacts DEF EventLock, Locks, Modes
    <3>3. RawLock(RawOf[t], "keyShare") \in Locks /\ RawLock(RawOf[t], MarkMode) \in Locks
      BY <1>1, <1>2, CallFacts DEF Modes, MarkMode
    <3> QED
      BY <1>2, <3>1, <3>2, <3>3 DEF Wanted, LockOf
  <2>2. CASE ~Classified(t)
    <3>1. RawLock(RawOf[t], MarkMode) \in Locks
      BY <1>1, <1>2, CallFacts DEF Modes, MarkMode
    <3>2. pc[t] \in {"mark", "commit", "committed", "aborted"}
      BY <1>2, <2>2 DEF InsertIsCurrent
    <3> QED
      BY <1>2, <3>1, <3>2 DEF Wanted, LockOf
  <2> QED
    BY <2>1, <2>2
<1>3. CASE t \notin Calls
  <2>1. target[t] \in Raws \cup {NoRow} /\ RowMode(t) \in Modes
    BY <1>3 DEF TypeOK, Txs, RowMode, Modes
  <2> QED
    BY <1>1, <1>3, <2>1 DEF Wanted
<1> QED
  BY <1>2, <1>3

\* A statement that writes what another call has written waits for it.
LEMMA LockExcludes ==
    ASSUME NEW c \in Calls, NEW d \in Calls, c # d, WaitsFor(c) = {},
           NEW l \in Wanted(c), l \in held[d], l.mode = "noKeyUpdate"
    PROVE  FALSE
<1>1. d \in Txs \ {c}
  BY DEF Txs
<1>2. Conflicting(l.mode, l.mode)
  BY DEF Conflicting
<1> QED
  BY <1>1, <1>2 DEF WaitsFor
-----------------------------------------------------------------------------
(***************************************************************************)
(* The invariant.                                                          *)
(***************************************************************************)

LEMMA InvInit == Init => Inv
<1> SUFFICES ASSUME Init
             PROVE  Inv
  OBVIOUS
<1>1. TypeOK
  BY CallsAssumption DEF Init, TypeOK, TablesInit, TablesTypeOK, PCs
<1>2. WritesAreLocked /\ OneWriterPerEntity /\ OneInsertPerRawEvent
  BY DEF Init, WritesAreLocked, OneWriterPerEntity, OneInsertPerRawEvent, Entered
<1>3. RowIsCurrent /\ InsertIsCurrent
  BY DEF Init, RowIsCurrent, InsertIsCurrent, Entered
<1> QED
  BY <1>1, <1>2, <1>3 DEF Inv

LEMMA UpsertStep ==
    ASSUME Inv, NEW c \in Calls, Upsert(c)
    PROVE  Inv'
<1> DEFINE k == Key(c)
<1>0. /\ TypeOK /\ WritesAreLocked /\ OneWriterPerEntity
      /\ OneInsertPerRawEvent /\ RowIsCurrent /\ InsertIsCurrent
  BY DEF Inv
<1>1. /\ pc[c] = "upsert" /\ WaitsFor(c) = {} /\ Classified(c) /\ added[c] = {}
      /\ pc' = [pc EXCEPT ![c] = "event"]
      /\ held' = [held EXCEPT ![c] = @ \cup {EntityLock(c)}]
      /\ mine' = [mine EXCEPT ![c] = Upserted(entities[k])]
      /\ Wanted(c) = {EntityLock(c)}
      /\ UNCHANGED <<entities, events, answer, added, target>>
  BY <1>0 DEF Upsert, TakeLock, Goto, Wanted, LockOf, InsertIsCurrent, tables, Key
<1>2. \A d \in Calls : /\ Classified(d)' = Classified(d) /\ Key(d)' = Key(d)
                       /\ EntityLock(d)' = EntityLock(d)
                       /\ EventLock(d)' = EventLock(d)
                       /\ d # c => pc'[d] = pc[d] /\ held'[d] = held[d]
                                   /\ mine'[d] = mine[d]
  BY <1>0, <1>1 DEF Classified, Key, EntityLock, EventLock, TypeOK, Txs
<1>3. pc'[c] = "event" /\ EntityLock(c) \in held'[c] /\ held[c] \subseteq held'[c]
      /\ mine'[c] = Upserted(entities[k])
  BY <1>0, <1>1 DEF TypeOK, Txs
<1>4. k \in EntityKeys /\ Upserted(entities[k]) \in OpenRows
  <2>1. k \in EntityKeys
    BY <1>0, <1>1, CallFacts
  <2>2. entities[k] \in EntityRows \cup {Absent}
    BY <1>0, <2>1 DEF TypeOK, TablesTypeOK
  <2> QED
    BY <2>1, <2>2 DEF Upserted, OpenRows, EntityRows
<1>5. TypeOK'
  <2>1. {EntityLock(c)} \subseteq Locks
    BY <1>0, <1>1, WantedType DEF Txs
  <2> QED
    BY <1>0, <1>1, <1>4, <2>1 DEF TypeOK, TablesTypeOK, PCs, Txs
<1>6. \A d \in Calls : d # c /\ Entered(d) => Key(d) # k
  <2> SUFFICES ASSUME NEW d \in Calls, d # c, Entered(d), Key(d) = k
               PROVE  FALSE
    OBVIOUS
  <2>1. EntityLock(d) \in held[d] /\ EntityLock(d) = EntityLock(c)
    BY <1>0 DEF WritesAreLocked, EntityLock, Key
  <2>2. EntityLock(c).mode = "noKeyUpdate"
    BY DEF EntityLock
  <2> QED
    BY <1>1, <2>1, <2>2, LockExcludes
<1>7. WritesAreLocked'
  BY <1>0, <1>1, <1>2, <1>3 DEF WritesAreLocked, Entered, Open
<1>8. OneWriterPerEntity'
  BY <1>0, <1>1, <1>2, <1>3, <1>6 DEF OneWriterPerEntity, Entered
<1>9. OneInsertPerRawEvent'
  BY <1>0, <1>1, <1>2, <1>3 DEF OneInsertPerRawEvent, Open
<1>10. RowIsCurrent'
  BY <1>0, <1>1, <1>2, <1>3 DEF RowIsCurrent, Entered
<1>11. InsertIsCurrent'
  BY <1>0, <1>1, <1>2, <1>3
     DEF InsertIsCurrent, Classified, RawEventIdTaken, EventRow, EntityKey
<1> QED
  BY <1>5, <1>7, <1>8, <1>9, <1>10, <1>11 DEF Inv

LEMMA InsertEventStep ==
    ASSUME Inv, NEW c \in Calls, InsertEvent(c)
    PROVE  Inv'
<1>0. /\ TypeOK /\ WritesAreLocked /\ OneWriterPerEntity
      /\ OneInsertPerRawEvent /\ RowIsCurrent /\ InsertIsCurrent
  BY DEF Inv
<1> DEFINE row == EventRow(RawOf[c], answer[c])
<1>1. /\ pc[c] = "event" /\ WaitsFor(c) = {} /\ Classified(c) /\ Entered(c)
      /\ ~RawEventIdTaken(RawOf[c], answer[c])
      /\ pc' = [pc EXCEPT ![c] = "foreignKey"]
      /\ held' = [held EXCEPT ![c] = @ \cup {EventLock(c)}]
      /\ added' = [added EXCEPT ![c] = {row}]
      /\ Wanted(c) = {EventLock(c)}
      /\ UNCHANGED <<entities, events, answer, mine, target>>
  BY <1>0 DEF InsertEvent, TakeLock, Goto, Wanted, LockOf, InsertIsCurrent,
              tables, Entered
<1>2. \A d \in Calls : /\ Classified(d)' = Classified(d) /\ Key(d)' = Key(d)
                       /\ EntityLock(d)' = EntityLock(d)
                       /\ EventLock(d)' = EventLock(d)
                       /\ held[d] \subseteq held'[d]
                       /\ d # c => pc'[d] = pc[d] /\ added'[d] = added[d]
  BY <1>0, <1>1 DEF Classified, Key, EntityLock, EventLock, TypeOK, Txs
<1>3. pc'[c] = "foreignKey" /\ EventLock(c) \in held'[c] /\ added'[c] = {row}
  BY <1>0, <1>1 DEF TypeOK, Txs
<1>4. \A d \in Calls : Entered(d)' <=> Entered(d)
  BY <1>1, <1>2, <1>3 DEF Entered
<1>5. TypeOK'
  <2>1. {EventLock(c)} \subseteq Locks
    BY <1>0, <1>1, WantedType DEF Txs
  <2>2. row \in EventRows
    BY <1>0, <1>1, CallFacts
  <2> QED
    BY <1>0, <1>1, <2>1, <2>2 DEF TypeOK, TablesTypeOK, PCs, Txs
<1>6. \A d \in Calls : d # c /\ Open(d) /\ added[d] # {} =>
          ~(RawOf[c] = RawOf[d] /\ answer[c].kind = answer[d].kind)
  <2> SUFFICES ASSUME NEW d \in Calls, d # c, Open(d), added[d] # {},
                      RawOf[c] = RawOf[d], answer[c].kind = answer[d].kind
               PROVE  FALSE
    OBVIOUS
  <2>1. EventLock(d) \in held[d] /\ EventLock(d) = EventLock(c)
    BY <1>0 DEF WritesAreLocked, EventLock
  <2>2. EventLock(c).mode = "noKeyUpdate"
    BY DEF EventLock
  <2> QED
    BY <1>1, <2>1, <2>2, LockExcludes
<1>7. WritesAreLocked'
  BY <1>0, <1>1, <1>2, <1>3, <1>4 DEF WritesAreLocked, Open
<1>8. OneWriterPerEntity'
  BY <1>0, <1>2, <1>4 DEF OneWriterPerEntity
<1>9. OneInsertPerRawEvent'
  BY <1>0, <1>1, <1>2, <1>3, <1>6 DEF OneInsertPerRawEvent, Open
<1>10. RowIsCurrent'
  BY <1>0, <1>1, <1>2, <1>3, <1>4 DEF RowIsCurrent
<1>11. \A d \in Calls :
           /\ RawEventIdTaken(RawOf[d], answer[d])' <=>
                 RawEventIdTaken(RawOf[d], answer[d])
           /\ EventRow(RawOf[d], answer[d])' = EventRow(RawOf[d], answer[d])
  BY <1>1 DEF RawEventIdTaken, EventRow, EntityKey
<1>12. InsertIsCurrent'
  BY <1>0, <1>1, <1>2, <1>3, <1>11 DEF InsertIsCurrent
<1> QED
  BY <1>5, <1>7, <1>8, <1>9, <1>10, <1>12 DEF Inv

\* A call that writes nothing new, or ends, disturbs nobody's writes.
LEMMA KeepsWrites ==
    ASSUME Inv, NEW c \in Calls, NEW to \in PCs,
           pc' = [pc EXCEPT ![c] = to], UNCHANGED <<answer, added>>, Open(c),
           Entered(c) \/ ~Classified(c) \/ to \in {"committed", "aborted"},
           \A d \in Calls : d # c \/ to \notin {"committed", "aborted"} =>
                                held[d] \subseteq held'[d]
    PROVE  WritesAreLocked' /\ OneWriterPerEntity' /\ OneInsertPerRawEvent'
<1>1. \A d \in Calls : /\ Classified(d)' = Classified(d) /\ Key(d)' = Key(d)
                       /\ EntityLock(d)' = EntityLock(d)
                       /\ EventLock(d)' = EventLock(d)
                       /\ pc'[d] = IF d = c THEN to ELSE pc[d]
  BY DEF Inv, Classified, Key, EntityLock, EventLock, TypeOK
<1>2. \A d \in Calls : /\ Entered(d)' => Entered(d) /\ held[d] \subseteq held'[d]
                       /\ Open(d)' => Open(d) /\ held[d] \subseteq held'[d]
  BY <1>1 DEF Entered, Open
<1> QED
  BY <1>1, <1>2 DEF Inv, WritesAreLocked, OneWriterPerEntity, OneInsertPerRawEvent

\* The statements between the writes: EventTaken, CheckForeignKey,
\* UpdateEntity and Mark.
LEMMA QuietStep ==
    ASSUME Inv, NEW c \in Calls,
           EventTaken(c) \/ CheckForeignKey(c) \/ UpdateEntity(c) \/ Mark(c)
    PROVE  Inv'
<1>0. TypeOK /\ RowIsCurrent /\ InsertIsCurrent
  BY DEF Inv
<1>1. PICK to \in {"update", "mark", "commit"} :
          /\ pc' = [pc EXCEPT ![c] = to]
          /\ to = "update" <=> pc[c] \in {"event", "foreignKey"}
          /\ to = "mark" <=> pc[c] = "update"
          /\ to = "commit" <=> pc[c] = "mark"
          /\ pc[c] = "event" => RawEventIdTaken(RawOf[c], answer[c])
          /\ pc[c] \in {"event", "foreignKey", "update", "mark"}
          /\ UNCHANGED <<entities, events, answer, added, target>>
          /\ mine' = IF to = "mark"
                     THEN [mine EXCEPT ![c] = Advanced(@, answer[c])] ELSE mine
          /\ held' = held \/ held' = [held EXCEPT ![c] = @ \cup Wanted(c)]
  BY DEF EventTaken, CheckForeignKey, UpdateEntity, Mark, TakeLock, Goto, tables
<1>2. /\ Classified(c) <=> Entered(c)
      /\ pc[c] # "mark" => Classified(c)
      /\ Open(c)
  BY <1>0, <1>1 DEF Entered, InsertIsCurrent, Open
<1>3. TypeOK'
  <2>1. Wanted(c) \subseteq Locks
    BY <1>0, WantedType DEF Txs
  <2>2. held' \in [Txs -> SUBSET Locks]
    BY <1>0, <1>1, <2>1 DEF TypeOK, Txs
  <2>3. ASSUME to = "mark"
        PROVE  Advanced(mine[c], answer[c]) \in OpenRows \cup {Absent}
    <3>1. mine[c] \in OpenRows \cup {Absent} /\ answer[c] \in ClassifiedResults
      BY <1>0, <1>1, <1>2, <2>3, CallFacts DEF TypeOK
    <3> QED
      BY <3>1 DEF Advanced, OpenRows, ClassifiedResults
  <2> QED
    BY <1>0, <1>1, <2>2, <2>3 DEF TypeOK, TablesTypeOK, PCs
<1>4. WritesAreLocked' /\ OneWriterPerEntity' /\ OneInsertPerRawEvent'
  <2>1. \A d \in Calls : held[d] \subseteq held'[d]
    BY <1>0, <1>1 DEF TypeOK, Txs
  <2> QED
    BY <1>1, <1>2, <2>1, KeepsWrites DEF PCs
<1>5. \A d \in Calls : /\ Classified(d)' = Classified(d) /\ Key(d)' = Key(d)
                       /\ d # c => pc'[d] = pc[d] /\ mine'[d] = mine[d]
                       /\ pc'[c] = to
                       /\ mine'[c] = IF to = "mark"
                                     THEN Advanced(mine[c], answer[c]) ELSE mine[c]
  BY <1>0, <1>1 DEF Classified, Key, TypeOK
<1>6. RowIsCurrent'
  BY <1>0, <1>1, <1>2, <1>5 DEF RowIsCurrent, Entered
<1>7. \A d \in Calls :
          /\ RawEventIdTaken(RawOf[d], answer[d])' <=>
                RawEventIdTaken(RawOf[d], answer[d])
          /\ EventRow(RawOf[d], answer[d])' = EventRow(RawOf[d], answer[d])
          /\ added'[d] = added[d]
  BY <1>1 DEF RawEventIdTaken, EventRow, EntityKey
<1>8. InsertIsCurrent'
  <2> SUFFICES ASSUME NEW d \in Calls
               PROVE  InsertIsCurrent!(d)'
    BY DEF InsertIsCurrent
  <2>1. CASE d # c
    BY <1>0, <1>5, <1>7, <2>1 DEF InsertIsCurrent
  <2>2. CASE d = c
    BY <1>0, <1>1, <1>2, <1>5, <1>7, <2>2 DEF InsertIsCurrent
  <2> QED
    BY <2>1, <2>2
<1> QED
  BY <1>3, <1>4, <1>6, <1>8 DEF Inv

\* What a COMMIT makes visible is the effect of the whole call on the tables
\* as they are at that moment.
LEMMA CommitPersists ==
    ASSUME Inv, NEW c \in Calls, Commit(c)
    PROVE  PersistTables(RawOf[c], answer[c])
<1>0. pc[c] = "commit" /\ RowIsCurrent /\ InsertIsCurrent
  BY DEF Inv, Commit
<1>1. CASE Classified(c)
  <2>1. mine[c] = Advanced(Upserted(entities[Key(c)]), answer[c])
    BY <1>0, <1>1 DEF RowIsCurrent, Entered
  <2>2. added[c] = IF RawEventIdTaken(RawOf[c], answer[c])
                   THEN {} ELSE {EventRow(RawOf[c], answer[c])}
    BY <1>0, <1>1 DEF InsertIsCurrent
  <2>3. entities' = [entities EXCEPT ![Key(c)] =
                        Advanced(Upserted(entities[Key(c)]), answer[c])]
    BY <1>1, <2>1 DEF Commit, Key
  <2>4. events' = EventsWith(RawOf[c], answer[c])
    BY <2>2 DEF Commit, EventsWith
  <2> QED
    BY <1>1, <2>3, <2>4 DEF PersistTables, Classified, Key
<1>2. CASE ~Classified(c)
  <2>1. added[c] = {}
    BY <1>0, <1>2 DEF InsertIsCurrent
  <2> QED
    BY <1>2, <2>1 DEF Commit, PersistTables, Classified, tables
<1> QED
  BY <1>1, <1>2

LEMMA CommitStep ==
    ASSUME Inv, NEW c \in Calls, Commit(c)
    PROVE  Inv'
<1>0. /\ TypeOK /\ WritesAreLocked /\ OneWriterPerEntity
      /\ OneInsertPerRawEvent /\ RowIsCurrent /\ InsertIsCurrent
  BY DEF Inv
<1>1. /\ pc[c] = "commit" /\ Open(c)
      /\ pc' = [pc EXCEPT ![c] = "committed"]
      /\ held' = [held EXCEPT ![c] = {}]
      /\ events' = events \cup added[c]
      /\ UNCHANGED <<answer, mine, added, target>>
  BY DEF Commit, ReleaseLocks, Goto, Open
<1>2. \A d \in Calls : /\ Classified(d)' = Classified(d) /\ Key(d)' = Key(d)
                       /\ EventRow(RawOf[d], answer[d])' = EventRow(RawOf[d], answer[d])
                       /\ d # c => pc'[d] = pc[d] /\ held'[d] = held[d]
                       /\ pc'[c] = "committed"
  BY <1>0, <1>1 DEF Classified, Key, EventRow, EntityKey, TypeOK, Txs
<1>3. TypeOK'
  <2>1. TablesTypeOK'
    BY <1>0, CommitPersists, PersistTablesType, CallFacts DEF TypeOK
  <2> QED
    BY <1>0, <1>1, <2>1 DEF TypeOK, PCs
<1>4. WritesAreLocked' /\ OneWriterPerEntity' /\ OneInsertPerRawEvent'
  BY <1>0, <1>1, <1>2, KeepsWrites DEF PCs
<1>5. RowIsCurrent'
  <2> SUFFICES ASSUME NEW d \in Calls, d # c, Entered(d)
               PROVE  entities'[Key(d)] = entities[Key(d)]
    BY <1>0, <1>1, <1>2 DEF RowIsCurrent, Entered
  <2>1. CASE Classified(c)
    <3>1. Entered(c) /\ Key(d) # Key(c)
      BY <1>0, <1>1, <2>1 DEF Entered, OneWriterPerEntity
    <3>2. Key(d) \in EntityKeys /\ entities \in [EntityKeys -> EntityRows \cup {Absent}]
      BY <1>0, CallFacts DEF Entered, TypeOK, TablesTypeOK
    <3>3. entities' = [entities EXCEPT ![Key(c)] = mine[c]]
      BY <2>1 DEF Commit, Key
    <3> QED
      BY <3>1, <3>2, <3>3
  <2>2. CASE ~Classified(c)
    BY <2>2 DEF Commit
  <2> QED
    BY <2>1, <2>2
<1>6. InsertIsCurrent'
  <2> SUFFICES ASSUME NEW d \in Calls
               PROVE  InsertIsCurrent!(d)'
    BY DEF InsertIsCurrent
  <2>1. CASE d = c
    BY <1>0, <1>1, <1>2, <2>1 DEF InsertIsCurrent
  <2>2. CASE d # c /\ (~Classified(d) \/ ~Entered(d) \/ pc[d] = "event")
    BY <1>0, <1>1, <1>2, <2>2 DEF InsertIsCurrent, Entered
  <2>3. CASE d # c /\ Entered(d) /\ pc[d] # "event"
    <3>1. RawEventIdTaken(RawOf[d], answer[d]) => RawEventIdTaken(RawOf[d], answer[d])'
      BY <1>1 DEF RawEventIdTaken
    <3>2. ASSUME added[d] # {}
          PROVE  ~RawEventIdTaken(RawOf[d], answer[d])'
      <4>1. ~RawEventIdTaken(RawOf[d], answer[d]) /\ Open(d)
        BY <1>0, <2>3, <3>2 DEF InsertIsCurrent, Entered, Open
      <4>2. ASSUME NEW x \in added[c],
                   x.raw = RawOf[d], x.entity.kind = answer[d].kind
            PROVE  FALSE
        <5>1. Classified(c) /\ x = EventRow(RawOf[c], answer[c])
          BY <1>0, <1>1, <4>2 DEF InsertIsCurrent
        <5>2. RawOf[c] = RawOf[d] /\ answer[c].kind = answer[d].kind
          BY <4>2, <5>1 DEF EventRow, EntityKey
        <5> QED
          BY <1>0, <1>1, <2>3, <3>2, <4>1, <5>2 DEF OneInsertPerRawEvent
      <4> QED
        BY <1>1, <4>1, <4>2 DEF RawEventIdTaken
    <3>3. added[d] = {} => RawEventIdTaken(RawOf[d], answer[d])
      BY <1>0, <2>3 DEF InsertIsCurrent, Entered
    <3>4. added[d] # {} => added[d] = {EventRow(RawOf[d], answer[d])}
      BY <1>0, <2>3 DEF InsertIsCurrent, Entered
    <3> QED
      BY <1>1, <1>2, <2>3, <3>1, <3>2, <3>3, <3>4 DEF Entered
  <2> QED
    BY <2>1, <2>2, <2>3 DEF Entered
<1> QED
  BY <1>3, <1>4, <1>5, <1>6 DEF Inv

LEMMA RollbackStep ==
    ASSUME Inv, NEW c \in Calls, Rollback(c)
    PROVE  Inv'
<1>0. TypeOK /\ RowIsCurrent /\ InsertIsCurrent
  BY DEF Inv
<1>1. /\ Open(c)
      /\ pc' = [pc EXCEPT ![c] = "aborted"]
      /\ held' = [held EXCEPT ![c] = {}]
      /\ UNCHANGED <<entities, events, answer, mine, added, target>>
  BY DEF Rollback, ReleaseLocks, Goto, tables
<1>2. \A d \in Calls : /\ Classified(d)' = Classified(d) /\ Key(d)' = Key(d)
                       /\ EventRow(RawOf[d], answer[d])' = EventRow(RawOf[d], answer[d])
                       /\ RawEventIdTaken(RawOf[d], answer[d])' <=>
                             RawEventIdTaken(RawOf[d], answer[d])
                       /\ pc'[d] = IF d = c THEN "aborted" ELSE pc[d]
                       /\ d # c => held'[d] = held[d]
  BY <1>0, <1>1
     DEF Classified, Key, EventRow, EntityKey, RawEventIdTaken, TypeOK, Txs
<1>3. TypeOK'
  BY <1>0, <1>1 DEF TypeOK, TablesTypeOK, PCs
<1>4. WritesAreLocked' /\ OneWriterPerEntity' /\ OneInsertPerRawEvent'
  BY <1>1, <1>2, KeepsWrites DEF PCs
<1>5. RowIsCurrent'
  BY <1>0, <1>1, <1>2 DEF RowIsCurrent, Entered
<1>6. InsertIsCurrent'
  BY <1>0, <1>1, <1>2 DEF InsertIsCurrent
<1> QED
  BY <1>3, <1>4, <1>5, <1>6 DEF Inv

\* Nothing in the invariant depends on target or on the locks of others.
LEMMA RowTxStepKeeps ==
    ASSUME Inv, NEW t \in RowTxs, RowTxStep(t)
    PROVE  Inv'
<1>0. TypeOK /\ InsertIsCurrent
  BY DEF Inv
<1>1. /\ UNCHANGED <<entities, events, answer, pc, mine, added>>
      /\ target' \in [RowTxs -> Raws \cup {NoRow}]
      /\ \/ held' = held
         \/ held' = [held EXCEPT ![t] = @ \cup Wanted(t)]
         \/ held' = [held EXCEPT ![t] = {}]
  BY <1>0 DEF RowTxStep, SelectRow, LockRow, EndRowTx, TakeLock, ReleaseLocks,
              tables, TypeOK
<1>2. t \notin Calls
  BY CallsAssumption
<1>3. Wanted(t) \subseteq Locks
  BY <1>0, WantedType DEF Txs
<1>4. held' \in [Txs -> SUBSET Locks] /\ \A c \in Calls : held'[c] = held[c]
  BY <1>0, <1>1, <1>2, <1>3 DEF TypeOK, Txs
<1>5. TypeOK'
  BY <1>0, <1>1, <1>4 DEF TypeOK, TablesTypeOK
<1>6. \A c \in Calls : /\ Classified(c)' = Classified(c) /\ Key(c)' = Key(c)
                       /\ EntityLock(c)' = EntityLock(c)
                       /\ EventLock(c)' = EventLock(c)
                       /\ EventRow(RawOf[c], answer[c])' = EventRow(RawOf[c], answer[c])
                       /\ RawEventIdTaken(RawOf[c], answer[c])' <=>
                             RawEventIdTaken(RawOf[c], answer[c])
                       /\ Entered(c)' = Entered(c) /\ Open(c)' = Open(c)
  BY <1>1 DEF Classified, Key, EntityLock, EventLock, EventRow, EntityKey,
              RawEventIdTaken, Entered, Open
<1>7. WritesAreLocked' /\ OneWriterPerEntity' /\ OneInsertPerRawEvent'
  BY <1>1, <1>4, <1>6 DEF Inv, WritesAreLocked, OneWriterPerEntity, OneInsertPerRawEvent
<1>8. RowIsCurrent' /\ InsertIsCurrent'
  BY <1>1, <1>6 DEF Inv, RowIsCurrent, InsertIsCurrent
<1> QED
  BY <1>5, <1>7, <1>8 DEF Inv

LEMMA InvStep == Inv /\ [Next]_vars => Inv'
<1> SUFFICES ASSUME Inv, [Next]_vars
             PROVE  Inv'
  OBVIOUS
<1>1. ASSUME NEW c \in Calls, CallStep(c) \/ Rollback(c)
      PROVE  Inv'
  BY <1>1, UpsertStep, InsertEventStep, QuietStep, CommitStep, RollbackStep
     DEF CallStep
<1>2. ASSUME NEW t \in RowTxs, RowTxStep(t)
      PROVE  Inv'
  BY <1>2, RowTxStepKeeps
<1>3. CASE UNCHANGED vars
  BY <1>3 DEF vars, Inv, TypeOK, TablesTypeOK, WritesAreLocked, OneWriterPerEntity,
     OneInsertPerRawEvent, RowIsCurrent, InsertIsCurrent, Entered, Open, Classified,
     Key, EntityLock, EventLock, EventRow, EntityKey, RawEventIdTaken
<1> QED
  BY <1>1, <1>2, <1>3 DEF Next

LEMMA InvAlways == Spec => []Inv
BY InvInit, InvStep, PTL DEF Spec

\* No statement order leaves a badly typed row: what an open transaction holds
\* may lack a state and a time, what is committed never does.
THEOREM TypeCorrect == Spec => []TypeOK
<1>1. Inv => TypeOK
  BY DEF Inv
<1> QED
  BY <1>1, InvAlways, PTL

-----------------------------------------------------------------------------
(***************************************************************************)
(* The refinement.                                                         *)
(***************************************************************************)

LEMMA OutcomeStep ==
    ASSUME TypeOK, NEW c \in Calls, NEW to \in PCs, Open(c),
           pc' = [pc EXCEPT ![c] = to]
    PROVE  Outcome' = IF to \in {"committed", "aborted"}
                      THEN [Outcome EXCEPT ![c] = to] ELSE Outcome
<1>1. \A d \in Calls : pc'[d] = IF d = c THEN to ELSE pc[d]
  BY DEF TypeOK
<1> QED
  BY <1>1 DEF Outcome, Open

LEMMA StepRefines ==
    ASSUME Inv, [Next]_vars
    PROVE  [Atomic!Next]_(Atomic!vars)
<1>0. TypeOK
  BY DEF Inv
<1>1. ASSUME NEW c \in Calls, Commit(c)
      PROVE  Atomic!Persist(c)
  <2>1. Open(c) /\ Outcome' = [Outcome EXCEPT ![c] = "committed"]
    BY <1>0, <1>1, OutcomeStep DEF Commit, Goto, Open, PCs
  <2>2. Outcome[c] = "open"
    BY <2>1 DEF Outcome
  <2>3. Atomic!PersistTables(RawOf[c], answer[c])
    <3>1. PersistTables(RawOf[c], answer[c])
      BY <1>1, CommitPersists
    <3> QED
      BY <3>1 DEF PersistTables, Atomic!PersistTables, tables, Atomic!tables,
         EventsWith, Atomic!EventsWith, RawEventIdTaken, Atomic!RawEventIdTaken,
         EventRow, Atomic!EventRow, EntityKey, Atomic!EntityKey,
         Advanced, Atomic!Advanced, IsNewer, Atomic!IsNewer,
         Upserted, Atomic!Upserted, NoTime, Atomic!NoTime, NoState, Atomic!NoState
  <2> QED
    BY <1>1, <2>1, <2>2, <2>3 DEF Atomic!Persist, Commit
<1>2. ASSUME NEW c \in Calls, Rollback(c)
      PROVE  Atomic!Abort(c)
  <2>1. Open(c) /\ Outcome' = [Outcome EXCEPT ![c] = "aborted"]
    BY <1>0, <1>2, OutcomeStep DEF Rollback, Goto, PCs
  <2>2. Outcome[c] = "open"
    BY <2>1 DEF Outcome
  <2> QED
    BY <1>2, <2>1, <2>2 DEF Atomic!Abort, Rollback, tables
<1>3. ASSUME NEW c \in Calls,
             Upsert(c) \/ InsertEvent(c) \/ EventTaken(c) \/ CheckForeignKey(c)
                 \/ UpdateEntity(c) \/ Mark(c)
      PROVE  UNCHANGED <<entities, events, answer, Outcome>>
  <2>1. /\ Open(c)
        /\ UNCHANGED <<entities, events, answer>>
        /\ \E to \in PCs \ {"committed", "aborted"} : pc' = [pc EXCEPT ![c] = to]
    BY <1>3 DEF Upsert, InsertEvent, EventTaken, CheckForeignKey, UpdateEntity,
                Mark, Goto, Open, PCs, tables
  <2>2. Outcome' = Outcome
    BY <1>0, <2>1, OutcomeStep
  <2> QED
    BY <2>1, <2>2
<1>4. ASSUME NEW t \in RowTxs, RowTxStep(t)
      PROVE  UNCHANGED <<entities, events, answer, Outcome>>
  BY <1>4 DEF RowTxStep, SelectRow, LockRow, EndRowTx, tables, Outcome, Open
<1>5. CASE UNCHANGED vars
  BY <1>5 DEF vars, Atomic!vars, Outcome, Open
<1> QED
  BY <1>1, <1>2, <1>3, <1>4, <1>5 DEF Next, CallStep, Atomic!Next, Atomic!vars

LEMMA InitRefines == Init => Atomic!Init
<1> SUFFICES ASSUME Init
             PROVE  Atomic!Init
  OBVIOUS
<1>1. Outcome = [c \in Calls |-> "open"]
  BY DEF Init, Outcome, Open
<1> QED
  BY <1>1 DEF Init, Atomic!Init, TablesInit, Atomic!TablesInit, Results,
     Atomic!Results, ClassifiedResults, Atomic!ClassifiedResults, Unclassified,
     Atomic!Unclassified, Kinds, Atomic!Kinds, EntityKeys, Atomic!EntityKeys

\* Every behaviour of the statements, with any calls and any locks held by
\* others, is a behaviour in which calls happen one at a time or not at all.
THEOREM Refinement == Spec => ImplementsAtomicPersist
BY InvAlways, InitRefines, StepRefines, PTL
   DEF Spec, ImplementsAtomicPersist, Atomic!Spec

-----------------------------------------------------------------------------
(***************************************************************************)
(* No circle of waiting transactions.  The locks that a transaction holds  *)
(* are those of the statements behind it, in one order for all calls; and  *)
(* the rows of raw_events are taken in ascending order.                    *)
(***************************************************************************)

Holdable(c) ==
    (IF Entered(c) THEN {EntityLock(c)} ELSE {})
    \cup (IF pc[c] \in {"foreignKey", "update", "mark", "commit"}
          THEN {EventLock(c)} ELSE {})
    \cup (IF pc[c] \in {"update", "mark", "commit"}
          THEN {RawLock(RawOf[c], "keyShare")} ELSE {})
    \cup (IF pc[c] = "commit" THEN {RawLock(RawOf[c], MarkMode)} ELSE {})

CallsHoldInOrder == \A c \in Calls : held[c] \subseteq Holdable(c)

RowTxsHoldRows ==
    \A t \in RowTxs : held[t] \subseteq {RawLock(r, RowMode(t)) : r \in Raws}

RowTxsTakeInOrder ==
    \A t \in RowTxs : target[t] # NoRow => NextRow(t, target[t])

LockInv == CallsHoldInOrder /\ RowTxsHoldRows /\ RowTxsTakeInOrder

LEMMA LockInvInit == Init => LockInv
BY DEF Init, LockInv, CallsHoldInOrder, RowTxsHoldRows, RowTxsTakeInOrder, Txs

\* A step of a call moves it to a statement at which it may hold what it held
\* and what it took.
LEMMA LockInvCall ==
    ASSUME Inv, LockInv, NEW c \in Calls, CallStep(c) \/ Rollback(c)
    PROVE  LockInv'
<1>0. TypeOK /\ InsertIsCurrent /\ CallsHoldInOrder /\ c \in Txs
  BY DEF Inv, LockInv, Txs
<1>1. UNCHANGED <<answer, target>>
  BY DEF CallStep, Rollback, Upsert, InsertEvent, EventTaken, CheckForeignKey,
         UpdateEntity, Mark, Commit, tables
<1>2. /\ \A d \in Calls \ {c} : pc'[d] = pc[d] /\ held'[d] = held[d]
      /\ \A t \in RowTxs : held'[t] = held[t]
  <2>1. /\ \E to \in PCs : pc' = [pc EXCEPT ![c] = to]
        /\ \E L : held' = [held EXCEPT ![c] = L]
    <3>1. held = [held EXCEPT ![c] = held[c]]
      BY <1>0 DEF TypeOK
    <3> QED
      BY <3>1 DEF CallStep, Rollback, Upsert, InsertEvent, EventTaken, CheckForeignKey,
         UpdateEntity, Mark, Commit, TakeLock, ReleaseLocks, Goto, PCs
  <2> QED
    BY <1>0, <2>1, CallsAssumption DEF TypeOK, Txs
<1>3. \A d \in Calls : /\ EntityLock(d)' = EntityLock(d)
                       /\ EventLock(d)' = EventLock(d)
                       /\ Classified(d)' = Classified(d)
  BY <1>1 DEF EntityLock, EventLock, Classified, EntityKey
<1>4. held'[c] \subseteq Holdable(c)'
  <2>1. CASE Commit(c) \/ Rollback(c)
    BY <1>0, <2>1 DEF Commit, Rollback, ReleaseLocks, TypeOK
  <2>2. CASE Upsert(c)
    <3>1. held'[c] = held[c] \cup {EntityLock(c)} /\ pc[c] = "upsert" /\ pc'[c] = "event"
      BY <1>0, <2>2 DEF Upsert, TakeLock, Goto, Wanted, LockOf, TypeOK
    <3>2. Classified(c)
      BY <1>0, <3>1 DEF InsertIsCurrent
    <3> QED
      BY <1>0, <1>3, <3>1, <3>2 DEF CallsHoldInOrder, Holdable, Entered
  <2>3. CASE InsertEvent(c)
    <3>1. held'[c] = held[c] \cup {EventLock(c)} /\ pc[c] = "event" /\ pc'[c] = "foreignKey"
      BY <1>0, <2>3 DEF InsertEvent, TakeLock, Goto, Wanted, LockOf, TypeOK
    <3> QED
      BY <1>0, <1>3, <3>1 DEF CallsHoldInOrder, Holdable, Entered
  <2>4. CASE EventTaken(c) \/ UpdateEntity(c)
    <3>1. held'[c] = held[c]
      BY <2>4 DEF EventTaken, UpdateEntity
    <3>2. \/ pc[c] = "event" /\ pc'[c] = "update"
          \/ pc[c] = "update" /\ pc'[c] = "mark"
      BY <1>0, <2>4 DEF EventTaken, UpdateEntity, Goto, TypeOK
    <3> QED
      BY <1>0, <1>3, <3>1, <3>2 DEF CallsHoldInOrder, Holdable, Entered
  <2>5. CASE CheckForeignKey(c)
    <3>1. /\ held'[c] = held[c] \cup {RawLock(RawOf[c], "keyShare")}
          /\ pc[c] = "foreignKey" /\ pc'[c] = "update"
      BY <1>0, <2>5 DEF CheckForeignKey, TakeLock, Goto, Wanted, LockOf, TypeOK
    <3> QED
      BY <1>0, <1>3, <3>1 DEF CallsHoldInOrder, Holdable, Entered
  <2>6. CASE Mark(c)
    <3>1. /\ held'[c] = held[c] \cup {RawLock(RawOf[c], MarkMode)}
          /\ pc[c] = "mark" /\ pc'[c] = "commit"
      BY <1>0, <2>6 DEF Mark, TakeLock, Goto, Wanted, LockOf, TypeOK
    <3> QED
      BY <1>0, <1>3, <3>1 DEF CallsHoldInOrder, Holdable, Entered
  <2> QED
    BY <2>1, <2>2, <2>3, <2>4, <2>5, <2>6 DEF CallStep
<1>5. CallsHoldInOrder'
  BY <1>0, <1>2, <1>3, <1>4 DEF CallsHoldInOrder, Holdable, Entered
<1>6. RowTxsHoldRows' /\ RowTxsTakeInOrder'
  BY <1>1, <1>2 DEF LockInv, RowTxsHoldRows, RowTxsTakeInOrder, NextRow
<1> QED
  BY <1>5, <1>6 DEF LockInv

\* A reaper goes on to a later row, an acquirer has only the one.
LEMMA LockInvRowTx ==
    ASSUME Inv, LockInv, NEW t \in RowTxs, RowTxStep(t)
    PROVE  LockInv'
<1>0. TypeOK /\ t \in Txs /\ t \notin Calls
  BY CallsAssumption DEF Inv, Txs
<1>1. /\ UNCHANGED <<answer, pc>>
      /\ \A u \in RowTxs \ {t} : target'[u] = target[u] /\ held'[u] = held[u]
      /\ \A c \in Calls : held'[c] = held[c]
  BY <1>0 DEF RowTxStep, SelectRow, LockRow, EndRowTx, TakeLock, ReleaseLocks,
              TypeOK, Txs
<1>2. /\ held'[t] \subseteq {RawLock(r, RowMode(t)) : r \in Raws}
      /\ target'[t] # NoRow => NextRow(t, target[t])'
  <2>1. CASE \E r \in Raws : SelectRow(t, r)
    BY <1>0, <2>1 DEF LockInv, RowTxsHoldRows, SelectRow, NextRow, TypeOK
  <2>2. CASE LockRow(t)
    <3>1. /\ target[t] \in Raws /\ target'[t] = NoRow
          /\ held'[t] = held[t] \cup {RawLock(target[t], RowMode(t))}
      BY <1>0, <2>2 DEF LockRow, TakeLock, Wanted, TypeOK
    <3> QED
      BY <3>1 DEF LockInv, RowTxsHoldRows
  <2>3. CASE EndRowTx(t)
    BY <1>0, <2>3 DEF EndRowTx, ReleaseLocks, TypeOK
  <2> QED
    BY <2>1, <2>2, <2>3 DEF RowTxStep
<1>3. CallsHoldInOrder'
  BY <1>1 DEF LockInv, CallsHoldInOrder, Holdable, Entered, Classified, EntityLock,
              EventLock, EntityKey
<1>4. RowTxsHoldRows' /\ RowTxsTakeInOrder'
  BY <1>1, <1>2 DEF LockInv, RowTxsHoldRows, RowTxsTakeInOrder, NextRow
<1> QED
  BY <1>3, <1>4 DEF LockInv

LEMMA LockInvStep == Inv /\ LockInv /\ [Next]_vars => LockInv'
<1> SUFFICES ASSUME Inv, LockInv, [Next]_vars
             PROVE  LockInv'
  OBVIOUS
<1>1. CASE UNCHANGED vars
  BY <1>1 DEF vars, LockInv, CallsHoldInOrder, RowTxsHoldRows, RowTxsTakeInOrder,
     NextRow, Holdable, Entered, Classified, EntityLock, EventLock, EntityKey
<1> QED
  BY <1>1, LockInvCall, LockInvRowTx DEF Next

LEMMA LockInvAlways == Spec => [](Inv /\ LockInv)
BY InvInit, InvStep, LockInvInit, LockInvStep, PTL DEF Spec

LEMMA NatHasLeast ==
    ASSUME NEW T \in SUBSET Nat, T # {}
    PROVE  \E n \in T : \A m \in T : n <= m
<1>1. IsWellFoundedOn(OpToRel(<, Nat), Nat)
  BY NatLessThanWellFounded
<1>2. PICK n \in T : \A m \in T : ~(<<m, n>> \in OpToRel(<, Nat))
  BY <1>1, WFMin
<1>3. \A m \in T : ~(m < n)
  BY <1>2 DEF OpToRel
<1> QED
  BY <1>3

\* How far a waiting transaction is in the order of locks.
Rank(t) ==
    IF t \in Calls
    THEN CASE pc[t] = "upsert" -> 1
           [] pc[t] = "event" -> 2
           [] pc[t] = "foreignKey" -> 3
           [] OTHER -> 4 + RawOf[t]
    ELSE IF t \in Reapers THEN 4 + target[t] ELSE 0

\* What a waiter waits for, if that waits too, is farther.
LEMMA RankGrows ==
    ASSUME Inv, LockInv, NEW t \in Txs, NEW u \in WaitsFor(t), WaitsFor(u) # {}
    PROVE  Rank(t) < Rank(u)
<1>0. TypeOK /\ InsertIsCurrent /\ CallsHoldInOrder
  BY DEF Inv, LockInv
<1>1. u \in Txs /\ u # t /\ Wanted(u) # {}
  BY DEF WaitsFor
<1>2. PICK l \in Wanted(t), m \in held[u] : l.on = m.on /\ Conflicting(l.mode, m.mode)
  BY DEF WaitsFor
<1>3. ASSUME u \notin Calls
      PROVE  /\ u \in Reapers /\ target[u] \in Nat
             /\ \E r \in Raws : m = RawLock(r, "noKeyUpdate") /\ r < target[u]
  <2>1. u \in RowTxs /\ target[u] \in Raws
    BY <1>0, <1>1, <1>3 DEF Txs, Wanted, TypeOK
  <2>2. NextRow(u, target[u]) /\ held[u] # {}
    BY <1>2, <2>1, RawsAssumption DEF LockInv, RowTxsTakeInOrder, NoRow
  <2>3. u \in Reapers /\ m.on[2] < target[u]
    BY <1>2, <2>2 DEF NextRow
  <2>4. PICK r \in Raws : m = RawLock(r, "noKeyUpdate")
    BY <1>2, <2>1, <2>3 DEF LockInv, RowTxsHoldRows, RowMode
  <2>5. r < target[u]
    BY <2>3, <2>4 DEF RawLock
  <2> QED
    BY <2>1, <2>3, <2>4, <2>5, RawsAssumption
<1>4. ASSUME u \in Calls
      PROVE  /\ pc[u] \in {"upsert", "event", "foreignKey", "mark"}
             /\ \/ Entered(u) /\ m = EntityLock(u)
                \/ pc[u] \in {"foreignKey", "mark"} /\ m = EventLock(u)
                \/ pc[u] = "mark" /\ m = RawLock(RawOf[u], "keyShare")
  <2>1. pc[u] \in {"upsert", "event", "foreignKey", "mark"}
    BY <1>1, <1>4 DEF Wanted, LockOf
  <2>2. m \in Holdable(u)
    BY <1>0, <1>2, <1>4 DEF CallsHoldInOrder
  <2> QED
    BY <2>1, <2>2 DEF Holdable
<1>5. CASE t \in Calls
  <2>1. RawOf[t] \in Nat
    BY <1>5, CallsAssumption, RawsAssumption
  <2>2. u \in Calls => RawOf[u] \in Nat
    BY CallsAssumption, RawsAssumption
  <2>3. CASE pc[t] = "upsert"
    <3>1. l = EntityLock(t)
      BY <1>2, <1>5, <2>3 DEF Wanted, LockOf
    <3>2. u \in Calls
      BY <1>2, <1>3, <3>1 DEF EntityLock, RawLock
    <3>3. Entered(u) /\ pc[u] \in {"event", "foreignKey", "mark"}
      BY <1>2, <1>4, <3>1, <3>2 DEF EntityLock, EventLock, RawLock, Entered
    <3> QED
      BY <1>5, <2>2, <2>3, <3>2, <3>3 DEF Rank
  <2>4. CASE pc[t] = "event"
    <3>1. l = EventLock(t)
      BY <1>2, <1>5, <2>4 DEF Wanted, LockOf
    <3>2. u \in Calls
      BY <1>2, <1>3, <3>1 DEF EventLock, RawLock
    <3>3. pc[u] \in {"foreignKey", "mark"}
      BY <1>2, <1>4, <3>1, <3>2 DEF EntityLock, EventLock, RawLock
    <3> QED
      BY <1>5, <2>2, <2>4, <3>2, <3>3 DEF Rank
  <2>5. CASE pc[t] = "foreignKey"
    <3>1. l = RawLock(RawOf[t], "keyShare")
      BY <1>2, <1>5, <2>5 DEF Wanted, LockOf
    <3>2. m.mode = "forUpdate" /\ m.on[1] = "raw"
      BY <1>2, <3>1 DEF RawLock, Conflicting
    <3>3. m.mode # "forUpdate"
      BY <1>3, <1>4 DEF EntityLock, EventLock, RawLock
    <3> QED
      BY <3>2, <3>3
  <2>6. CASE pc[t] = "mark"
    <3>1. l = RawLock(RawOf[t], "noKeyUpdate")
      BY <1>2, <1>5, <2>6 DEF Wanted, LockOf, MarkMode
    <3>2. m.on = <<"raw", RawOf[t]>> /\ m.mode # "keyShare"
      BY <1>2, <3>1 DEF RawLock, Conflicting
    <3>3. u \notin Calls
      BY <1>4, <3>2 DEF EntityLock, EventLock, RawLock
    <3>4. u \in Reapers /\ target[u] \in Nat /\ RawOf[t] < target[u]
      BY <1>3, <3>2, <3>3 DEF RawLock
    <3> QED
      BY <1>5, <2>1, <2>6, <3>3, <3>4 DEF Rank
  <2> QED
    BY <1>2, <1>5, <2>3, <2>4, <2>5, <2>6 DEF Wanted, LockOf
<1>6. CASE t \notin Calls
  <2>1. target[t] \in Raws /\ l = RawLock(target[t], RowMode(t))
    BY <1>0, <1>2, <1>6 DEF Wanted, TypeOK, Txs
  <2>2. m.on = <<"raw", target[t]>>
    BY <1>2, <2>1 DEF RawLock
  <2>3. CASE u \in Calls
    <3>1. /\ pc[u] = "mark" /\ m = RawLock(RawOf[u], "keyShare")
      BY <1>4, <2>2, <2>3 DEF EntityLock, EventLock, RawLock
    <3>2. t \notin Reapers
      BY <1>2, <2>1, <3>1 DEF RowMode, RawLock, Conflicting
    <3>3. RawOf[u] \in Nat
      BY <2>3, CallsAssumption, RawsAssumption
    <3> QED
      BY <1>6, <2>3, <3>1, <3>2, <3>3 DEF Rank
  <2>4. CASE u \notin Calls
    <3>1. u \in Reapers /\ target[u] \in Nat /\ target[t] < target[u]
      BY <1>3, <2>2, <2>4 DEF RawLock
    <3>2. target[t] \in Nat
      BY <2>1, RawsAssumption
    <3> QED
      BY <1>6, <2>4, <3>1, <3>2 DEF Rank
  <2> QED
    BY <2>3, <2>4
<1> QED
  BY <1>5, <1>6

LEMMA RankBound ==
    ASSUME TypeOK, NEW N \in Nat, \A r \in Raws : r <= N,
           NEW t \in Txs, WaitsFor(t) # {}
    PROVE  Rank(t) \in 0 .. N + 4
<1>1. Wanted(t) # {}
  BY DEF WaitsFor
<1>2. CASE t \in Calls
  <2>1. RawOf[t] \in Nat /\ RawOf[t] <= N
    BY <1>2, CallsAssumption, RawsAssumption
  <2> QED
    BY <1>2, <2>1 DEF Rank
<1>3. CASE t \notin Calls
  <2>1. target[t] \in Raws
    BY <1>1, <1>3 DEF Wanted, Txs, TypeOK
  <2> QED
    BY <1>3, <2>1, RawsAssumption DEF Rank
<1> QED
  BY <1>2, <1>3

\* There being no end of raw events, a row could wait behind another for ever.
RawsAreBounded == \E N \in Nat : \A r \in Raws : r <= N

LEMMA LocksAreOrdered ==
    ASSUME Inv, LockInv, RawsAreBounded
    PROVE  NoWaitCycle
<1>0. TypeOK
  BY DEF Inv
<1>1. PICK N \in Nat : \A r \in Raws : r <= N
  BY DEF RawsAreBounded
<1> SUFFICES ASSUME NEW S \in SUBSET Txs, S # {},
                    \A t \in S : WaitsFor(t) \cap S # {}
             PROVE  FALSE
  BY DEF NoWaitCycle
<1> DEFINE T == {N + 4 - Rank(t) : t \in S}
<1>2. \A t \in S : Rank(t) \in 0 .. N + 4
  BY <1>0, <1>1, RankBound
<1>3. T \in SUBSET Nat /\ T # {}
  BY <1>1, <1>2
<1>4. PICK n \in T : \A m \in T : n <= m
  BY <1>3, NatHasLeast
<1>5. PICK t \in S : n = N + 4 - Rank(t)
  BY <1>4
<1>6. PICK u \in WaitsFor(t) \cap S : TRUE
  BY <1>5
<1>7. Rank(t) < Rank(u)
  <2>1. WaitsFor(u) # {}
    BY <1>6
  <2> QED
    BY <1>5, <1>6, <2>1, RankGrows
<1>8. N + 4 - Rank(u) \in T
  BY <1>6
<1>9. N + 4 - Rank(t) <= N + 4 - Rank(u)
  BY <1>4, <1>5, <1>8
<1> QED
  BY <1>1, <1>2, <1>5, <1>6, <1>7, <1>9

\* However many calls, reapers and acquirers there are: as long as the rows
\* are finitely many, the database never breaks a deadlock among them.
THEOREM NoDeadlock ==
    ASSUME RawsAreBounded
    PROVE  Spec => []NoWaitCycle
<1>1. Inv /\ LockInv => NoWaitCycle
  BY LocksAreOrdered
<1> QED
  BY <1>1, LockInvAlways, PTL
=============================================================================
