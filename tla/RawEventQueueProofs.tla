------------------------ MODULE RawEventQueueProofs ------------------------
(***************************************************************************)
(* Proofs about RawEventQueue, for every set of raw events, workers and    *)
(* retries.  With every fault: the type invariant, no rollback, no sweep   *)
(* of a row that someone is busy with, duplicates at rest, processed rows  *)
(* logged, and the tables true to each other if the classifier is          *)
(* consistent.  Without retries: the mutual exclusion of the workers, and  *)
(* without lost confirmations the failure budget and the refinement of     *)
(* WorkItems.                                                              *)
(*                                                                         *)
(* What the last two rest on is stated row by row (OwnedAt, RowInv) and    *)
(* preserved by every step that is not a retry's acquisition of that very  *)
(* row: CompositionProofs uses it for the rows that no retry has named.    *)
(***************************************************************************)
EXTENDS RawEventQueue, EntityTablesProofs

-----------------------------------------------------------------------------
(***************************************************************************)
(* Rows.                                                                   *)
(***************************************************************************)

LEMMA AgesFacts ==
    /\ Ages \subseteq Int
    /\ 0 .. WorstCaseInFlight \subseteq Ages
    /\ NotLocked \notin Ages
BY BoundsAssumption, StaleLockAssumption DEF Ages, MaxAge, NotLocked

LEMMA ElapsedFacts ==
    \A n \in 0 .. WorstCaseInFlight :
        n \in Ages /\ n \in Nat /\ n + MaxClockSkew <= StaleLock
BY BoundsAssumption, StaleLockAssumption DEF Ages, MaxAge

\* What each transaction writes into a row is a row.
LEMMA RowTypes ==
    ASSUME NEW x \in Rows
    PROVE  /\ x.status \in Statuses /\ x.attempts \in Nat
           /\ x.locked_at \in Ages \cup {NotLocked}
           /\ \A s \in Statuses : [x EXCEPT !.status = s] \in Rows
           /\ \A n \in Ages : ClaimedRow(x, n) \in Rows
           /\ Reaped(x) \in Rows
           /\ Aged(x) \in Rows
           /\ AcquiredRow(x) \in Rows
           /\ FailedRow(x) \in Rows
           /\ RetriedRow(x) \in Rows
<1>1. x.status \in Statuses /\ x.attempts \in Nat
      /\ x.locked_at \in Ages \cup {NotLocked}
  BY DEF Rows
<1>2. \A s \in Statuses : [x EXCEPT !.status = s] \in Rows
  BY DEF Rows
<1>3. \A n \in Ages : ClaimedRow(x, n) \in Rows
  BY DEF Rows, ClaimedRow, Statuses
<1>4. Reaped(x) \in Rows
  BY DEF Rows, Reaped, Statuses
<1>5. Older(x.locked_at) \in Ages \cup {NotLocked}
  BY <1>1, BoundsAssumption DEF Older, Ages, MaxAge, NotLocked
<1>6. Aged(x) \in Rows
  BY <1>5 DEF Rows, Aged
<1>7. AcquiredRow(x) \in Rows
  BY <1>1, BoundsAssumption DEF Rows, AcquiredRow, Statuses, Ages, MaxAge
<1>8. FailedRow(x) \in Rows
  BY <1>1 DEF Rows, FailedRow, StatusAfterFailure, Statuses
<1>9. RetriedRow(x) \in Rows
  BY DEF Rows, RetriedRow, Statuses
<1> QED
  BY <1>1, <1>2, <1>3, <1>4, <1>6, <1>7, <1>8, <1>9

LEMMA FlushedType ==
    ASSUME NEW cur \in Rows, NEW copy \in Rows, NEW dirty \in Rows
    PROVE  Flushed(cur, copy, dirty) \in Rows
BY DEF Flushed, Rows

LEMMA NoRowType == NoRow \in Rows
BY DEF NoRow, Rows, Statuses

LEMMA UnclassifiedType == Unclassified \in Results
BY DEF Results

-----------------------------------------------------------------------------
(***************************************************************************)
(* Type correctness.                                                       *)
(***************************************************************************)

LEMMA TypeOKInit == Init => TypeOK
<1> SUFFICES ASSUME Init
             PROVE  TypeOK
  OBVIOUS
<1>1. TablesTypeOK
  BY DEF Init, TablesInit, TablesTypeOK
<1>2. /\ row \in [Raws -> Rows]
      /\ loaded \in [Actors -> Rows]
      /\ result \in [Actors -> Results]
  BY NoRowType, UnclassifiedType DEF Init
<1>3. /\ pc \in [Actors -> WorkerPCs \cup OperatorPCs]
      /\ \A w \in Workers : pc[w] \in WorkerPCs
      /\ \A o \in Operators : pc[o] \in OperatorPCs
      /\ \A a \in Actors : ~Busy(a)
  BY ActorsAssumption DEF Init, Actors, WorkerPCs, OperatorPCs, Busy, InFlight
<1>4. /\ job \in [Actors -> Raws \cup {NoJob}]
      /\ elapsed \in [Actors -> 0 .. WorstCaseInFlight]
      /\ sinceReap \in [Workers -> 0 .. ReapInterval]
      /\ faults \in 0 .. MaxFaults
  BY BoundsAssumption DEF Init
<1> QED
  BY <1>1, <1>2, <1>3, <1>4 DEF TypeOK

\* The locals of an actor that leaves its row are well typed again.
LEMMA LeaveType ==
    ASSUME TypeOK, NEW a \in Actors, NEW to, Leave(a, to),
           a \in Workers => to \in WorkerPCs,
           a \in Operators => to \in OperatorPCs,
           to \notin {"claiming", "classify", "persist", "unconfirmed", "record"}
    PROVE  /\ pc' \in [Actors -> WorkerPCs \cup OperatorPCs]
           /\ \A w \in Workers : pc'[w] \in WorkerPCs
           /\ \A o \in Operators : pc'[o] \in OperatorPCs
           /\ job' \in [Actors -> Raws \cup {NoJob}]
           /\ \A b \in Actors : Busy(b)' => job'[b] \in Raws
           /\ loaded' \in [Actors -> Rows]
           /\ result' \in [Actors -> Results]
           /\ elapsed' \in [Actors -> 0 .. WorstCaseInFlight]
<1>1. /\ pc' = [pc EXCEPT ![a] = to]
      /\ job' = [job EXCEPT ![a] = NoJob]
  BY DEF Leave
<1>2. /\ pc' \in [Actors -> WorkerPCs \cup OperatorPCs]
      /\ \A w \in Workers : pc'[w] \in WorkerPCs
      /\ \A o \in Operators : pc'[o] \in OperatorPCs
  BY <1>1, ActorsAssumption DEF TypeOK, Actors
<1>3. job' \in [Actors -> Raws \cup {NoJob}]
  BY <1>1 DEF TypeOK
<1>4. \A b \in Actors : Busy(b)' => job'[b] \in Raws
  BY <1>1 DEF TypeOK, Busy, InFlight
<1>5. /\ loaded' \in [Actors -> Rows]
      /\ result' \in [Actors -> Results]
      /\ elapsed' \in [Actors -> 0 .. WorstCaseInFlight]
  BY NoRowType, UnclassifiedType, BoundsAssumption DEF TypeOK, Leave
<1> QED
  BY <1>2, <1>3, <1>4, <1>5

\* The tables are left alone, or one persist transaction writes them.
LEMMA TablesUnchangedType ==
    ASSUME TablesTypeOK, UNCHANGED tables
    PROVE  TablesTypeOK'
BY DEF TablesTypeOK, tables

LEMMA TypeOKQueueStep ==
    ASSUME TypeOK, NEW w \in Workers
    PROVE  /\ Reap(w) => TypeOK'
           /\ ReapFailed(w) => TypeOK'
           /\ \A r \in Raws : Claim(w, r) => TypeOK'
           /\ CommitClaim(w) => TypeOK'
           /\ ClaimFailed(w) => TypeOK'
           /\ ClaimUnconfirmed(w) => TypeOK'
           /\ NothingToClaim(w) => TypeOK'
           /\ Wake(w) => TypeOK'
           /\ Crash(w) => TypeOK'
<1> USE DEF WorkerPCs, OperatorPCs
<1>1. w \in Actors /\ w \notin Operators
  BY ActorsAssumption DEF Actors
<1>2. ASSUME Reap(w)
      PROVE  TypeOK'
  <2>1. TablesTypeOK'
    BY <1>2, TablesUnchangedType DEF Reap, TypeOK
  <2>2. row' \in [Raws -> Rows]
    BY <1>2, RowTypes DEF Reap, TypeOK
  <2>3. sinceReap' \in [Workers -> 0 .. ReapInterval]
    BY <1>2, BoundsAssumption DEF Reap, TypeOK
  <2> QED
    BY <1>1, <1>2, <2>1, <2>2, <2>3
       DEF Reap, AfterReap, TypeOK, Busy, InFlight
<1>3. ASSUME ReapFailed(w)
      PROVE  TypeOK'
  <2>1. TablesTypeOK'
    BY <1>3, TablesUnchangedType DEF ReapFailed, TypeOK
  <2>2. sinceReap' \in [Workers -> 0 .. ReapInterval]
        /\ faults' \in 0 .. MaxFaults
    BY <1>3, BoundsAssumption DEF ReapFailed, Fault, TypeOK
  <2> QED
    BY <1>1, <1>3, <2>1, <2>2
       DEF ReapFailed, AfterReap, TypeOK, Busy, InFlight
<1>4. ASSUME NEW r \in Raws, Claim(w, r)
      PROVE  TypeOK'
  <2>1. TablesTypeOK'
    BY <1>4, TablesUnchangedType DEF Claim, TypeOK
  <2>2. elapsed' \in [Actors -> 0 .. WorstCaseInFlight]
    <3>1. 0 \in 0 .. WorstCaseInFlight
      BY BoundsAssumption
    <3> QED
      BY <1>4, <3>1 DEF Claim, TypeOK
  <2> QED
    BY <1>1, <1>4, <2>1, <2>2 DEF Claim, TypeOK, Busy, InFlight
<1>5. ASSUME CommitClaim(w)
      PROVE  TypeOK'
  <2>1. TablesTypeOK'
    BY <1>5, TablesUnchangedType DEF CommitClaim, TypeOK
  <2>2. row' \in [Raws -> Rows]
    <3>1. elapsed[w] \in Ages /\ job[w] \in Raws
      BY <1>1, <1>5, ElapsedFacts DEF TypeOK, CommitClaim, Busy
    <3>2. ClaimedRow(row[job[w]], elapsed[w]) \in Rows
      BY <3>1, RowTypes DEF TypeOK
    <3> QED
      BY <1>5, <3>2 DEF TypeOK, CommitClaim
  <2> QED
    BY <1>1, <1>5, <2>1, <2>2 DEF CommitClaim, TypeOK, Busy, InFlight
<1>6. ASSUME ClaimFailed(w)
      PROVE  TypeOK'
  <2>1. TablesTypeOK' /\ faults' \in 0 .. MaxFaults
    BY <1>6, TablesUnchangedType, BoundsAssumption DEF ClaimFailed, Fault, TypeOK
  <2> QED
    BY <1>1, <1>6, <2>1, LeaveType DEF ClaimFailed, TypeOK
<1>7. ASSUME NothingToClaim(w)
      PROVE  TypeOK'
  <2>1. TablesTypeOK'
    BY <1>7, TablesUnchangedType DEF NothingToClaim, TypeOK
  <2> QED
    BY <1>1, <1>7, <2>1 DEF NothingToClaim, TypeOK, Busy, InFlight
<1>8. ASSUME Wake(w)
      PROVE  TypeOK'
  <2>1. TablesTypeOK'
    BY <1>8, TablesUnchangedType DEF Wake, TypeOK
  <2> QED
    BY <1>1, <1>8, <2>1 DEF Wake, TypeOK, Busy, InFlight
<1>9. ASSUME Crash(w)
      PROVE  TypeOK'
  <2>1. TablesTypeOK' /\ faults' \in 0 .. MaxFaults
        /\ sinceReap' \in [Workers -> 0 .. ReapInterval]
    BY <1>9, TablesUnchangedType, BoundsAssumption DEF Crash, Fault, TypeOK
  <2> QED
    BY <1>1, <1>9, <2>1, LeaveType DEF Crash, TypeOK
<1>10. ASSUME ClaimUnconfirmed(w)
       PROVE  TypeOK'
  <2>1. TablesTypeOK' /\ faults' \in 0 .. MaxFaults
        /\ Leave(w, "sleep") /\ sinceReap' = sinceReap
    BY <1>10, TablesUnchangedType, BoundsAssumption
       DEF ClaimUnconfirmed, Fault, TypeOK
  <2>2. row' \in [Raws -> Rows]
    <3>1. elapsed[w] \in Ages /\ job[w] \in Raws
      BY <1>1, <1>10, ElapsedFacts DEF TypeOK, ClaimUnconfirmed, Busy
    <3>2. ClaimedRow(row[job[w]], elapsed[w]) \in Rows
      BY <3>1, RowTypes DEF TypeOK
    <3> QED
      BY <1>10, <3>2 DEF TypeOK, ClaimUnconfirmed
  <2> QED
    BY <1>1, <2>1, <2>2, LeaveType DEF TypeOK
<1> QED
  BY <1>2, <1>3, <1>4, <1>5, <1>6, <1>7, <1>8, <1>9, <1>10

\* A step of an actor that has a row in hand, faults aside.
Proceeds(a) ==
    \/ Attempt(a)
    \/ LoadAfterUnconfirmed(a)
    \/ a \in Workers /\ MarkFailed(a)
    \/ a \in Operators /\ RecordRetryFailure(a)

\* The steps of workers, retries and misled actors that are such a step.
LEMMA ProceedSteps ==
    /\ \A w \in Workers : Attempt(w) \/ MarkFailed(w) => Proceeds(w)
    /\ \A o \in Operators : RetryStep(o) => Proceeds(o)
    /\ \A a \in Misled : LoadAfterUnconfirmed(a) => Proceeds(a)
    /\ Workers \subseteq Actors /\ Operators \subseteq Actors
    /\ Misled \subseteq Actors
BY MisledAssumption DEF Proceeds, RetryStep, Actors

LEMMA TypeOKAttempt ==
    ASSUME TypeOK, NEW a \in Actors,
           Proceeds(a) \/ PersistUnconfirmed(a) \/ RecordLost(a)
    PROVE  TypeOK'
<1> USE DEF WorkerPCs, OperatorPCs
<1>1. Busy(a) => job[a] \in Raws /\ row[job[a]] \in Rows /\ loaded[a] \in Rows
  BY DEF TypeOK
<1>2. ASSUME NEW e \in Results, ClassifyOk(a, e)
      PROVE  TypeOK'
  <2>1. TablesTypeOK'
    BY <1>2, TablesUnchangedType DEF ClassifyOk, TypeOK
  <2>2. loaded' \in [Actors -> Rows] /\ result' \in [Actors -> Results]
    BY <1>1, <1>2 DEF ClassifyOk, Load, TypeOK, Busy, InFlight
  <2> QED
    BY <1>2, <2>1, <2>2 DEF ClassifyOk, TypeOK, Busy, InFlight, Actors
<1>3. ASSUME ClassifyFailed(a)
      PROVE  TypeOK'
  <2>1. TablesTypeOK'
    BY <1>3, TablesUnchangedType DEF ClassifyFailed, TypeOK
  <2>2. loaded' \in [Actors -> Rows]
    BY <1>1, <1>3 DEF ClassifyFailed, Load, TypeOK, Busy, InFlight
  <2> QED
    BY <1>3, <2>1, <2>2 DEF ClassifyFailed, TypeOK, Busy, InFlight, Actors
<1>4. ASSUME PersistFailed(a)
      PROVE  TypeOK'
  <2>1. TablesTypeOK'
    BY <1>4, TablesUnchangedType DEF PersistFailed, TypeOK
  <2>2. loaded' \in [Actors -> Rows] /\ result' \in [Actors -> Results]
    BY <1>1, <1>4, UnclassifiedType
       DEF PersistFailed, Load, TypeOK, Busy, InFlight
  <2> QED
    BY <1>4, <2>1, <2>2 DEF PersistFailed, TypeOK, Busy, InFlight, Actors
<1>9. ASSUME job[a] \in Raws
      PROVE  PersistedRow(a) \in Rows
  <2>1. row[job[a]] \in Rows /\ loaded[a] \in Rows
    BY <1>9 DEF TypeOK
  <2>2. [loaded[a] EXCEPT !.status = "processed"] \in Rows
    BY <2>1, RowTypes DEF Statuses
  <2> QED
    BY <2>1, <2>2, FlushedType DEF PersistedRow
<1>5. ASSUME Persist(a)
      PROVE  TypeOK'
  <2>1. job[a] \in Raws
    BY <1>1, <1>5 DEF Persist, Busy, InFlight
  <2>2. TablesTypeOK'
    BY <1>5, <2>1, PersistTablesType DEF Persist, TypeOK
  <2>3. row' \in [Raws -> Rows]
    BY <1>5, <1>9, <2>1 DEF Persist, TypeOK
  <2>4. Leave(a, After(a)) /\ UNCHANGED <<sinceReap, faults>>
    BY <1>5 DEF Persist
  <2> QED
    BY <2>2, <2>3, <2>4, LeaveType, ActorsAssumption DEF After, TypeOK
<1>10. ASSUME PersistUnconfirmed(a)
       PROVE  TypeOK'
  <2>1. job[a] \in Raws
    BY <1>1, <1>10 DEF PersistUnconfirmed, Busy, InFlight
  <2>2. TablesTypeOK' /\ faults' \in 0 .. MaxFaults
    BY <1>10, <2>1, PersistTablesType, BoundsAssumption
       DEF PersistUnconfirmed, Fault, TypeOK
  <2>3. row' \in [Raws -> Rows]
    BY <1>9, <1>10, <2>1 DEF PersistUnconfirmed, TypeOK
  <2>4. result' \in [Actors -> Results]
    BY <1>10, UnclassifiedType DEF PersistUnconfirmed, TypeOK
  <2>5. /\ pc' = [pc EXCEPT ![a] = "unconfirmed"]
        /\ UNCHANGED <<job, loaded, elapsed, sinceReap>>
    BY <1>10 DEF PersistUnconfirmed
  <2> QED
    BY <2>1, <2>2, <2>3, <2>4, <2>5 DEF TypeOK, Busy, InFlight, Actors
<1>11. ASSUME LoadAfterUnconfirmed(a)
       PROVE  TypeOK'
  <2>1. TablesTypeOK'
    BY <1>11, TablesUnchangedType DEF LoadAfterUnconfirmed, TypeOK
  <2>2. loaded' \in [Actors -> Rows]
    BY <1>1, <1>11 DEF LoadAfterUnconfirmed, Load, TypeOK, Busy, InFlight
  <2> QED
    BY <1>11, <2>1, <2>2 DEF LoadAfterUnconfirmed, TypeOK, Busy, InFlight, Actors
<1>6. ASSUME a \in Workers, MarkFailed(a)
      PROVE  TypeOK'
  <2>1. TablesTypeOK' /\ a \in Workers /\ Leave(a, "top")
        /\ UNCHANGED <<sinceReap, faults>>
    BY <1>6, TablesUnchangedType DEF MarkFailed, TypeOK
  <2>2. row' \in [Raws -> Rows]
    <3>1. job[a] \in Raws /\ row[job[a]] \in Rows /\ loaded[a] \in Rows
      BY <1>1, <1>6 DEF MarkFailed, Busy, InFlight
    <3>2. Flushed(row[job[a]], loaded[a], FailedRow(loaded[a])) \in Rows
      BY <3>1, RowTypes, FlushedType
    <3> QED
      BY <1>6, <3>2 DEF MarkFailed, TypeOK
  <2> QED
    BY <2>1, <2>2, LeaveType, ActorsAssumption DEF TypeOK
<1>7. ASSUME a \in Operators, RecordRetryFailure(a)
      PROVE  TypeOK'
  <2>1. TablesTypeOK' /\ a \in Operators /\ Leave(a, "done")
        /\ UNCHANGED <<sinceReap, faults>>
    BY <1>7, TablesUnchangedType DEF RecordRetryFailure, TypeOK
  <2>2. row' \in [Raws -> Rows]
    <3>1. job[a] \in Raws /\ row[job[a]] \in Rows /\ loaded[a] \in Rows
      BY <1>1, <1>7 DEF RecordRetryFailure, Busy, InFlight
    <3>2. Flushed(row[job[a]], loaded[a], RetriedRow(loaded[a])) \in Rows
      BY <3>1, RowTypes, FlushedType
    <3> QED
      BY <1>7, <3>2 DEF RecordRetryFailure, TypeOK
  <2> QED
    BY <2>1, <2>2, LeaveType, ActorsAssumption DEF TypeOK
<1>8. ASSUME RecordLost(a)
      PROVE  TypeOK'
  <2>1. TablesTypeOK' /\ faults' \in 0 .. MaxFaults
        /\ UNCHANGED <<row, sinceReap>>
    BY <1>8, TablesUnchangedType, BoundsAssumption DEF RecordLost, Fault, TypeOK
  <2>2. Leave(a, IF a \in Workers THEN "sleep" ELSE "done")
    BY <1>8 DEF RecordLost
  <2> QED
    BY <2>1, <2>2, LeaveType, ActorsAssumption DEF TypeOK
<1> QED
  BY <1>2, <1>3, <1>4, <1>5, <1>6, <1>7, <1>8, <1>10, <1>11
     DEF Proceeds, Attempt

LEMMA TypeOKEnvironment ==
    ASSUME TypeOK
    PROVE  /\ \A r \in Raws : Ingest(r) => TypeOK'
           /\ \A o \in Operators, r \in Raws :
                 Acquire(o, r) \/ Refuse(o, r) => TypeOK'
           /\ \A o \in Operators : ApiCrash(o) => TypeOK'
           /\ Tick => TypeOK'
<1> USE DEF WorkerPCs, OperatorPCs
<1>1. ASSUME NEW r \in Raws, Ingest(r)
      PROVE  TypeOK'
  <2>1. TablesTypeOK'
    BY <1>1, TablesUnchangedType DEF Ingest, TypeOK
  <2>2. row' \in [Raws -> Rows]
    <3>1. [row[r] EXCEPT !.status = IF r \in Duplicates THEN "duplicate"
                                                        ELSE "pending"] \in Rows
      BY RowTypes DEF TypeOK, Statuses
    <3> QED
      BY <1>1, <3>1 DEF Ingest, TypeOK
  <2> QED
    BY <1>1, <2>1, <2>2 DEF Ingest, TypeOK, Busy, InFlight
<1>2. ASSUME NEW o \in Operators, NEW r \in Raws, Acquire(o, r)
      PROVE  TypeOK'
  <2>1. TablesTypeOK' /\ o \in Actors /\ o \notin Workers
    BY <1>2, TablesUnchangedType, ActorsAssumption DEF Acquire, TypeOK, Actors
  <2>2. row' \in [Raws -> Rows]
    BY <1>2, RowTypes DEF Acquire, TypeOK
  <2>3. elapsed' \in [Actors -> 0 .. WorstCaseInFlight]
    <3>1. 0 \in 0 .. WorstCaseInFlight
      BY BoundsAssumption
    <3> QED
      BY <1>2, <3>1 DEF Acquire, TypeOK
  <2> QED
    BY <1>2, <2>1, <2>2, <2>3 DEF Acquire, TypeOK, Busy, InFlight
<1>3. ASSUME NEW o \in Operators, NEW r \in Raws, Refuse(o, r)
      PROVE  TypeOK'
  <2>1. TablesTypeOK' /\ o \in Actors /\ o \notin Workers
    BY <1>3, TablesUnchangedType, ActorsAssumption DEF Refuse, TypeOK, Actors
  <2> QED
    BY <1>3, <2>1 DEF Refuse, TypeOK, Busy, InFlight
<1>4. ASSUME NEW o \in Operators, ApiCrash(o)
      PROVE  TypeOK'
  <2>1. TablesTypeOK' /\ faults' \in 0 .. MaxFaults
        /\ o \in Actors /\ o \notin Workers
    BY <1>4, TablesUnchangedType, BoundsAssumption, ActorsAssumption
       DEF ApiCrash, Fault, TypeOK, Actors
  <2> QED
    BY <1>4, <2>1, LeaveType DEF ApiCrash, TypeOK
<1>5. ASSUME Tick
      PROVE  TypeOK'
  <2>1. TablesTypeOK'
    BY <1>5, TablesUnchangedType DEF Tick, TypeOK
  <2>2. row' \in [Raws -> Rows]
    BY <1>5, RowTypes DEF Tick, TypeOK
  <2>3. elapsed' \in [Actors -> 0 .. WorstCaseInFlight]
    <3>1. \A a \in Actors :
            (IF Busy(a) /\ elapsed[a] < WorstCaseInFlight
             THEN elapsed[a] + 1 ELSE elapsed[a]) \in 0 .. WorstCaseInFlight
      BY BoundsAssumption DEF TypeOK
    <3> QED
      BY <1>5, <3>1 DEF Tick
  <2>4. sinceReap' \in [Workers -> 0 .. ReapInterval]
    <3>1. \A w \in Workers :
            (IF sinceReap[w] < ReapInterval
             THEN sinceReap[w] + 1 ELSE sinceReap[w]) \in 0 .. ReapInterval
      BY BoundsAssumption DEF TypeOK
    <3> QED
      BY <1>5, <3>1 DEF Tick
  <2> QED
    BY <1>5, <2>1, <2>2, <2>3, <2>4 DEF Tick, TypeOK, Busy, InFlight
<1> QED
  BY <1>1, <1>2, <1>3, <1>4, <1>5

LEMMA TypeOKStep == TypeOK /\ [Next]_vars => TypeOK'
<1> SUFFICES ASSUME TypeOK, [Next]_vars
             PROVE  TypeOK'
  OBVIOUS
<1>1. CASE UNCHANGED vars
  BY <1>1 DEF vars, TypeOK, TablesTypeOK, Busy, InFlight
<1>2. CASE \E w \in Workers : WorkerStep(w)
  BY <1>2, TypeOKQueueStep, TypeOKAttempt, ProceedSteps DEF WorkerStep
<1>3. CASE \/ \E o \in Operators : RetryStep(o)
           \/ \E a \in Misled : LoadAfterUnconfirmed(a)
  BY <1>3, TypeOKAttempt, ProceedSteps
<1>4. CASE FaultStep
  BY <1>4, TypeOKQueueStep, TypeOKEnvironment, TypeOKAttempt, ProceedSteps
     DEF FaultStep
<1>5. CASE \/ \E r \in Raws : Ingest(r)
           \/ \E o \in Operators : \E r \in Raws : Acquire(o, r) \/ Refuse(o, r)
           \/ Tick
  BY <1>5, TypeOKEnvironment
<1> QED
  BY <1>1, <1>2, <1>3, <1>4, <1>5 DEF Next

\* The queue's state is well typed in every reachable state, whatever the
\* numbers of raw events, workers and retries, and whatever crashes.
THEOREM TypeCorrect == Spec => []TypeOK
BY TypeOKInit, TypeOKStep, PTL DEF Spec

\* The persists are the only steps that change the tables.
LEMMA TablesStep ==
    ASSUME Next
    PROVE  \/ UNCHANGED tables
           \/ \E a \in Actors : Persist(a) \/ PersistUnconfirmed(a)
<1> SUFFICES ASSUME ~(\E a \in Actors : Persist(a) \/ PersistUnconfirmed(a))
             PROVE  UNCHANGED tables
  OBVIOUS
<1>1. ASSUME NEW a \in Actors, Proceeds(a)
      PROVE  UNCHANGED tables
  BY <1>1
     DEF Proceeds, Attempt, ClassifyOk, ClassifyFailed, PersistFailed, MarkFailed,
         LoadAfterUnconfirmed, RecordRetryFailure
<1>2. ASSUME NEW w \in Workers, WorkerStep(w)
      PROVE  UNCHANGED tables
  BY <1>1, <1>2, ProceedSteps
     DEF WorkerStep, Reap, Claim, CommitClaim, NothingToClaim, Wake
<1>3. CASE FaultStep
  BY <1>3, ProceedSteps
     DEF FaultStep, ReapFailed, ClaimUnconfirmed, ClaimFailed, Crash, ApiCrash,
         RecordLost
<1>4. CASE \/ \E r \in Raws : Ingest(r)
           \/ \E o \in Operators : \E r \in Raws : Acquire(o, r) \/ Refuse(o, r)
           \/ Tick
  BY <1>4 DEF Ingest, Acquire, Refuse, Tick
<1> QED
  BY <1>1, <1>2, <1>3, <1>4, ProceedSteps DEF Next

\* A persist is one of an answer in hand for a row in hand.
LEMMA PersistedAnswer ==
    ASSUME TypeOK, NEW a \in Actors, Persist(a) \/ PersistUnconfirmed(a)
    PROVE  /\ job[a] \in Raws /\ result[a] \in Results
           /\ PersistTables(job[a], result[a])
BY DEF Persist, PersistUnconfirmed, TypeOK, Busy, InFlight

LEMMA RollbackStep == TypeOK /\ [Next]_vars => [EntitiesAdvance]_tables
<1> SUFFICES ASSUME TypeOK, Next, ~(UNCHANGED tables)
             PROVE  EntitiesAdvance
  BY DEF vars, tables
<1> QED
  BY TablesStep, PersistedAnswer, PersistTablesAdvance DEF TypeOK

\* No step of the queue rolls an entity back: with retries racing the workers,
\* a classifier that changes its answers, lost confirmations and crashes.
THEOREM NoRollback == Spec => NeverRollsBack
BY RollbackStep, TypeCorrect, PTL DEF Spec, NeverRollsBack

-----------------------------------------------------------------------------
(***************************************************************************)
(* The steps of one actor, by what they do to the rows and to its locals.  *)
(* The invariants below are about one row and the actors that have it in   *)
(* hand; a class is one case of their proofs.                              *)
(***************************************************************************)
Alone(a) ==
    \A b \in Actors : b # a =>
        /\ pc'[b] = pc[b] /\ job'[b] = job[b]
        /\ loaded'[b] = loaded[b] /\ elapsed'[b] = elapsed[b]

RowsExcept(r) == \A q \in Raws : q # r => row'[q] = row[q]

SameRow(a) == job'[a] = job[a] /\ elapsed'[a] = elapsed[a]

\* The actor ends up without a row and has written none.
Idles(a) == ~Busy(a)' /\ row' = row

Sweeps(w) ==
    /\ ~Busy(w)'
    /\ \A r \in Raws :
          row'[r] = row[r] \/ (r \in MaybeStale /\ row'[r] = Reaped(row[r]))

LocksRow(w, r) ==
    /\ w \in Workers /\ Claimable(r) /\ row' = row
    /\ pc'[w] = "claiming" /\ job'[w] = r /\ elapsed'[w] = 0

\* The claim's COMMIT, confirmed or not.
TakesRow(w) ==
    /\ w \in Workers /\ pc[w] = "claiming"
    /\ row'[job[w]] = ClaimedRow(row[job[w]], elapsed[w]) /\ RowsExcept(job[w])
    /\ ~Busy(w)' \/ (pc'[w] = "classify" /\ SameRow(w))

AcquiresRow(o, r) ==
    /\ o \in Operators /\ ~ClaimLocked(r) /\ ~RetryRefuses(row[r])
    /\ row'[r] = AcquiredRow(row[r]) /\ RowsExcept(r)
    /\ pc'[o] = "classify" /\ job'[o] = r /\ elapsed'[o] = 0

LoadsRow(a) ==
    /\ pc[a] \in {"classify", "persist", "unconfirmed"}
    /\ pc'[a] = "persist" \/ pc'[a] = "record"
    /\ pc[a] = "unconfirmed" => pc'[a] = "record"
    /\ row' = row /\ loaded'[a] = row[job[a]] /\ SameRow(a)

\* The COMMIT of a persist, confirmed or not, and those of the failures.
WritesRow(a, dirty) ==
    /\ ~ClaimLocked(job[a]) /\ RowsExcept(job[a])
    /\ row'[job[a]] = Flushed(row[job[a]], loaded[a], dirty)

SettlesRow(a) ==
    /\ pc[a] = "persist"
    /\ WritesRow(a, [loaded[a] EXCEPT !.status = "processed"])
    /\ ~Busy(a)' \/ (a \in Misled /\ pc'[a] = "unconfirmed" /\ SameRow(a))

RecordsFailure(a) ==
    /\ pc[a] = "record" /\ ~Busy(a)'
    /\ \/ a \in Workers /\ WritesRow(a, FailedRow(loaded[a]))
       \/ a \in Operators /\ WritesRow(a, RetriedRow(loaded[a]))

ActorStep(a) ==
    /\ Alone(a)
    /\ \/ Idles(a) \/ Sweeps(a) \/ (\E r \in Raws : LocksRow(a, r)) \/ TakesRow(a)
       \/ (\E r \in Raws : AcquiresRow(a, r)) \/ LoadsRow(a) \/ SettlesRow(a)
       \/ RecordsFailure(a)

LEMMA LeaveAlone ==
    ASSUME TypeOK, NEW a \in Actors, NEW to, Leave(a, to)
    PROVE  Alone(a) /\ pc'[a] = to
BY DEF TypeOK, Leave, Alone

LEMMA WorkerActs ==
    ASSUME TypeOK, NEW w \in Workers,
           \/ Reap(w) \/ ReapFailed(w) \/ NothingToClaim(w) \/ Wake(w)
           \/ CommitClaim(w) \/ \E r \in Raws : Claim(w, r)
    PROVE  ActorStep(w)
<1>0. w \in Actors
  BY DEF Actors
<1>1. CASE Reap(w)
  <2>1. Alone(w) /\ ~Busy(w)'
    BY <1>0, <1>1 DEF Reap, AfterReap, Alone, TypeOK, Busy, InFlight
  <2>2. Sweeps(w)
    BY <1>1, <2>1 DEF Reap, Sweeps
  <2> QED
    BY <2>1, <2>2 DEF ActorStep
<1>2. CASE ReapFailed(w) \/ NothingToClaim(w) \/ Wake(w)
  <2>1. Alone(w) /\ pc'[w] \in {"top", "claim", "sleep"} /\ row' = row
    BY <1>0, <1>2 DEF ReapFailed, NothingToClaim, Wake, AfterReap, Alone, TypeOK
  <2> QED
    BY <2>1 DEF ActorStep, Idles, Busy, InFlight
<1>3. ASSUME NEW r \in Raws, Claim(w, r)
      PROVE  ActorStep(w)
  <2>1. Alone(w) /\ LocksRow(w, r)
    BY <1>0, <1>3 DEF Claim, Alone, LocksRow, TypeOK
  <2> QED
    BY <2>1 DEF ActorStep
<1>4. CASE CommitClaim(w)
  <2>1. job[w] \in Raws
    BY <1>0, <1>4 DEF CommitClaim, TypeOK, Busy
  <2>2. Alone(w) /\ pc'[w] = "classify"
    BY <1>0, <1>4 DEF CommitClaim, Alone, TypeOK
  <2>3. TakesRow(w)
    BY <1>0, <1>4, <2>1, <2>2 DEF CommitClaim, TakesRow, RowsExcept, SameRow, TypeOK
  <2> QED
    BY <2>2, <2>3 DEF ActorStep
<1> QED
  BY <1>1, <1>2, <1>3, <1>4

LEMMA RowActs ==
    ASSUME TypeOK, NEW a \in Actors,
           Proceeds(a) \/ (a \in Misled /\ PersistUnconfirmed(a))
    PROVE  ActorStep(a)
<1>1. ASSUME \/ \E e \in Results : ClassifyOk(a, e)
             \/ ClassifyFailed(a) \/ PersistFailed(a) \/ LoadAfterUnconfirmed(a)
      PROVE  ActorStep(a)
  <2>1. Alone(a)
    BY <1>1 DEF ClassifyOk, ClassifyFailed, PersistFailed, LoadAfterUnconfirmed,
                Load, Alone, TypeOK
  <2>2. LoadsRow(a)
    BY <1>1 DEF ClassifyOk, ClassifyFailed, PersistFailed, LoadAfterUnconfirmed,
                Load, LoadsRow, SameRow, TypeOK
  <2> QED
    BY <2>1, <2>2 DEF ActorStep
<1>2. ASSUME InFlight(a), NEW dirty, ~ClaimLocked(job[a]),
             row' = [row EXCEPT ![job[a]] = Flushed(row[job[a]], loaded[a], dirty)]
      PROVE  WritesRow(a, dirty)
  <2>1. job[a] \in Raws
    BY <1>2 DEF TypeOK, Busy
  <2> QED
    BY <1>2, <2>1 DEF WritesRow, RowsExcept, TypeOK
<1>3. CASE Persist(a)
  <2>1. Alone(a) /\ pc'[a] \in {"top", "done"}
    BY <1>3, LeaveAlone DEF Persist, After
  <2>2. WritesRow(a, [loaded[a] EXCEPT !.status = "processed"])
    BY <1>2, <1>3 DEF Persist, PersistedRow, InFlight
  <2> QED
    BY <1>3, <2>1, <2>2 DEF ActorStep, SettlesRow, Persist, Busy, InFlight
<1>4. CASE a \in Misled /\ PersistUnconfirmed(a)
  <2>1. Alone(a) /\ pc'[a] = "unconfirmed" /\ SameRow(a)
    BY <1>4 DEF PersistUnconfirmed, Alone, SameRow, TypeOK
  <2>2. WritesRow(a, [loaded[a] EXCEPT !.status = "processed"])
    BY <1>2, <1>4 DEF PersistUnconfirmed, PersistedRow, InFlight
  <2> QED
    BY <1>4, <2>1, <2>2 DEF ActorStep, SettlesRow, PersistUnconfirmed
<1>5. CASE a \in Workers /\ MarkFailed(a)
  <2>1. Alone(a) /\ pc'[a] = "top"
    BY <1>5, LeaveAlone DEF MarkFailed
  <2>2. WritesRow(a, FailedRow(loaded[a]))
    BY <1>2, <1>5 DEF MarkFailed, InFlight
  <2> QED
    BY <1>5, <2>1, <2>2 DEF ActorStep, RecordsFailure, MarkFailed, Busy, InFlight
<1>6. CASE a \in Operators /\ RecordRetryFailure(a)
  <2>1. Alone(a) /\ pc'[a] = "done"
    BY <1>6, LeaveAlone DEF RecordRetryFailure
  <2>2. WritesRow(a, RetriedRow(loaded[a]))
    BY <1>2, <1>6 DEF RecordRetryFailure, InFlight
  <2> QED
    BY <1>6, <2>1, <2>2
       DEF ActorStep, RecordsFailure, RecordRetryFailure, Busy, InFlight
<1> QED
  BY <1>1, <1>3, <1>4, <1>5, <1>6 DEF Proceeds, Attempt

LEMMA RetryActs ==
    ASSUME TypeOK, NEW o \in Operators, NEW r \in Raws, Acquire(o, r) \/ Refuse(o, r)
    PROVE  ActorStep(o)
<1>0. o \in Actors
  BY DEF Actors
<1>1. CASE Acquire(o, r)
  <2>1. Alone(o) /\ AcquiresRow(o, r)
    BY <1>0, <1>1 DEF Acquire, Alone, AcquiresRow, RowsExcept, TypeOK
  <2> QED
    BY <2>1 DEF ActorStep
<1>2. CASE Refuse(o, r)
  <2>1. Alone(o) /\ pc'[o] = "done" /\ row' = row
    BY <1>0, <1>2 DEF Refuse, Alone, TypeOK
  <2> QED
    BY <2>1 DEF ActorStep, Idles, Busy, InFlight
<1> QED
  BY <1>1, <1>2

LEMMA FaultActs ==
    ASSUME TypeOK, FaultStep
    PROVE  \E a \in Actors : ActorStep(a)
<1>1. ASSUME NEW a \in Actors, NEW to \in {"sleep", "boot", "done"}, Leave(a, to),
             row' = row
      PROVE  ActorStep(a)
  BY <1>1, LeaveAlone DEF ActorStep, Idles, Busy, InFlight
<1>2. ASSUME NEW w \in Workers, ClaimFailed(w) \/ Crash(w)
      PROVE  ActorStep(w)
  BY <1>1, <1>2 DEF ClaimFailed, Crash, Actors
<1>3. ASSUME NEW o \in Operators, ApiCrash(o)
      PROVE  ActorStep(o)
  BY <1>1, <1>3 DEF ApiCrash, Actors
<1>4. ASSUME NEW a \in Actors, RecordLost(a)
      PROVE  ActorStep(a)
  BY <1>1, <1>4 DEF RecordLost
<1>5. ASSUME NEW w \in Workers, ClaimUnconfirmed(w)
      PROVE  ActorStep(w)
  <2>1. w \in Actors /\ job[w] \in Raws
    BY <1>5 DEF ClaimUnconfirmed, TypeOK, Busy, Actors
  <2>2. Alone(w) /\ pc'[w] = "sleep"
    BY <1>5, <2>1, LeaveAlone DEF ClaimUnconfirmed
  <2>3. TakesRow(w)
    BY <1>5, <2>1, <2>2
       DEF ClaimUnconfirmed, TakesRow, RowsExcept, TypeOK, Busy, InFlight
  <2> QED
    BY <2>2, <2>3 DEF ActorStep
<1> QED
  BY <1>2, <1>3, <1>4, <1>5, WorkerActs, RowActs, MisledAssumption
     DEF FaultStep, Actors

\* Every step of the queue is the passing of time, an arrival or an actor's.
LEMMA StepCases ==
    ASSUME TypeOK, Next
    PROVE  \/ Tick
           \/ \E r \in Raws : Ingest(r)
           \/ \E a \in Actors : ActorStep(a)
BY WorkerActs, RowActs, RetryActs, FaultActs, ProceedSteps DEF Next, WorkerStep

-----------------------------------------------------------------------------
(***************************************************************************)
(* The reaper, with operators at work and every fault.  A row that several *)
(* actors have in hand carries the locked_at of the last of them to take   *)
(* it, so no holder is younger in flight than the row is in processing,    *)
(* but for the slow ones, whose time in flight stops at the bound; and     *)
(* while a claim's transaction is open nobody else writes its row.         *)
(***************************************************************************)
LockAgeInv ==
    /\ \A a \in Actors \ Slow :
          InFlight(a) => row[job[a]].locked_at <= elapsed[a]
    /\ \A w \in Actors : pc[w] = "claiming" =>
          /\ row[job[w]].status = "pending"
          /\ \A a \in Actors : Busy(a) /\ job[a] = job[w] =>
                /\ elapsed[w] <= elapsed[a]
                /\ pc[a] = "claiming" => a = w

BusyInv == TypeOK /\ LockAgeInv

LEMMA BusyFacts ==
    ASSUME TypeOK
    PROVE  /\ \A a \in Actors : Busy(a) => job[a] \in Raws /\ row[job[a]] \in Rows
           /\ \A r \in Raws : row[r] \in Rows /\ row[r].locked_at \in Int
           /\ \A a \in Actors : elapsed[a] \in Nat /\ loaded[a] \in Rows
                                /\ elapsed[a] + MaxClockSkew <= StaleLock
           /\ \A a \in Actors : pc[a] = "claiming" => a \in Workers
<1>1. \A r \in Raws : row[r] \in Rows /\ row[r].locked_at \in Int
  <2>1. Ages \cup {NotLocked} \subseteq Int
    BY AgesFacts DEF NotLocked
  <2>2. \A x \in Rows : x.locked_at \in Int
    BY <2>1 DEF Rows
  <2> QED
    BY <2>2 DEF TypeOK
<1>2. \A a \in Actors : elapsed[a] \in Nat /\ elapsed[a] + MaxClockSkew <= StaleLock
  BY ElapsedFacts DEF TypeOK
<1>3. \A a \in Actors : pc[a] = "claiming" => a \in Workers
  BY DEF TypeOK, Actors, OperatorPCs
<1> QED
  BY <1>1, <1>2, <1>3 DEF TypeOK

LEMMA BusyIsSpared == BusyInv => ReaperSparesTheBusy
<1> SUFFICES ASSUME BusyInv, NEW r \in MaybeStale, NEW a \in Actors,
                    Busy(a), ~MayOverrun(a), job[a] = r
             PROVE  FALSE
  BY DEF ReaperSparesTheBusy
<1>1. /\ row[job[a]].status = "processing"
      /\ row[job[a]].locked_at + MaxClockSkew > StaleLock
  BY DEF MaybeStale, Stale
<1>2. row[job[a]].locked_at \in Int /\ elapsed[a] \in Nat
      /\ elapsed[a] + MaxClockSkew <= StaleLock
  BY BusyFacts DEF BusyInv
<1>3. InFlight(a) => row[job[a]].locked_at <= elapsed[a]
  BY DEF BusyInv, LockAgeInv, MayOverrun
<1>4. pc[a] = "claiming" => row[job[a]].status = "pending"
  BY DEF BusyInv, LockAgeInv
<1> QED
  BY <1>1, <1>2, <1>3, <1>4, BoundsAssumption DEF Busy

\* One actor moves, and the rows that others have in hand keep their claims'
\* statuses and get no older.
LEMMA LockAgeKept ==
    ASSUME BusyInv, TypeOK', NEW a \in Actors, Alone(a),
           \A b \in Actors \ Slow : b # a /\ InFlight(b) =>
               row'[job[b]].locked_at <= elapsed[b],
           \A w \in Actors : w # a /\ pc[w] = "claiming" =>
               row'[job[w]].status = "pending",
           \* a, with its row
           InFlight(a)' /\ a \notin Slow =>
               row'[job'[a]].locked_at <= elapsed'[a],
           pc'[a] = "claiming" =>
               /\ row'[job'[a]].status = "pending"
               /\ \A b \in Actors : b # a /\ Busy(b) /\ job[b] = job'[a] =>
                     elapsed'[a] <= elapsed[b] /\ pc[b] # "claiming",
           Busy(a)' => \A w \in Actors :
               w # a /\ pc[w] = "claiming" /\ job[w] = job'[a] =>
                   elapsed[w] <= elapsed'[a] /\ pc'[a] # "claiming"
    PROVE  LockAgeInv'
<1>1. \A b \in Actors \ Slow :
          InFlight(b)' => row'[job'[b]].locked_at <= elapsed'[b]
  BY DEF Alone, InFlight
<1>2. ASSUME NEW w \in Actors, pc'[w] = "claiming"
      PROVE  /\ row'[job'[w]].status = "pending"
             /\ \A b \in Actors : Busy(b)' /\ job'[b] = job'[w] =>
                   /\ elapsed'[w] <= elapsed'[b]
                   /\ pc'[b] = "claiming" => b = w
  <2>1. CASE w = a
    <3>1. elapsed'[a] <= elapsed'[a]
      <4>1. elapsed'[a] \in 0 .. WorstCaseInFlight
        BY DEF TypeOK
      <4> QED
        BY <4>1
    <3> QED
      BY <1>2, <2>1, <3>1 DEF Alone, Busy, InFlight
  <2>2. CASE w # a
    BY <1>2, <2>2 DEF Alone, Busy, InFlight, BusyInv, LockAgeInv
  <2> QED
    BY <2>1, <2>2
<1> QED
  BY <1>1, <1>2 DEF LockAgeInv

\* The copies that are written back leave locked_at alone or clear it.
LEMMA DirtyCopies ==
    ASSUME NEW x \in Rows
    PROVE  /\ [x EXCEPT !.status = "processed"].locked_at = x.locked_at
           /\ RetriedRow(x).locked_at = x.locked_at
           /\ FailedRow(x).locked_at = NotLocked
BY DEF Rows, RetriedRow, FailedRow

LEMMA LockAgeWrite ==
    ASSUME BusyInv, TypeOK', NEW a \in Actors, InFlight(a), Alone(a), NEW dirty,
           WritesRow(a, dirty), dirty.locked_at \in {loaded[a].locked_at, NotLocked},
           ~Busy(a)' \/ (pc'[a] = "unconfirmed" /\ SameRow(a))
    PROVE  LockAgeInv'
<1> DEFINE r == job[a]
<1>1. r \in Raws /\ row[r].locked_at \in Int
  BY BusyFacts DEF BusyInv, Busy
<1>2. row'[r].locked_at = row[r].locked_at \/ row'[r].locked_at = -1
  BY DEF WritesRow, Flushed, NotLocked
<1>3. \A b \in Actors \ Slow : InFlight(b) => row'[job[b]].locked_at <= elapsed[b]
  <2> SUFFICES ASSUME NEW b \in Actors \ Slow, InFlight(b)
               PROVE  row'[job[b]].locked_at <= elapsed[b]
    OBVIOUS
  <2>1. /\ job[b] \in Raws /\ elapsed[b] \in Nat
        /\ row[job[b]].locked_at <= elapsed[b]
    BY BusyFacts DEF BusyInv, LockAgeInv, Busy
  <2>2. CASE job[b] = r
    BY <1>2, <2>1, <2>2
  <2>3. CASE job[b] # r
    BY <2>1, <2>3 DEF WritesRow, RowsExcept
  <2> QED
    BY <2>2, <2>3
<1>4. \A w \in Actors : pc[w] = "claiming" => job[w] # r /\ job[w] \in Raws
  BY BusyFacts DEF BusyInv, Busy, WritesRow, ClaimLocked
<1>5. \A w \in Actors : pc[w] = "claiming" => row'[job[w]].status = "pending"
  BY <1>4 DEF WritesRow, RowsExcept, BusyInv, LockAgeInv
<1>6. /\ pc'[a] # "claiming"
      /\ InFlight(a)' => job'[a] = r /\ elapsed'[a] = elapsed[a]
      /\ Busy(a)' => job'[a] = r
  BY DEF Busy, InFlight, SameRow
<1> HIDE DEF r
<1>7. InFlight(a)' /\ a \notin Slow => row'[job'[a]].locked_at <= elapsed'[a]
  <2>1. a \notin Slow => row'[r].locked_at <= elapsed[a]
    BY <1>3 DEF r
  <2> QED
    BY <1>6, <2>1
<1> QED
  BY <1>3, <1>4, <1>5, <1>6, <1>7, LockAgeKept

\* Steps that leave every row in hand as it is.
LEMMA LockAgeRowsKept ==
    ASSUME BusyInv, TypeOK', NEW a \in Actors, Alone(a),
           \A b \in Actors :
               Busy(b) /\ ~MayOverrun(b) => row'[job[b]] = row[job[b]],
           \/ ~Busy(a)'
           \/ InFlight(a) /\ InFlight(a)' /\ SameRow(a)
    PROVE  LockAgeInv'
<1>1. /\ \A b \in Actors \ Slow : InFlight(b) => row'[job[b]].locked_at <= elapsed[b]
      /\ \A w \in Actors : pc[w] = "claiming" => row'[job[w]].status = "pending"
  BY DEF BusyInv, LockAgeInv, Busy, InFlight, MayOverrun
<1>2. CASE ~Busy(a)'
  BY <1>1, <1>2, LockAgeKept DEF Busy
<1>3. CASE InFlight(a) /\ InFlight(a)' /\ SameRow(a)
  <2>1. pc'[a] # "claiming" /\ job'[a] = job[a] /\ elapsed'[a] = elapsed[a]
    BY <1>3 DEF InFlight, SameRow
  <2>2. \A w \in Actors : pc[w] = "claiming" /\ job[w] = job[a] =>
            elapsed[w] <= elapsed[a]
    BY <1>3 DEF BusyInv, LockAgeInv, Busy
  <2> QED
    BY <1>1, <1>3, <2>1, <2>2, LockAgeKept
<1> QED
  BY <1>2, <1>3

LEMMA LockAgeClaims ==
    ASSUME BusyInv, TypeOK', NEW a \in Actors, Alone(a),
           (\E r \in Raws : LocksRow(a, r)) \/ TakesRow(a)
    PROVE  LockAgeInv'
<1>1. ASSUME NEW r \in Raws, LocksRow(a, r)
      PROVE  LockAgeInv'
  <2>1. /\ row' = row /\ pc'[a] = "claiming" /\ job'[a] = r /\ elapsed'[a] = 0
        /\ row[r].status = "pending"
    BY <1>1 DEF LocksRow, Claimable
  <2>2. \A w \in Actors : pc[w] = "claiming" => job[w] # r
    BY <1>1, BusyFacts DEF LocksRow, Claimable, ClaimLocked, BusyInv
  <2>3. \A b \in Actors : 0 <= elapsed[b]
    BY BusyFacts DEF BusyInv
  <2>4. /\ \A b \in Actors \ Slow : InFlight(b) => row'[job[b]].locked_at <= elapsed[b]
        /\ \A w \in Actors : pc[w] = "claiming" => row'[job[w]].status = "pending"
    BY <2>1 DEF BusyInv, LockAgeInv
  <2>5. ~InFlight(a)'
    BY <2>1 DEF InFlight
  <2> QED
    BY <2>1, <2>2, <2>3, <2>4, <2>5, LockAgeKept
<1>2. CASE TakesRow(a)
  <2> DEFINE r == job[a]
  <2>1. /\ pc[a] = "claiming" /\ r \in Raws /\ row[r] \in Rows /\ Busy(a)
        /\ row'[r] = ClaimedRow(row[r], elapsed[a])
        /\ RowsExcept(r) /\ elapsed[a] \in Nat
    BY <1>2, BusyFacts DEF TakesRow, BusyInv, Busy
  <2>2. row'[r].locked_at = elapsed[a]
    BY <2>1 DEF ClaimedRow, Rows
  <2>3. \A w \in Actors : w # a /\ pc[w] = "claiming" => job[w] # r /\ job[w] \in Raws
    BY <2>1, BusyFacts DEF BusyInv, LockAgeInv, Busy
  <2>4. \A b \in Actors \ Slow : InFlight(b) => row'[job[b]].locked_at <= elapsed[b]
    <3> SUFFICES ASSUME NEW b \in Actors \ Slow, InFlight(b)
                 PROVE  row'[job[b]].locked_at <= elapsed[b]
      OBVIOUS
    <3>1. CASE job[b] = r
      BY <2>1, <2>2, <3>1 DEF BusyInv, LockAgeInv, Busy
    <3>2. CASE job[b] # r
      BY <2>1, <3>2, BusyFacts DEF RowsExcept, BusyInv, LockAgeInv, Busy
    <3> QED
      BY <3>1, <3>2
  <2>5. \A w \in Actors : w # a /\ pc[w] = "claiming" => row'[job[w]].status = "pending"
    BY <2>1, <2>3 DEF RowsExcept, BusyInv, LockAgeInv
  <2>6. /\ pc'[a] # "claiming"
        /\ Busy(a)' => job'[a] = r /\ elapsed'[a] = elapsed[a]
    BY <1>2 DEF TakesRow, SameRow, Busy, InFlight
  <2>7. elapsed[a] <= elapsed[a]
    BY <2>1
  <2> HIDE DEF r
  <2>8. InFlight(a)' => row'[job'[a]].locked_at <= elapsed'[a]
    BY <2>2, <2>6, <2>7 DEF Busy
  <2> QED
    BY <2>3, <2>4, <2>5, <2>6, <2>8, LockAgeKept
<1> QED
  BY <1>1, <1>2

LEMMA LockAgeAcquire ==
    ASSUME BusyInv, TypeOK', NEW a \in Actors, Alone(a), NEW r \in Raws,
           AcquiresRow(a, r)
    PROVE  LockAgeInv'
<1>1. /\ row'[r] = AcquiredRow(row[r]) /\ RowsExcept(r)
      /\ pc'[a] = "classify" /\ job'[a] = r /\ elapsed'[a] = 0
      /\ \A w \in Actors : pc[w] = "claiming" => job[w] # r /\ job[w] \in Raws
  BY BusyFacts DEF AcquiresRow, ClaimLocked, BusyInv, Busy
<1>2. row'[r].locked_at = 0
  BY <1>1 DEF AcquiredRow
<1>3. \A b \in Actors \ Slow : InFlight(b) => row'[job[b]].locked_at <= elapsed[b]
  <2> SUFFICES ASSUME NEW b \in Actors \ Slow, InFlight(b)
               PROVE  row'[job[b]].locked_at <= elapsed[b]
    OBVIOUS
  <2>1. CASE job[b] = r
    BY <1>2, <2>1, BusyFacts DEF BusyInv
  <2>2. CASE job[b] # r
    BY <1>1, <2>2, BusyFacts DEF RowsExcept, BusyInv, LockAgeInv, Busy
  <2> QED
    BY <2>1, <2>2
<1>4. \A w \in Actors : pc[w] = "claiming" => row'[job[w]].status = "pending"
  BY <1>1 DEF RowsExcept, BusyInv, LockAgeInv
<1>5. row'[job'[a]].locked_at <= elapsed'[a]
  BY <1>1, <1>2
<1> QED
  BY <1>1, <1>3, <1>4, <1>5, LockAgeKept

LEMMA LockAgeEnvironment ==
    ASSUME BusyInv, Tick \/ \E r \in Raws : Ingest(r)
    PROVE  LockAgeInv'
<1>1. pc' = pc /\ job' = job
  BY DEF Tick, Ingest
<1>2. \A a \in Actors : (Busy(a)' <=> Busy(a)) /\ (InFlight(a)' <=> InFlight(a))
  BY <1>1 DEF Busy, InFlight
<1>3. CASE Tick
  <2>1. /\ \A a \in Actors : Busy(a) /\ ~MayOverrun(a) => elapsed'[a] = elapsed[a] + 1
        /\ \A a \in Actors : Busy(a) => elapsed'[a] \in {elapsed[a], elapsed[a] + 1}
        /\ \A a \in Actors : Busy(a) /\ elapsed[a] < WorstCaseInFlight =>
              elapsed'[a] = elapsed[a] + 1
    BY <1>3 DEF Tick
  <2>2. ASSUME NEW a \in Actors, Busy(a)
        PROVE  row'[job[a]] = Aged(row[job[a]])
    BY <1>3, <2>2, BusyFacts DEF Tick, BusyInv
  <2>3. ASSUME NEW a \in Actors \ Slow, InFlight(a)
        PROVE  row'[job[a]].locked_at <= elapsed'[a]
    <3>1. /\ row[job[a]] \in Rows /\ row[job[a]].locked_at \in Int /\ Busy(a)
          /\ row[job[a]].locked_at <= elapsed[a] /\ elapsed[a] \in Nat
      BY <2>3, BusyFacts DEF BusyInv, LockAgeInv, Busy
    <3>2. row'[job[a]].locked_at = Older(row[job[a]].locked_at)
      BY <2>2, <3>1 DEF Aged, Rows
    <3>3. Older(row[job[a]].locked_at) <= elapsed[a] + 1
      BY <3>1 DEF Older
    <3> QED
      BY <2>1, <3>1, <3>2, <3>3 DEF MayOverrun
  <2>4. ASSUME NEW w \in Actors, pc[w] = "claiming"
        PROVE  /\ row'[job[w]].status = "pending"
               /\ \A a \in Actors : Busy(a) /\ job[a] = job[w] =>
                     elapsed'[w] <= elapsed'[a] /\ (pc[a] = "claiming" => a = w)
    <3>1. Busy(w) /\ row[job[w]] \in Rows /\ row[job[w]].status = "pending"
      BY <2>4, BusyFacts DEF BusyInv, LockAgeInv, Busy
    <3>2. row'[job[w]].status = "pending"
      BY <2>2, <3>1 DEF Aged, Rows
    <3>3. ASSUME NEW a \in Actors, Busy(a), job[a] = job[w]
          PROVE  elapsed'[w] <= elapsed'[a]
      <4>1. elapsed[w] <= elapsed[a] /\ elapsed[w] \in Nat /\ elapsed[a] \in Nat
        BY <2>4, <3>3, BusyFacts DEF BusyInv, LockAgeInv
      <4>2. elapsed'[w] = elapsed[w] + 1 /\ elapsed[w] < WorstCaseInFlight
        BY <1>3, <2>1, <2>4, <3>1 DEF Tick, MayOverrun, InFlight
      <4>3. CASE elapsed[a] < WorstCaseInFlight
        BY <2>1, <3>3, <4>1, <4>2, <4>3
      <4>4. CASE ~(elapsed[a] < WorstCaseInFlight)
        BY <2>1, <3>3, <4>1, <4>2, <4>4, BoundsAssumption
      <4> QED
        BY <4>3, <4>4
    <3> QED
      BY <2>4, <3>2, <3>3 DEF BusyInv, LockAgeInv
  <2> QED
    BY <1>1, <1>2, <2>3, <2>4 DEF LockAgeInv
<1>4. ASSUME NEW r \in Raws, Ingest(r)
      PROVE  LockAgeInv'
  <2>1. \A q \in Raws : q # r => row'[q] = row[q]
    BY <1>4 DEF Ingest, BusyInv, TypeOK
  <2>2. row'[r].locked_at = row[r].locked_at
    BY <1>4, BusyFacts DEF Ingest, BusyInv, TypeOK, Rows
  <2>3. \A a \in Actors : Busy(a) => row'[job[a]].locked_at = row[job[a]].locked_at
    BY <2>1, <2>2, BusyFacts DEF BusyInv
  <2>4. \A w \in Actors : pc[w] = "claiming" => row'[job[w]] = row[job[w]]
    BY <1>4, <2>1, BusyFacts DEF Ingest, BusyInv, LockAgeInv, Busy
  <2>5. elapsed' = elapsed
    BY <1>4 DEF Ingest
  <2> QED
    BY <1>1, <1>2, <2>3, <2>4, <2>5 DEF BusyInv, LockAgeInv, Busy
<1> QED
  BY <1>3, <1>4

LEMMA BusyInvStep == BusyInv /\ [Next]_vars => BusyInv'
<1> SUFFICES ASSUME BusyInv, [Next]_vars
             PROVE  LockAgeInv'
  BY TypeOKStep DEF BusyInv
<1>0. TypeOK /\ TypeOK'
  BY TypeOKStep DEF BusyInv
<1>1. CASE UNCHANGED vars
  BY <1>1 DEF vars, BusyInv, LockAgeInv, Busy, InFlight
<1>2. ASSUME NEW a \in Actors, Alone(a), Idles(a) \/ Sweeps(a)
      PROVE  LockAgeInv'
  <2>1. \A b \in Actors :
            Busy(b) /\ ~MayOverrun(b) => row'[job[b]] = row[job[b]]
    BY <1>2, BusyIsSpared, BusyFacts
       DEF Idles, Sweeps, ReaperSparesTheBusy, BusyInv
  <2> QED
    BY <1>0, <1>2, <2>1, LockAgeRowsKept DEF Idles, Sweeps
<1>3. ASSUME NEW a \in Actors, Alone(a), LoadsRow(a)
      PROVE  LockAgeInv'
  BY <1>0, <1>3, LockAgeRowsKept DEF LoadsRow, InFlight
<1>4. ASSUME NEW a \in Actors, Alone(a), SettlesRow(a) \/ RecordsFailure(a)
      PROVE  LockAgeInv'
  <2>1. InFlight(a) /\ loaded[a] \in Rows
    BY <1>0, <1>4, BusyFacts DEF SettlesRow, RecordsFailure, InFlight
  <2> QED
    BY <1>0, <1>4, <2>1, LockAgeWrite, DirtyCopies DEF SettlesRow, RecordsFailure
<1>5. ASSUME NEW a \in Actors, ActorStep(a)
      PROVE  LockAgeInv'
  BY <1>0, <1>2, <1>3, <1>4, <1>5, LockAgeClaims, LockAgeAcquire DEF ActorStep
<1> QED
  BY <1>0, <1>1, <1>5, LockAgeEnvironment, StepCases

\* No actor, worker or retry, that keeps to the worst case ever loses its row to
\* the reaper while it is busy with it: for any number of them on one row, with
\* slow ones among them, any skew within the bound of the clocks, and every
\* fault.  It rests on StaleLockAssumption.
THEOREM ReaperSpares == Spec => []ReaperSparesTheBusy
<1>1. Init => BusyInv
  BY TypeOKInit DEF Init, BusyInv, LockAgeInv, Busy, InFlight
<1> QED
  BY <1>1, BusyInvStep, BusyIsSpared, PTL DEF Spec

-----------------------------------------------------------------------------
(***************************************************************************)
(* One row and its worker.  That a row has one actor at most is not        *)
(* inductive: that a claim finds no other actor busy with the row, or that *)
(* the reaper does not re-pend a held row, follows from what the row says  *)
(* while it is held.  The invariant of a row is kept by every step but the *)
(* acquisition of that row by a retry, which does not ask who holds it; so *)
(* it is about every row if there are no retries, and about the rows that  *)
(* no retry has named if there are.  It rests on the window of the workers *)
(* all the same: a worker that may exceed the worst case loses its row.    *)
(***************************************************************************)
WorkersInTime == Workers \cap Slow = {}

\* What WorkerHoldsRow says of worker w's row after the claim.
Held(w) ==
    /\ row[job[w]].locked_at = elapsed[w]
    /\ \/ row[job[w]].status = "processing"
       \/ /\ pc[w] \in {"unconfirmed", "record"}
          /\ row[job[w]].status = "processed"

Holds(w) ==
    /\ w \in Workers
    /\ pc[w] = "claiming" => row[job[w]].status = "pending"
    /\ InFlight(w) => Held(w)

OwnedAt(r) ==
    \A a \in Actors : Busy(a) /\ job[a] = r =>
        /\ Holds(a)
        /\ \A b \in Actors : Busy(b) /\ job[b] = r => b = a

LEMMA HolderIsSpared ==
    ASSUME TypeOK, NEW r \in Raws, OwnedAt(r), NEW a \in Actors, Busy(a), job[a] = r
    PROVE  r \notin MaybeStale
<1>1. row[r].status = "pending" \/ row[r].locked_at = elapsed[a]
  BY DEF OwnedAt, Holds, Held, Busy
<1> QED
  BY <1>1, BusyFacts, BoundsAssumption DEF MaybeStale, Stale

\* The rows that the others have in hand stay as they are.
LEMMA OthersKeepRow ==
    ASSUME TypeOK, NEW r \in Raws, OwnedAt(r),
           NEW a \in Actors, ActorStep(a), ~AcquiresRow(a, r),
           NEW b \in Actors, b # a, Busy(b), job[b] = r
    PROVE  row'[r] = row[r]
<1>1. r \notin MaybeStale /\ ~(Busy(a) /\ job[a] = r)
  BY HolderIsSpared DEF OwnedAt
<1>2. CASE Idles(a) \/ LoadsRow(a) \/ \E q \in Raws : LocksRow(a, q)
  BY <1>2 DEF Idles, LoadsRow, LocksRow
<1>3. CASE Sweeps(a)
  BY <1>1, <1>3 DEF Sweeps
<1>4. CASE TakesRow(a) \/ SettlesRow(a) \/ RecordsFailure(a)
  BY <1>1, <1>4
     DEF TakesRow, SettlesRow, RecordsFailure, WritesRow, RowsExcept, Busy, InFlight
<1>5. CASE \E q \in Raws : AcquiresRow(a, q)
  BY <1>5 DEF AcquiresRow, RowsExcept
<1> QED
  BY <1>2, <1>3, <1>4, <1>5 DEF ActorStep

LEMMA OwnedKept ==
    ASSUME NEW r, OwnedAt(r), NEW a \in Actors, Alone(a),
           \A b \in Actors : b # a /\ Busy(b) /\ job[b] = r => row'[r] = row[r],
           Busy(a)' /\ job'[a] = r =>
               /\ Holds(a)'
               /\ \A b \in Actors : b # a /\ Busy(b) => job[b] # r
    PROVE  OwnedAt(r)'
<1> SUFFICES ASSUME NEW b \in Actors, Busy(b)', job'[b] = r
             PROVE  /\ Holds(b)'
                    /\ \A c \in Actors : Busy(c)' /\ job'[c] = r => c = b
  BY DEF OwnedAt
<1>1. CASE b = a
  BY <1>1 DEF Alone, Busy, InFlight
<1>2. CASE b # a
  <2>1. Busy(b) /\ job[b] = r /\ row'[r] = row[r]
    BY <1>2 DEF Alone, Busy, InFlight
  <2>2. Holds(b)'
    BY <1>2, <2>1 DEF OwnedAt, Holds, Held, Alone, InFlight
  <2>3. \A c \in Actors : Busy(c)' /\ job'[c] = r => c = b
    BY <1>2, <2>1 DEF OwnedAt, Alone, Busy, InFlight
  <2> QED
    BY <2>2, <2>3
<1> QED
  BY <1>1, <1>2

\* The actor that moves: a claim finds a pending row without a claim's lock,
\* which is nobody's; the others have their row already.
LEMMA OwnedActs ==
    ASSUME TypeOK, NEW r \in Raws, OwnedAt(r),
           NEW a \in Actors, ActorStep(a), ~AcquiresRow(a, r)
    PROVE  OwnedAt(r)'
<1>0. Alone(a) /\ \A b \in Actors : b # a /\ Busy(b) /\ job[b] = r => row'[r] = row[r]
  BY OthersKeepRow DEF ActorStep
<1> SUFFICES ASSUME Busy(a)', job'[a] = r
             PROVE  /\ Holds(a)'
                    /\ \A b \in Actors : b # a /\ Busy(b) => job[b] # r
  BY <1>0, OwnedKept
<1>1. CASE Idles(a) \/ Sweeps(a) \/ RecordsFailure(a)
  BY <1>1 DEF Idles, Sweeps, RecordsFailure
<1>2. CASE \E q \in Raws : AcquiresRow(a, q)
  BY <1>2 DEF AcquiresRow
<1>3. CASE LocksRow(a, r)
  <2>1. \A b \in Actors : Busy(b) => job[b] # r
    BY <1>3 DEF LocksRow, Claimable, ClaimLocked, OwnedAt, Holds, Held, Busy
  <2>2. Holds(a)'
    BY <1>3 DEF LocksRow, Claimable, Holds, InFlight
  <2> QED
    BY <2>1, <2>2
<1>4. CASE Busy(a) /\ SameRow(a)
  <2>1. /\ job[a] = r /\ elapsed'[a] = elapsed[a] /\ Holds(a) /\ row[r] \in Rows
        /\ \A b \in Actors : b # a /\ Busy(b) => job[b] # r
    BY <1>4, BusyFacts DEF SameRow, OwnedAt
  <2>2. CASE TakesRow(a)
    <3>1. pc'[a] = "classify" /\ row'[r] = ClaimedRow(row[r], elapsed[a])
      BY <2>1, <2>2 DEF TakesRow
    <3>2. row'[r].status = "processing" /\ row'[r].locked_at = elapsed[a]
      BY <2>1, <3>1 DEF ClaimedRow, Rows
    <3> QED
      BY <2>1, <3>1, <3>2 DEF Holds, Held
  <2>3. CASE LoadsRow(a)
    <3>1. Held(a) /\ pc'[a] # "claiming" /\ row' = row
          /\ (pc[a] \in {"unconfirmed", "record"} => pc'[a] \in {"unconfirmed", "record"})
      BY <2>1, <2>3 DEF LoadsRow, Holds, InFlight
    <3> QED
      BY <2>1, <3>1 DEF Holds, Held
  <2>4. CASE SettlesRow(a)
    <3>1. /\ pc[a] = "persist" /\ pc'[a] = "unconfirmed" /\ Held(a)
          /\ row'[r] = PersistedRow(a) /\ loaded[a] \in Rows
      BY <2>1, <2>4, BusyFacts
         DEF SettlesRow, WritesRow, PersistedRow, Holds, InFlight
    <3>2. PersistedRow(a).status \in {"processing", "processed"}
          /\ PersistedRow(a).locked_at = elapsed[a]
      BY <2>1, <3>1 DEF PersistedRow, Flushed, Held, Rows
    <3> QED
      BY <2>1, <3>1, <3>2 DEF Holds, Held
  <2>5. CASE \E q \in Raws : LocksRow(a, q)
    BY <1>3, <2>5 DEF LocksRow
  <2> QED
    BY <1>1, <1>2, <2>2, <2>3, <2>4, <2>5 DEF ActorStep
<1>5. TakesRow(a) \/ LoadsRow(a) \/ SettlesRow(a) => Busy(a) /\ SameRow(a)
  BY DEF TakesRow, LoadsRow, SettlesRow, Busy, InFlight
<1>6. (\E q \in Raws : LocksRow(a, q)) => LocksRow(a, r)
  BY DEF LocksRow
<1> QED
  BY <1>1, <1>2, <1>3, <1>4, <1>5, <1>6 DEF ActorStep

\* A row that arrives is nobody's; a tick ages a row and its holder's time in
\* flight alike.
LEMMA OwnedEnvironment ==
    ASSUME WorkersInTime, TypeOK, NEW r \in Raws, OwnedAt(r),
           Tick \/ \E q \in Raws : Ingest(q)
    PROVE  OwnedAt(r)'
<1>1. pc' = pc /\ job' = job
  BY DEF Tick, Ingest
<1> SUFFICES ASSUME NEW a \in Actors, Busy(a), job[a] = r
             PROVE  Holds(a)'
  BY <1>1 DEF OwnedAt, Busy, InFlight
<1>2. /\ Holds(a) /\ row[r] \in Rows /\ elapsed[a] \in Nat
      /\ elapsed[a] + MaxClockSkew <= StaleLock
  BY BusyFacts DEF OwnedAt
<1>3. CASE Tick
  <2>1. row'[r] = Aged(row[r]) /\ elapsed'[a] = elapsed[a] + 1
    BY <1>2, <1>3 DEF Tick, Holds, WorkersInTime, MayOverrun
  <2>2. Older(elapsed[a]) = elapsed[a] + 1
    BY <1>2, BoundsAssumption DEF Older, NotLocked, MaxAge
  <2>3. row'[r].status = row[r].status
        /\ (row[r].locked_at = elapsed[a] => row'[r].locked_at = elapsed'[a])
    BY <1>2, <2>1, <2>2 DEF Aged, Rows
  <2> QED
    BY <1>1, <1>2, <2>3 DEF Holds, Held, InFlight
<1>4. CASE \E q \in Raws : Ingest(q)
  <2>1. row[r].status # "absent"
    BY <1>2 DEF Holds, Held, Busy
  <2>2. row'[r] = row[r] /\ elapsed' = elapsed
    BY <1>4, <2>1 DEF Ingest, TypeOK
  <2> QED
    BY <1>1, <1>2, <2>2 DEF Holds, Held, InFlight
<1> QED
  BY <1>3, <1>4

LEMMA OwnedStep ==
    ASSUME WorkersInTime, TypeOK, NEW r \in Raws, OwnedAt(r), [Next]_vars,
           \A o \in Operators : ~AcquiresRow(o, r)
    PROVE  OwnedAt(r)'
<1>1. CASE UNCHANGED vars
  BY <1>1 DEF vars, OwnedAt, Holds, Held, Busy, InFlight
<1>2. \A a \in Actors : ~AcquiresRow(a, r)
  BY DEF AcquiresRow
<1>3. CASE Next
  BY <1>2, <1>3, StepCases, OwnedActs, OwnedEnvironment
<1> QED
  BY <1>1, <1>3

-----------------------------------------------------------------------------
(***************************************************************************)
(* Mutual exclusion of the workers when no operator retries.               *)
(***************************************************************************)
OwnerInv == TypeOK /\ \A r \in Raws : OwnedAt(r)

LEMMA NoRetries ==
    ASSUME Operators = {}
    PROVE  /\ Actors = Workers
           /\ \A o \in Operators, r \in Raws : ~AcquiresRow(o, r)
BY DEF Actors

LEMMA OwnerInvInit == Init => OwnerInv
BY TypeOKInit DEF Init, OwnerInv, OwnedAt, Busy, InFlight

LEMMA OwnerInvStep ==
    ASSUME Operators = {}, Slow = {}
    PROVE  OwnerInv /\ [Next]_vars => OwnerInv'
BY TypeOKStep, OwnedStep, NoRetries DEF OwnerInv, WorkersInTime

LEMMA OwnerInvAlways ==
    ASSUME Operators = {}, Slow = {}
    PROVE  Spec => []OwnerInv
BY OwnerInvInit, OwnerInvStep, PTL DEF Spec

LEMMA OwnersHold == OwnerInv => SoleOwner /\ WorkerHoldsRow
<1> SUFFICES ASSUME OwnerInv
             PROVE  SoleOwner /\ WorkerHoldsRow
  OBVIOUS
<1>1. SoleOwner
  BY BusyFacts DEF OwnerInv, OwnedAt, SoleOwner
<1>2. \A w \in Workers : Busy(w) => Holds(w)
  BY BusyFacts DEF OwnerInv, OwnedAt, Actors
<1>3. WorkerHoldsRow
  BY <1>2 DEF WorkerHoldsRow, Holds, Held, Busy
<1> QED
  BY <1>1, <1>3

\* Without operator retries, and while calls keep to the worst case, no two
\* workers are ever busy with the same raw event, whatever their number, the
\* order of their steps, and the crashes, failed sweeps and failed bookkeeping
\* transactions along the way.
THEOREM MutualExclusion ==
    ASSUME Operators = {}, Slow = {}
    PROVE  Spec => []SoleOwner
BY OwnerInvAlways, OwnersHold, PTL

\* Under the same hypotheses a row stays with the worker that holds it: the
\* reaper, other claims and late writes leave it alone.
THEOREM HeldRowsStay ==
    ASSUME Operators = {}, Slow = {}
    PROVE  Spec => []WorkerHoldsRow
BY OwnerInvAlways, OwnersHold, PTL

-----------------------------------------------------------------------------
(***************************************************************************)
(* Rows that are absent or set aside as duplicates, and processed rows,    *)
(* with operators at work: nobody holds one of the former, and whoever is  *)
(* about to persist holds an answer for its row.                           *)
(***************************************************************************)
Aside == {"absent", "duplicate"}

HoldersInv ==
    \A a \in Actors :
        /\ Busy(a) => row[job[a]].status \notin Aside
        /\ pc[a] = "persist" => result[a] \in Outcomes[job[a]]

HeldInv == TypeOK /\ HoldersInv

\* The answers that make an event of raw event r.
Answers(r) == Outcomes[r] \ {Unclassified}

\* Each event is of an answer for its raw event.
LogFromAnswers ==
    \A x \in events : \E e \in Answers(x.raw) : x = EventRow(x.raw, e)

\* What a step of the queue may do to a row, and to the log.
RowChanges ==
    /\ \A r \in Raws :
          /\ row[r].status \in Aside => /\ row'[r].status = row[r].status
                                        /\ row'[r].attempts = row[r].attempts
          /\ row[r].status \notin Aside => row'[r].status \notin Aside
          /\ row'[r].status = "processed" =>
              \/ row[r].status = "processed"
              \/ \E x \in events' : x.raw = r
              \/ Unclassified \in Outcomes[r]
    /\ events \subseteq events'
    /\ \A x \in events' : \/ x \in events
                          \/ /\ row[x.raw].status \notin Aside
                             /\ \E e \in Answers(x.raw) : x = EventRow(x.raw, e)

LEMMA SameRowsChanges ==
    ASSUME UNCHANGED <<row, events>>
    PROVE  RowChanges
BY DEF RowChanges

\* An actor writes the row it holds, without making it processed.
LEMMA OwnRowChanges ==
    ASSUME HeldInv, NEW r \in Raws, row[r].status \notin Aside, NEW y,
           row' = [row EXCEPT ![r] = y], UNCHANGED events, y.status \notin Aside,
           y.status # "processed" \/ row[r].status = "processed"
    PROVE  RowChanges
<1>1. \A q \in Raws : q # r => row'[q] = row[q]
  BY DEF HeldInv, TypeOK
<1>2. row'[r] = y
  BY DEF HeldInv, TypeOK
<1> QED
  BY <1>1, <1>2 DEF RowChanges

\* One actor moves; what it holds afterwards is nobody's duplicate.
LEMMA HoldersKept ==
    ASSUME HeldInv, RowChanges, NEW a \in Actors,
           \A b \in Actors : b # a =>
               pc'[b] = pc[b] /\ job'[b] = job[b] /\ result'[b] = result[b],
           Busy(a)' => job'[a] \in Raws /\ row[job'[a]].status \notin Aside,
           pc'[a] = "persist" => result'[a] \in Outcomes[job'[a]]
    PROVE  HoldersInv'
<1>1. \A b \in Actors : Busy(b) => job[b] \in Raws
  BY DEF HeldInv, TypeOK
<1> QED
  BY <1>1 DEF RowChanges, HeldInv, HoldersInv, Busy, InFlight

LEMMA HeldRow ==
    ASSUME HeldInv, NEW a \in Actors, Busy(a)
    PROVE  /\ job[a] \in Raws
           /\ row[job[a]] \in Rows
           /\ row[job[a]].status \notin Aside
BY DEF HeldInv, HoldersInv, TypeOK

LEMMA LeavingKeepsHolders ==
    ASSUME HeldInv, RowChanges, NEW a \in Actors, NEW to, Leave(a, to),
           to \notin {"claiming", "classify", "persist", "unconfirmed", "record"}
    PROVE  HoldersInv'
<1>1. pc'[a] = to
  BY DEF Leave, HeldInv, TypeOK
<1>2. \A b \in Actors : b # a =>
          pc'[b] = pc[b] /\ job'[b] = job[b] /\ result'[b] = result[b]
  BY DEF Leave, HeldInv, TypeOK
<1> QED
  BY <1>1, <1>2, HoldersKept DEF Busy, InFlight

LEMMA QueueHolders ==
    ASSUME HeldInv, NEW w \in Workers,
           \/ Reap(w) \/ ReapFailed(w) \/ NothingToClaim(w) \/ Wake(w)
           \/ CommitClaim(w) \/ \E r \in Raws : Claim(w, r)
    PROVE  RowChanges /\ HoldersInv'
<1>0. w \in Actors
  BY DEF Actors
<1>1. CASE Reap(w)
  <2>1. \A r \in Raws : \/ row'[r] = row[r]
                        \/ row[r].status = "processing" /\ row'[r] = Reaped(row[r])
    BY <1>1 DEF Reap, MaybeStale, Stale
  <2>2. \A r \in Raws : Reaped(row[r]).status = "pending"
    BY DEF Reaped, HeldInv, TypeOK, Rows
  <2>3. RowChanges
    BY <1>1, <2>1, <2>2 DEF RowChanges, Reap, tables, Aside
  <2>4. pc'[w] \in {"top", "claim"} /\ \A b \in Actors : b # w => pc'[b] = pc[b]
    BY <1>1, <1>0 DEF Reap, AfterReap, HeldInv, TypeOK
  <2> QED
    BY <1>0, <1>1, <2>3, <2>4, HoldersKept DEF Reap, Busy, InFlight
<1>2. CASE ReapFailed(w) \/ NothingToClaim(w) \/ Wake(w)
  <2>1. UNCHANGED <<row, events, job, result>>
    BY <1>2 DEF ReapFailed, NothingToClaim, Wake, tables
  <2>2. pc'[w] \in {"top", "claim", "sleep"}
        /\ \A b \in Actors : b # w => pc'[b] = pc[b]
    BY <1>0, <1>2 DEF ReapFailed, NothingToClaim, Wake, AfterReap, HeldInv, TypeOK
  <2> QED
    BY <1>0, <2>1, <2>2, SameRowsChanges, HoldersKept DEF Busy, InFlight
<1>3. ASSUME NEW r \in Raws, Claim(w, r)
      PROVE  RowChanges /\ HoldersInv'
  <2>1. row[r].status \notin Aside
    BY <1>3 DEF Claim, Claimable, Aside
  <2>2. pc'[w] = "claiming" /\ job'[w] = r
        /\ \A b \in Actors : b # w => pc'[b] = pc[b] /\ job'[b] = job[b]
    BY <1>0, <1>3 DEF Claim, HeldInv, TypeOK
  <2>3. UNCHANGED <<row, events, result>>
    BY <1>3 DEF Claim, tables
  <2> QED
    BY <1>0, <2>1, <2>2, <2>3, SameRowsChanges, HoldersKept
<1>4. CASE CommitClaim(w)
  <2>1. Busy(w)
    BY <1>4 DEF CommitClaim, Busy
  <2>2. ClaimedRow(row[job[w]], elapsed[w]).status = "processing"
    BY <1>0, <2>1, HeldRow DEF ClaimedRow, Rows
  <2>3. row' = [row EXCEPT ![job[w]] = ClaimedRow(row[job[w]], elapsed[w])]
        /\ UNCHANGED <<events, job, result>>
    BY <1>4 DEF CommitClaim, tables
  <2>4. RowChanges
    BY <1>0, <2>1, <2>2, <2>3, OwnRowChanges, HeldRow DEF Aside
  <2>5. pc'[w] = "classify" /\ \A b \in Actors : b # w => pc'[b] = pc[b]
    BY <1>0, <1>4 DEF CommitClaim, HeldInv, TypeOK
  <2> QED
    BY <1>0, <2>1, <2>3, <2>4, <2>5, HoldersKept, HeldRow
<1> QED
  BY <1>1, <1>2, <1>3, <1>4

\* The persist, confirmed or not, leaves its raw event with an event in the
\* log unless the answer calls for none, and logs nothing else.
LEMMA PersistLogs ==
    ASSUME NEW r \in Raws, NEW e \in Results, e \in Outcomes[r],
           PersistTables(r, e)
    PROVE  /\ events \subseteq events'
           /\ \A x \in events' :
                 \/ x \in events
                 \/ x = EventRow(r, e) /\ x.raw = r /\ e # Unclassified
           /\ \/ e = Unclassified
              \/ \E x \in events' : x.raw = r /\ x.entity.kind = e.kind
<1>1. CASE e.kind = "unclassified"
  BY <1>1, ResultCases DEF PersistTables, tables
<1>2. CASE e.kind # "unclassified"
  <2>1. /\ events' = EventsWith(r, e)
        /\ e # Unclassified
    BY <1>2 DEF PersistTables, Unclassified
  <2>2. EventRow(r, e).raw = r /\ EventRow(r, e).entity.kind = e.kind
    BY DEF EventRow, EntityKey
  <2>3. CASE RawEventIdTaken(r, e)
    BY <2>1, <2>3 DEF EventsWith, RawEventIdTaken
  <2>4. CASE ~RawEventIdTaken(r, e)
    BY <2>1, <2>2, <2>4 DEF EventsWith
  <2> QED
    BY <2>3, <2>4
<1> QED
  BY <1>1, <1>2

LEMMA PersistChanges ==
    ASSUME HeldInv, NEW a \in Actors, Persist(a) \/ PersistUnconfirmed(a)
    PROVE  RowChanges
<1> DEFINE r == job[a]
           e == result[a]
<1>1. Busy(a) /\ pc[a] = "persist"
  BY DEF Persist, PersistUnconfirmed, Busy, InFlight
<1>2. PersistTables(r, e) /\ row' = [row EXCEPT ![r] = PersistedRow(a)]
  BY DEF Persist, PersistUnconfirmed
<1>3. r \in Raws /\ row[r].status \notin Aside /\ e \in Outcomes[r] /\ e \in Results
  BY <1>1, HeldRow DEF HeldInv, HoldersInv, TypeOK
<1>4. /\ \A q \in Raws : q # r => row'[q] = row[q]
      /\ row'[r] = PersistedRow(a)
  BY <1>2, <1>3 DEF HeldInv, TypeOK
<1>5. PersistedRow(a).status \in {row[r].status, "processed"}
  BY DEF PersistedRow, Flushed, HeldInv, TypeOK, Rows
<1> HIDE DEF r, e
<1>6. /\ events \subseteq events'
      /\ \A x \in events' :
            \/ x \in events
            \/ x = EventRow(r, e) /\ x.raw = r /\ e # Unclassified
      /\ (\E x \in events' : x.raw = r) \/ Unclassified \in Outcomes[r]
  BY <1>2, <1>3, PersistLogs
<1> QED
  BY <1>3, <1>4, <1>5, <1>6 DEF RowChanges, Aside, Answers

LEMMA AttemptHolders ==
    ASSUME HeldInv, NEW a \in Actors, Proceeds(a) \/ PersistUnconfirmed(a)
    PROVE  RowChanges /\ HoldersInv'
<1>1. ASSUME NEW e \in Results, ClassifyOk(a, e)
      PROVE  RowChanges /\ HoldersInv'
  <2>1. /\ UNCHANGED <<row, events, job>>
        /\ Busy(a)
        /\ result'[a] \in Outcomes[job[a]]
        /\ \A b \in Actors : b # a => pc'[b] = pc[b] /\ result'[b] = result[b]
    BY <1>1 DEF ClassifyOk, HeldInv, TypeOK, tables, Busy, InFlight
  <2> QED
    BY <2>1, SameRowsChanges, HoldersKept, HeldRow
<1>2. CASE ClassifyFailed(a) \/ PersistFailed(a) \/ LoadAfterUnconfirmed(a)
  <2>1. /\ UNCHANGED <<row, events, job>>
        /\ Busy(a) /\ pc'[a] = "record"
        /\ \A b \in Actors : b # a => pc'[b] = pc[b] /\ result'[b] = result[b]
    BY <1>2 DEF ClassifyFailed, PersistFailed, LoadAfterUnconfirmed,
                HeldInv, TypeOK, tables, Busy, InFlight
  <2> QED
    BY <2>1, SameRowsChanges, HoldersKept, HeldRow
<1>3. CASE Persist(a)
  <2>1. Leave(a, After(a)) /\ After(a) \in {"top", "done"}
    BY <1>3 DEF Persist, After
  <2> QED
    BY <1>3, <2>1, PersistChanges, LeavingKeepsHolders
<1>4. CASE PersistUnconfirmed(a)
  <2>1. /\ UNCHANGED job
        /\ Busy(a) /\ pc'[a] = "unconfirmed"
        /\ \A b \in Actors : b # a => pc'[b] = pc[b] /\ result'[b] = result[b]
    BY <1>4 DEF PersistUnconfirmed, HeldInv, TypeOK, Busy, InFlight
  <2> QED
    BY <1>4, <2>1, PersistChanges, HoldersKept, HeldRow
<1>5. CASE MarkFailed(a) \/ RecordRetryFailure(a)
  <2>1. Busy(a)
    BY <1>5 DEF MarkFailed, RecordRetryFailure, Busy, InFlight
  <2>2. PICK dirty \in {FailedRow(loaded[a]), RetriedRow(loaded[a])} :
            row' = [row EXCEPT ![job[a]] = Flushed(row[job[a]], loaded[a], dirty)]
    BY <1>5 DEF MarkFailed, RecordRetryFailure
  <2>3. dirty.status \in {"pending", "failed"}
    BY DEF FailedRow, StatusAfterFailure, RetriedRow, HeldInv, TypeOK, Rows
  <2>4. Flushed(row[job[a]], loaded[a], dirty).status
            \in {row[job[a]].status, "pending", "failed"}
    BY <2>3 DEF Flushed
  <2>5. UNCHANGED events /\ \E to \in {"top", "done"} : Leave(a, to)
    BY <1>5 DEF MarkFailed, RecordRetryFailure, tables
  <2>6. RowChanges
    BY <2>1, <2>2, <2>4, <2>5, OwnRowChanges, HeldRow DEF Aside
  <2> QED
    BY <2>5, <2>6, LeavingKeepsHolders
<1> QED
  BY <1>1, <1>2, <1>3, <1>4, <1>5 DEF Proceeds, Attempt

LEMMA FaultHolders ==
    ASSUME HeldInv, FaultStep
    PROVE  RowChanges /\ HoldersInv'
<1>1. ASSUME NEW w \in Workers, ClaimUnconfirmed(w)
      PROVE  RowChanges /\ HoldersInv'
  <2>1. Busy(w) /\ w \in Actors
    BY <1>1 DEF ClaimUnconfirmed, Busy, Actors
  <2>2. ClaimedRow(row[job[w]], elapsed[w]).status = "processing"
    BY <2>1, HeldRow DEF ClaimedRow, Rows
  <2>3. RowChanges
    BY <1>1, <2>1, <2>2, OwnRowChanges, HeldRow DEF ClaimUnconfirmed, tables, Aside
  <2> QED
    BY <1>1, <2>1, <2>3, LeavingKeepsHolders DEF ClaimUnconfirmed
<1>2. ASSUME NEW a \in Actors, NEW to \in {"sleep", "boot", "done"}, Leave(a, to),
             UNCHANGED <<row, tables>>
      PROVE  RowChanges /\ HoldersInv'
  BY <1>2, SameRowsChanges, LeavingKeepsHolders DEF tables
<1>3. ASSUME NEW w \in Workers, ClaimFailed(w) \/ Crash(w)
      PROVE  RowChanges /\ HoldersInv'
  BY <1>2, <1>3 DEF ClaimFailed, Crash, Actors
<1>4. ASSUME NEW o \in Operators, ApiCrash(o)
      PROVE  RowChanges /\ HoldersInv'
  BY <1>2, <1>4 DEF ApiCrash, Actors
<1>5. ASSUME NEW a \in Actors, RecordLost(a)
      PROVE  RowChanges /\ HoldersInv'
  BY <1>2, <1>5 DEF RecordLost
<1> QED
  BY <1>1, <1>3, <1>4, <1>5, QueueHolders, AttemptHolders, ProceedSteps
     DEF FaultStep

LEMMA TickHolders ==
    ASSUME HeldInv, Tick
    PROVE  RowChanges /\ HoldersInv'
<1>1. \A r \in Raws : row'[r].status = row[r].status /\ row'[r].attempts = row[r].attempts
  BY DEF Tick, Aged, HeldInv, TypeOK, Rows
<1>2. RowChanges
  BY <1>1 DEF RowChanges, Tick, tables
<1>3. UNCHANGED <<pc, job, result>>
  BY DEF Tick
<1>4. \A a \in Actors : Busy(a) => job[a] \in Raws
  BY DEF HeldInv, TypeOK
<1> QED
  BY <1>1, <1>2, <1>3, <1>4 DEF HeldInv, HoldersInv, Busy, InFlight

LEMMA OperatorHolders ==
    ASSUME HeldInv, NEW o \in Operators, NEW r \in Raws, Acquire(o, r) \/ Refuse(o, r)
    PROVE  RowChanges /\ HoldersInv'
<1>0. o \in Actors
  BY DEF Actors
<1>1. CASE Acquire(o, r)
  <2>1. row[r].status \notin Aside
    BY <1>1 DEF Acquire, RetryRefuses, Aside
  <2>2. RowChanges
    BY <1>1, <2>1, OwnRowChanges DEF Acquire, AcquiredRow, tables, Aside
  <2>3. /\ pc'[o] = "classify" /\ job'[o] = r
        /\ \A b \in Actors : b # o => pc'[b] = pc[b] /\ job'[b] = job[b]
    BY <1>0, <1>1 DEF Acquire, HeldInv, TypeOK
  <2> QED
    BY <1>0, <1>1, <2>1, <2>2, <2>3, HoldersKept DEF Acquire
<1>2. CASE Refuse(o, r)
  <2>1. pc'[o] = "done" /\ \A b \in Actors : b # o => pc'[b] = pc[b]
    BY <1>0, <1>2 DEF Refuse, HeldInv, TypeOK
  <2> QED
    BY <1>0, <1>2, <2>1, SameRowsChanges, HoldersKept
       DEF Refuse, tables, Busy, InFlight
<1> QED
  BY <1>1, <1>2

\* Every step of the queue but the arrival of a row.
LEMMA QueueStepHolders ==
    ASSUME HeldInv,
           \/ \E w \in Workers : WorkerStep(w)
           \/ \E o \in Operators : \E r \in Raws : Acquire(o, r) \/ Refuse(o, r)
           \/ \E o \in Operators : RetryStep(o)
           \/ \E a \in Misled : LoadAfterUnconfirmed(a)
           \/ FaultStep
           \/ Tick
    PROVE  RowChanges /\ HoldersInv'
<1>1. ASSUME NEW w \in Workers, WorkerStep(w)
      PROVE  RowChanges /\ HoldersInv'
  BY <1>1, QueueHolders, AttemptHolders, ProceedSteps DEF WorkerStep
<1>2. CASE \/ \E o \in Operators : RetryStep(o)
           \/ \E a \in Misled : LoadAfterUnconfirmed(a)
  BY <1>2, AttemptHolders, ProceedSteps
<1> QED
  BY <1>1, <1>2, OperatorHolders, FaultHolders, TickHolders

LEMMA HoldersInit == Init => HoldersInv
BY DEF HoldersInv, Init, Busy, InFlight

-----------------------------------------------------------------------------
SettledRowsInv ==
    /\ HeldInv
    /\ DuplicateUntouched
    /\ ProcessedHasEvent

LEMMA IngestSettled ==
    ASSUME SettledRowsInv, NEW r \in Raws, Ingest(r)
    PROVE  DuplicateUntouched' /\ ProcessedHasEvent' /\ HoldersInv'
<1>1. \A q \in Raws : q # r => row'[q] = row[q]
  BY DEF Ingest, SettledRowsInv, HeldInv, TypeOK
<1>2. /\ row[r].status = "absent"
      /\ row'[r].status = IF r \in Duplicates THEN "duplicate" ELSE "pending"
      /\ row'[r].attempts = row[r].attempts
  BY DEF Ingest, SettledRowsInv, HeldInv, TypeOK, Rows
<1>3. UNCHANGED <<pc, job, result, events>>
  BY DEF Ingest, tables
<1>4. DuplicateUntouched'
  BY <1>1, <1>2, <1>3, DuplicatesAssumption DEF SettledRowsInv, DuplicateUntouched
<1>5. ProcessedHasEvent'
  BY <1>1, <1>2, <1>3 DEF SettledRowsInv, ProcessedHasEvent
<1>6. \A a \in Actors : Busy(a) => job[a] \in Raws /\ job[a] # r
  BY <1>2, HeldRow DEF SettledRowsInv, Aside
<1>7. HoldersInv'
  BY <1>1, <1>3, <1>6 DEF SettledRowsInv, HeldInv, HoldersInv, Busy, InFlight
<1> QED
  BY <1>4, <1>5, <1>7

LEMMA RowChangesSettled ==
    ASSUME SettledRowsInv, RowChanges
    PROVE  DuplicateUntouched' /\ ProcessedHasEvent'
<1>1. DuplicateUntouched'
  BY DuplicatesAssumption DEF SettledRowsInv, RowChanges, DuplicateUntouched, Aside
<1>2. ProcessedHasEvent'
  BY DEF SettledRowsInv, RowChanges, ProcessedHasEvent
<1> QED
  BY <1>1, <1>2

LEMMA SettledRowsInvAlways == Spec => []SettledRowsInv
<1>1. Init => SettledRowsInv
  <2> SUFFICES ASSUME Init
               PROVE  SettledRowsInv
    OBVIOUS
  <2>1. \A r \in Raws : row[r] = NoRow
    BY DEF Init
  <2>2. events = {}
    BY DEF Init, TablesInit
  <2>3. DuplicateUntouched /\ ProcessedHasEvent
    BY <2>1, <2>2, DuplicatesAssumption
       DEF DuplicateUntouched, ProcessedHasEvent, NoRow
  <2> QED
    BY <2>3, TypeOKInit, HoldersInit DEF SettledRowsInv, HeldInv
<1>2. SettledRowsInv /\ [Next]_vars => SettledRowsInv'
  <2> SUFFICES ASSUME SettledRowsInv, [Next]_vars
               PROVE  DuplicateUntouched' /\ ProcessedHasEvent' /\ HoldersInv'
    BY TypeOKStep DEF SettledRowsInv, HeldInv
  <2>1. CASE UNCHANGED vars
    BY <2>1 DEF vars, SettledRowsInv, HeldInv, DuplicateUntouched,
                ProcessedHasEvent, HoldersInv, Busy, InFlight
  <2>2. CASE \E r \in Raws : Ingest(r)
    BY <2>2, IngestSettled
  <2>3. CASE ~(UNCHANGED vars) /\ ~(\E r \in Raws : Ingest(r))
    <3>1. RowChanges /\ HoldersInv'
      BY <2>3, QueueStepHolders DEF Next, SettledRowsInv
    <3> QED
      BY <3>1, RowChangesSettled
  <2> QED
    BY <2>1, <2>2, <2>3
<1> QED
  BY <1>1, <1>2, PTL DEF Spec

\* No worker, retry or reaper ever touches a duplicate, and no event is made
\* of one, for any actors, faults and lost confirmations.
THEOREM DuplicatesRest == Spec => []DuplicateUntouched
<1>1. SettledRowsInv => DuplicateUntouched
  BY DEF SettledRowsInv
<1> QED
  BY <1>1, SettledRowsInvAlways, PTL

\* A processed raw event has an event, or an answer that calls for none,
\* whoever processed it and whatever was recorded late.
THEOREM ProcessedIsLogged == Spec => []ProcessedHasEvent
<1>1. SettledRowsInv => ProcessedHasEvent
  BY DEF SettledRowsInv
<1> QED
  BY <1>1, SettledRowsInvAlways, PTL

-----------------------------------------------------------------------------
(***************************************************************************)
(* The tables, with operators at work and every fault, if the classifier   *)
(* is consistent: a raw event that is persisted again, by another actor or *)
(* after a lost confirmation, is persisted with the answer it had or with  *)
(* none.  An actor that changes its mind would move the entity, and find   *)
(* the event already there.                                                *)
(***************************************************************************)
ConsistentClassifier == \A r \in Raws : \A e, f \in Answers(r) : e = f

MirrorInv == HeldInv /\ LogFromAnswers /\ EntityMirrorsLog /\ LoggedEntitiesExist

LEMMA PersistKeepsMirror ==
    ASSUME ConsistentClassifier, MirrorInv, NEW a \in Actors,
           Persist(a) \/ PersistUnconfirmed(a)
    PROVE  LogFromAnswers' /\ EntityMirrorsLog' /\ LoggedEntitiesExist'
<1> DEFINE r == job[a]
           e == result[a]
<1>1. /\ TablesTypeOK /\ r \in Raws /\ e \in Results /\ e \in Outcomes[r]
      /\ PersistTables(r, e)
  BY PersistedAnswer DEF MirrorInv, HeldInv, HoldersInv, TypeOK, Persist,
                         PersistUnconfirmed
<1> HIDE DEF r, e
<1>2. LogFromAnswers'
  BY <1>1, PersistLogs DEF MirrorInv, LogFromAnswers, Answers, EventRow, EntityKey
<1>3. CASE e.kind = "unclassified"
  <2>1. UNCHANGED tables
    BY <1>1, <1>3 DEF PersistTables
  <2> QED
    BY <1>2, <2>1
       DEF MirrorInv, tables, EntityMirrorsLog, LoggedEntitiesExist, EventsOf
<1>4. CASE e.kind # "unclassified"
  <2>1. e \in ClassifiedResults /\ e \in Answers(r)
    BY <1>1, <1>4, ResultCases DEF Answers, Unclassified
  <2>2. \A x \in events : x.raw = r => x = EventRow(r, e)
    BY <1>1, <2>1 DEF MirrorInv, LogFromAnswers, ConsistentClassifier
  <2> QED
    BY <1>1, <1>2, <2>1, <2>2, PersistTablesMirror DEF MirrorInv
<1> QED
  BY <1>3, <1>4

LEMMA MirrorInvInit == Init => MirrorInv
BY TypeOKInit, HoldersInit
   DEF Init, TablesInit, MirrorInv, HeldInv, LogFromAnswers, EntityMirrorsLog,
       LoggedEntitiesExist

LEMMA MirrorInvStep ==
    ASSUME ConsistentClassifier, MirrorInv, HoldersInv', [Next]_vars
    PROVE  MirrorInv'
<1>1. TypeOK'
  BY TypeOKStep DEF MirrorInv, HeldInv
<1>2. CASE UNCHANGED tables
  BY <1>1, <1>2 DEF MirrorInv, HeldInv, LogFromAnswers, tables, EntityMirrorsLog,
                    LoggedEntitiesExist, EventsOf, EventRow, EntityKey
<1>3. CASE \E a \in Actors : Persist(a) \/ PersistUnconfirmed(a)
  BY <1>1, <1>3, PersistKeepsMirror DEF MirrorInv, HeldInv
<1>4. UNCHANGED vars => UNCHANGED tables
  BY DEF vars, tables
<1> QED
  BY <1>2, <1>3, <1>4, TablesStep

LEMMA MirrorInvAlways ==
    ASSUME ConsistentClassifier
    PROVE  Spec => []MirrorInv
<1>1. MirrorInv /\ HoldersInv' /\ [Next]_vars => MirrorInv'
  BY MirrorInvStep
<1>2. SettledRowsInv => HoldersInv
  BY DEF SettledRowsInv, HeldInv
<1> QED
  BY <1>1, <1>2, MirrorInvInit, SettledRowsInvAlways, PTL DEF Spec

\* Every entity row shows the latest event of its own log, also with retries
\* racing the workers, crashes and lost confirmations.
THEOREM ConsistentMirror ==
    ASSUME ConsistentClassifier
    PROVE  Spec => []EntityMirrorsLog
<1>1. MirrorInv => EntityMirrorsLog
  BY DEF MirrorInv
<1> QED
  BY <1>1, MirrorInvAlways, PTL

\* And a raw event has one normalized event at most.
THEOREM ConsistentEvent ==
    ASSUME ConsistentClassifier
    PROVE  Spec => []OneNormalizedEvent
<1>1. MirrorInv => OneNormalizedEvent
  <2> SUFFICES ASSUME MirrorInv, NEW x \in events, NEW y \in events, x.raw = y.raw
               PROVE  x = y
    BY DEF OneNormalizedEvent
  <2>1. x.raw \in Raws
    BY DEF MirrorInv, HeldInv, TypeOK, TablesTypeOK, EventRows
  <2>2. PICK e \in Answers(x.raw) : x = EventRow(x.raw, e)
    BY DEF MirrorInv, LogFromAnswers
  <2>3. PICK f \in Answers(y.raw) : y = EventRow(y.raw, f)
    BY DEF MirrorInv, LogFromAnswers
  <2> QED
    BY <2>1, <2>2, <2>3 DEF ConsistentClassifier
<1> QED
  BY <1>1, MirrorInvAlways, PTL

-----------------------------------------------------------------------------
(***************************************************************************)
(* What one row goes through, as long as no retry acquires it and no       *)
(* worker's COMMIT is misreported.  A worker that is about to write its    *)
(* row's status has a copy of the row that is not stale, so the unit of    *)
(* work writes every column it means to write.                             *)
(***************************************************************************)
WorkersToldTheTruth == Workers \cap Misled = {}

Fresh(w) ==
    /\ pc[w] # "unconfirmed"
    /\ pc[w] \in {"persist", "record"} =>
          /\ row[job[w]].status = "processing"
          /\ loaded[w].status = "processing"
          /\ loaded[w].attempts = row[job[w]].attempts
          /\ loaded[w].locked_at # NotLocked

WorkAt(r) ==
    /\ OwnedAt(r)
    /\ \A a \in Actors : Busy(a) /\ job[a] = r => Fresh(a)

LEMMA WorkEnvironment ==
    ASSUME WorkersInTime, TypeOK, NEW r \in Raws, WorkAt(r),
           Tick \/ \E q \in Raws : Ingest(q)
    PROVE  WorkAt(r)'
<1>1. OwnedAt(r)'
  BY OwnedEnvironment DEF WorkAt
<1>2. pc' = pc /\ job' = job /\ loaded' = loaded
  BY DEF Tick, Ingest
<1>3. ASSUME NEW a \in Actors, Busy(a), job[a] = r
      PROVE  /\ row'[r].status = row[r].status
             /\ row'[r].attempts = row[r].attempts
  <2>1. row[r] \in Rows /\ row[r].status # "absent"
    BY <1>3, BusyFacts DEF WorkAt, OwnedAt, Holds, Held, Busy
  <2>2. CASE Tick
    BY <2>1, <2>2 DEF Tick, Aged, Rows
  <2>3. CASE \E q \in Raws : Ingest(q)
    BY <2>1, <2>3 DEF Ingest, TypeOK
  <2> QED
    BY <2>2, <2>3
<1> QED
  BY <1>1, <1>2, <1>3 DEF WorkAt, Fresh, Busy, InFlight

LEMMA WorkActs ==
    ASSUME WorkersToldTheTruth, TypeOK, NEW r \in Raws, WorkAt(r),
           NEW a \in Actors, ActorStep(a), ~AcquiresRow(a, r)
    PROVE  WorkAt(r)'
<1>1. OwnedAt(r)' /\ Alone(a)
  BY OwnedActs DEF WorkAt, ActorStep
<1> SUFFICES ASSUME NEW b \in Actors, Busy(b)', job'[b] = r
             PROVE  Fresh(b)'
  BY <1>1 DEF WorkAt
<1>2. CASE b # a
  <2>1. Busy(b) /\ job[b] = r /\ loaded'[b] = loaded[b] /\ pc'[b] = pc[b]
    BY <1>1, <1>2 DEF Alone, Busy, InFlight
  <2>2. row'[r] = row[r] /\ Fresh(b)
    BY <1>2, <2>1, OthersKeepRow DEF WorkAt
  <2> QED
    BY <2>1, <2>2 DEF Fresh
<1>3. CASE b = a /\ pc'[a] \in {"claiming", "classify"}
  BY <1>3 DEF Fresh
<1>4. CASE b = a /\ LoadsRow(a)
  <2>1. /\ Busy(a) /\ InFlight(a) /\ job[a] = r /\ job'[a] = r /\ row' = row
        /\ pc'[a] # "unconfirmed" /\ loaded'[a] = row[r]
    BY <1>4 DEF LoadsRow, SameRow, Busy, InFlight
  <2>2. Holds(a) /\ Fresh(a) /\ elapsed[a] \in Nat
    BY <2>1, BusyFacts DEF WorkAt, OwnedAt
  <2>3. row[r].status = "processing" /\ row[r].locked_at # NotLocked
    BY <1>4, <2>1, <2>2 DEF LoadsRow, Holds, Held, Fresh, NotLocked
  <2> QED
    BY <1>4, <2>1, <2>3 DEF Fresh
<1>5. CASE b = a /\ SettlesRow(a)
  <2>1. a \in Misled /\ a \in Workers
    BY <1>1, <1>5 DEF SettlesRow, OwnedAt, Holds
  <2> QED
    BY <2>1 DEF WorkersToldTheTruth
<1> QED
  BY <1>2, <1>3, <1>4, <1>5 DEF ActorStep, Idles, Sweeps, LocksRow, TakesRow,
     AcquiresRow, RecordsFailure

\* The changes of a row.
Moves(r) ==
    \/ /\ row'[r].status = row[r].status /\ row'[r].attempts = row[r].attempts
       /\ row[r].locked_at # NotLocked => row'[r].locked_at # NotLocked
    \/ /\ row[r].status = "absent" /\ row'[r].attempts = row[r].attempts
       /\ row'[r].status \in {"pending", "duplicate"}
    \/ /\ row[r].status = "pending" /\ row'[r].attempts = row[r].attempts
       /\ row'[r].status = "processing" /\ row'[r].locked_at # NotLocked
    \/ /\ row[r].status = "processing" /\ row'[r].attempts = row[r].attempts
       /\ row'[r].status \in {"pending", "processed"}
    \/ /\ row[r].status = "processing"
       /\ row'[r].attempts = row[r].attempts + 1
       /\ row'[r].status = StatusAfterFailure(row'[r].attempts)

LEMMA WorkMoves ==
    ASSUME TypeOK, NEW r \in Raws, WorkAt(r),
           NEW a \in Actors, ActorStep(a), ~AcquiresRow(a, r)
    PROVE  Moves(r)
<1>0. row[r] \in Rows
  BY BusyFacts
<1>1. CASE row'[r] = row[r]
  BY <1>1 DEF Moves
<1>2. CASE \/ Idles(a) \/ LoadsRow(a) \/ (\E q \in Raws : LocksRow(a, q))
           \/ (\E q \in Raws : AcquiresRow(a, q))
  BY <1>1, <1>2 DEF Idles, LoadsRow, LocksRow, AcquiresRow, RowsExcept
<1>3. CASE Sweeps(a)
  <2>1. row'[r] = row[r] \/ (row[r].status = "processing" /\ row'[r] = Reaped(row[r]))
    BY <1>3 DEF Sweeps, MaybeStale, Stale
  <2> QED
    BY <1>0, <1>1, <2>1 DEF Moves, Reaped, Rows
<1>4. CASE job[a] # r /\ (TakesRow(a) \/ SettlesRow(a) \/ RecordsFailure(a))
  BY <1>1, <1>4 DEF TakesRow, SettlesRow, RecordsFailure, WritesRow, RowsExcept
<1>5. CASE job[a] = r /\ TakesRow(a)
  <2>1. /\ row[r].status = "pending" /\ elapsed[a] \in Nat
        /\ row'[r] = ClaimedRow(row[r], elapsed[a])
    BY <1>5, BusyFacts DEF TakesRow, WorkAt, OwnedAt, Holds, Busy
  <2> QED
    BY <1>0, <2>1 DEF Moves, ClaimedRow, Rows, NotLocked
<1>6. CASE job[a] = r /\ (SettlesRow(a) \/ RecordsFailure(a))
  <2>1. /\ a \in Workers /\ a \notin Operators /\ loaded[a] \in Rows
        /\ row[r].status = "processing" /\ loaded[a].status = "processing"
        /\ loaded[a].attempts = row[r].attempts
    BY <1>6, BusyFacts, ActorsAssumption DEF SettlesRow, RecordsFailure, WorkAt,
       OwnedAt, Holds, Fresh, Busy, InFlight
  <2>2. CASE SettlesRow(a)
    <3>1. row'[r] = PersistedRow(a)
      BY <1>6, <2>2 DEF SettlesRow, WritesRow, PersistedRow
    <3>2. row'[r].status = "processed" /\ row'[r].attempts = row[r].attempts
      BY <1>0, <1>6, <2>1, <3>1 DEF PersistedRow, Flushed, Rows
    <3> QED
      BY <2>1, <3>2 DEF Moves
  <2>3. CASE RecordsFailure(a)
    <3>1. row'[r] = Flushed(row[r], loaded[a], FailedRow(loaded[a]))
      BY <1>6, <2>1, <2>3 DEF RecordsFailure, WritesRow
    <3>2. /\ row'[r].attempts = row[r].attempts + 1
          /\ row'[r].status = StatusAfterFailure(row[r].attempts + 1)
      BY <1>0, <2>1, <3>1 DEF Flushed, FailedRow, StatusAfterFailure, Rows
    <3> QED
      BY <2>1, <3>2 DEF Moves
  <2> QED
    BY <1>6, <2>2, <2>3
<1> QED
  BY <1>2, <1>3, <1>4, <1>5, <1>6 DEF ActorStep

LEMMA RowMoves ==
    ASSUME TypeOK, NEW r \in Raws, WorkAt(r), [Next]_vars,
           \A o \in Operators : ~AcquiresRow(o, r)
    PROVE  Moves(r)
<1>1. CASE row'[r] = row[r]
  BY <1>1 DEF Moves
<1>2. CASE Tick
  <2>1. row'[r] = Aged(row[r]) /\ row[r] \in Rows /\ row[r].locked_at \in Int
        /\ (row[r].locked_at # NotLocked => row[r].locked_at >= 0)
    BY <1>2, BusyFacts DEF Tick, Rows, Ages, NotLocked
  <2>2. row[r].locked_at # NotLocked => Older(row[r].locked_at) # NotLocked
    BY <2>1 DEF Older, NotLocked
  <2> QED
    BY <2>1, <2>2 DEF Moves, Aged, Rows
<1>3. ASSUME NEW q \in Raws, Ingest(q)
      PROVE  Moves(r)
  <2>1. CASE q # r
    BY <1>1, <1>3, <2>1 DEF Ingest, TypeOK
  <2>2. CASE q = r
    BY <1>3, <2>2 DEF Ingest, TypeOK, Rows, Moves
  <2> QED
    BY <2>1, <2>2
<1>4. ASSUME NEW a \in Actors, ActorStep(a)
      PROVE  Moves(r)
  BY <1>4, WorkMoves DEF AcquiresRow
<1> QED
  BY <1>1, <1>2, <1>3, <1>4, StepCases DEF vars

LEMMA WorkStep ==
    ASSUME WorkersInTime, WorkersToldTheTruth,
           TypeOK, NEW r \in Raws, WorkAt(r), [Next]_vars,
           \A o \in Operators : ~AcquiresRow(o, r)
    PROVE  WorkAt(r)'
<1>1. CASE UNCHANGED vars
  BY <1>1 DEF vars, WorkAt, OwnedAt, Holds, Held, Fresh, Busy, InFlight
<1>2. CASE Next
  BY <1>2, StepCases, WorkActs, WorkEnvironment DEF AcquiresRow
<1> QED
  BY <1>1, <1>2

-----------------------------------------------------------------------------
(***************************************************************************)
(* What follows for the row: its budget, its event, and for the reaper,    *)
(* which needs a locked_at to compare.                                     *)
(***************************************************************************)
BudgetAt(r) ==
    /\ row[r].attempts <= MaxAttempts
    /\ row[r].status = "failed" <=> row[r].attempts = MaxAttempts

LockedAt(r) == row[r].status = "processing" => row[r].locked_at # NotLocked

EventAt(r) ==
    /\ \A x \in events : x.raw = r => row[r].status = "processed"
    /\ \A x, y \in events : x.raw = r /\ y.raw = r => x = y

RowInv(r) == WorkAt(r) /\ BudgetAt(r) /\ LockedAt(r) /\ EventAt(r)

Terminal == {"processed", "failed", "duplicate"}

LEMMA MovesKeep ==
    ASSUME NEW r \in Raws, row[r] \in Rows, BudgetAt(r), LockedAt(r), Moves(r)
    PROVE  /\ BudgetAt(r)' /\ LockedAt(r)'
           /\ row[r].status \in Terminal => row'[r].status = row[r].status
<1>0. row[r].attempts \in Nat /\ MaxAttempts \in Nat \ {0}
  BY BoundsAssumption DEF Rows
<1>1. BudgetAt(r)'
  BY <1>0 DEF Moves, BudgetAt, StatusAfterFailure
<1>2. LockedAt(r)'
  BY DEF Moves, LockedAt, StatusAfterFailure
<1>3. row[r].status \in Terminal => row'[r].status = row[r].status
  BY DEF Moves, Terminal
<1> QED
  BY <1>1, <1>2, <1>3

\* An event of the row is logged by the step that makes the row processed.
LEMMA LogMoves ==
    ASSUME TypeOK, NEW r \in Raws, WorkAt(r), [Next]_vars
    PROVE  \/ \A x \in events' : x.raw = r => x \in events
           \/ /\ row[r].status = "processing" /\ row'[r].status = "processed"
              /\ \E y : \A x \in events' : x.raw = r => x \in events \/ x = y
<1>1. CASE UNCHANGED tables
  BY <1>1 DEF tables
<1>2. ASSUME NEW a \in Actors, Persist(a) \/ PersistUnconfirmed(a)
      PROVE  \/ \A x \in events' : x.raw = r => x \in events
             \/ /\ row[r].status = "processing" /\ row'[r].status = "processed"
                /\ \E y : \A x \in events' : x.raw = r => x \in events \/ x = y
  <2>1. \A x \in events' : x \in events \/ x = EventRow(job[a], result[a])
    BY <1>2 DEF Persist, PersistUnconfirmed, PersistTables, EventsWith, tables
  <2>2. EventRow(job[a], result[a]).raw = job[a]
    BY DEF EventRow
  <2>3. CASE job[a] # r
    BY <2>1, <2>2, <2>3
  <2>4. CASE job[a] = r
    <3>1. /\ pc[a] = "persist" /\ Busy(a) /\ row' = [row EXCEPT ![r] = PersistedRow(a)]
      BY <1>2, <2>4 DEF Persist, PersistUnconfirmed, Busy, InFlight
    <3>2. /\ row[r].status = "processing" /\ loaded[a].status = "processing"
          /\ loaded[a] \in Rows
      BY <2>4, <3>1, BusyFacts DEF WorkAt, Fresh
    <3>3. row'[r].status = "processed"
      BY <2>4, <3>1, <3>2 DEF PersistedRow, Flushed, Rows, TypeOK
    <3> QED
      BY <2>1, <3>2, <3>3
  <2> QED
    BY <2>3, <2>4
<1> QED
  BY <1>1, <1>2, TablesStep DEF vars, tables

LEMMA RowInvStep ==
    ASSUME WorkersInTime, WorkersToldTheTruth,
           TypeOK, NEW r \in Raws, RowInv(r), [Next]_vars,
           \A o \in Operators : ~AcquiresRow(o, r)
    PROVE  /\ RowInv(r)'
           /\ row[r].status \in Terminal => row'[r].status = row[r].status
<1>1. WorkAt(r)' /\ Moves(r) /\ row[r] \in Rows
  BY WorkStep, RowMoves, BusyFacts DEF RowInv
<1>2. /\ BudgetAt(r)' /\ LockedAt(r)'
      /\ row[r].status \in Terminal => row'[r].status = row[r].status
  BY <1>1, MovesKeep DEF RowInv
<1>3. EventAt(r)'
  BY <1>1, <1>2, LogMoves DEF RowInv, EventAt, Terminal
<1> QED
  BY <1>1, <1>2, <1>3 DEF RowInv

LEMMA RowInvInit == Init => \A r \in Raws : RowInv(r)
BY BoundsAssumption
   DEF Init, TablesInit, NoRow, RowInv, WorkAt, OwnedAt, BudgetAt, LockedAt,
       EventAt, Busy, InFlight

-----------------------------------------------------------------------------
(***************************************************************************)
(* Every row, when no operator retries and every COMMIT is confirmed.      *)
(***************************************************************************)
WorkInv == TypeOK /\ \A r \in Raws : RowInv(r)

LEMMA WorkInvStep ==
    ASSUME Operators = {}, Misled = {}, Slow = {}
    PROVE  WorkInv /\ [Next]_vars => WorkInv'
BY TypeOKStep, RowInvStep, NoRetries DEF WorkInv, WorkersInTime, WorkersToldTheTruth

LEMMA WorkInvAlways ==
    ASSUME Operators = {}, Misled = {}, Slow = {}
    PROVE  Spec => []WorkInv
<1>1. Init => WorkInv
  BY TypeOKInit, RowInvInit DEF WorkInv
<1> QED
  BY <1>1, WorkInvStep, PTL DEF Spec

\* A row is in the terminal status exactly when mark_failed has spent its
\* budget: no crash, reaper or second claim spends or refunds a failure.
THEOREM BudgetExact ==
    ASSUME Operators = {}, Misled = {}, Slow = {}
    PROVE  Spec => []FailedAtBudget
<1>1. WorkInv => FailedAtBudget
  BY DEF WorkInv, RowInv, BudgetAt, FailedAtBudget
<1> QED
  BY <1>1, WorkInvAlways, PTL

\* A raw event that has a normalized event is processed for good.
THEOREM EventsAreSettled ==
    ASSUME Operators = {}, Misled = {}, Slow = {}
    PROVE  Spec => []EventMeansProcessed
<1>1. WorkInv => EventMeansProcessed
  BY DEF WorkInv, RowInv, EventAt, EventMeansProcessed, TypeOK, TablesTypeOK, EventRows
<1> QED
  BY <1>1, WorkInvAlways, PTL

\* No step takes a row out of a terminal status.
THEOREM TerminalStays ==
    ASSUME Operators = {}, Misled = {}, Slow = {}
    PROVE  Spec => TerminalIsFinal
<1>1. WorkInv /\ [Next]_vars =>
          [\A r \in Raws :
              row[r].status \in {"processed", "failed", "duplicate"} =>
                  row'[r].status = row[r].status]_vars
  BY RowInvStep, NoRetries DEF WorkInv, WorkersInTime, WorkersToldTheTruth, Terminal
<1> QED
  BY <1>1, WorkInvAlways, PTL DEF Spec, TerminalIsFinal

\* A raw event has at most one normalized event in the two tables together,
\* also with a classifier that answers differently after a crash.
THEOREM OneEventEach ==
    ASSUME Operators = {}, Misled = {}, Slow = {}
    PROVE  Spec => []OneNormalizedEvent
<1>1. WorkInv => OneNormalizedEvent
  BY DEF WorkInv, RowInv, EventAt, OneNormalizedEvent, TypeOK, TablesTypeOK, EventRows
<1> QED
  BY <1>1, WorkInvAlways, PTL

\* Without retries, misreported COMMITs and slow workers the reaper can recover
\* every row left in 'processing'; what a retry does to this is the run
\* `unreapable`.
THEOREM OrphansAreReapable ==
    ASSUME Operators = {}, Misled = {}, Slow = {}
    PROVE  Spec => []OrphanIsReapable
<1>1. WorkInv => OrphanIsReapable
  BY DEF WorkInv, RowInv, LockedAt, OrphanIsReapable
<1> QED
  BY <1>1, WorkInvAlways, PTL

-----------------------------------------------------------------------------
(***************************************************************************)
(* The entity rows: the event of a persist is the raw event's first, so    *)
(* the classifier need not be consistent.                                  *)
(***************************************************************************)
LEMMA PersistKeepsEntities ==
    ASSUME WorkInv, EntityMirrorsLog, LoggedEntitiesExist,
           NEW a \in Actors, Persist(a) \/ PersistUnconfirmed(a)
    PROVE  EntityMirrorsLog' /\ LoggedEntitiesExist'
<1> DEFINE r == job[a]
           e == result[a]
<1>1. /\ TablesTypeOK /\ r \in Raws /\ e \in Results /\ PersistTables(r, e)
      /\ pc[a] = "persist" /\ Busy(a)
  BY PersistedAnswer DEF WorkInv, TypeOK, Persist, PersistUnconfirmed, Busy, InFlight
<1>2. \A x \in events : x.raw # r
  BY <1>1 DEF WorkInv, RowInv, WorkAt, Fresh, EventAt
<1>3. CASE e.kind = "unclassified"
  BY <1>1, <1>3
     DEF PersistTables, tables, EntityMirrorsLog, LoggedEntitiesExist, EventsOf
<1>4. CASE e.kind # "unclassified"
  BY <1>1, <1>2, <1>4, ResultCases, PersistTablesMirror
<1> QED
  BY <1>3, <1>4

\* The entity rows show the latest event of their own log.
THEOREM EntitiesMirror ==
    ASSUME Operators = {}, Misled = {}, Slow = {}
    PROVE  Spec => []EntityMirrorsLog
<1> DEFINE Mirrors == EntityMirrorsLog /\ LoggedEntitiesExist
<1>1. Init => Mirrors
  BY DEF Init, TablesInit, EntityMirrorsLog, LoggedEntitiesExist
<1>2. WorkInv /\ Mirrors /\ [Next]_vars => Mirrors'
  <2> SUFFICES ASSUME WorkInv, Mirrors, [Next]_vars
               PROVE  Mirrors'
    OBVIOUS
  <2>1. CASE UNCHANGED tables
    BY <2>1 DEF tables, EntityMirrorsLog, LoggedEntitiesExist, EventsOf
  <2>2. CASE \E a \in Actors : Persist(a) \/ PersistUnconfirmed(a)
    BY <2>2, PersistKeepsEntities
  <2> QED
    BY <2>1, <2>2, TablesStep DEF vars, tables
<1>3. Mirrors => EntityMirrorsLog
  OBVIOUS
<1> QED
  BY <1>1, <1>2, <1>3, WorkInvAlways, PTL DEF Spec

-----------------------------------------------------------------------------
(***************************************************************************)
(* RawEventQueue implements WorkItems, for any number of raw events and    *)
(* workers, when no operator retries and every COMMIT is confirmed.        *)
(***************************************************************************)

\* The steps that remain when no operator retries and no confirmation is lost.
LEMMA WorkerSteps ==
    ASSUME Operators = {}, Misled = {}, Slow = {}, Next
    PROVE  \/ Tick
           \/ \E r \in Raws : Ingest(r)
           \/ \E w \in Workers :
                 \/ Reap(w) \/ CommitClaim(w) \/ NothingToClaim(w) \/ Wake(w)
                 \/ \E r \in Raws : Claim(w, r)
           \/ \E w \in Workers :
                 \/ \E e \in Results : ClassifyOk(w, e)
                 \/ ClassifyFailed(w) \/ PersistFailed(w)
           \/ \E w \in Workers : Persist(w) \/ MarkFailed(w)
           \/ \E w \in Workers :
                 ReapFailed(w) \/ ClaimFailed(w) \/ Crash(w) \/ RecordLost(w)
<1>1. Actors = Workers
  BY DEF Actors
<1> QED
  BY <1>1 DEF Next, WorkerStep, FaultStep, Attempt

\* What a change of one row is, seen by WorkItems.
LEMMA RowSeen ==
    ASSUME TypeOK, NEW r \in Raws, NEW new, row' = [row EXCEPT ![r] = new]
    PROVE  /\ StatusOfRows' = [StatusOfRows EXCEPT ![r] = new.status]
           /\ AttemptsOfRows' = [AttemptsOfRows EXCEPT ![r] = new.attempts]
           /\ StatusOfRows[r] = row[r].status
           /\ AttemptsOfRows[r] = row[r].attempts
BY DEF TypeOK, StatusOfRows, AttemptsOfRows

LEMMA SameAttempts ==
    ASSUME TypeOK, NEW r \in Raws, NEW new, row' = [row EXCEPT ![r] = new],
           new.attempts = row[r].attempts
    PROVE  AttemptsOfRows' = AttemptsOfRows
BY RowSeen DEF TypeOK, AttemptsOfRows

LEMMA BusyWorker ==
    ASSUME WorkInv, NEW w \in Workers, Busy(w)
    PROVE  /\ job[w] \in Raws /\ row[job[w]] \in Rows
           /\ loaded[w] \in Rows /\ result[w] \in Results
           /\ Holds(w) /\ Fresh(w)
BY DEF WorkInv, TypeOK, RowInv, WorkAt, OwnedAt, Actors

LEMMA PersistSeen ==
    ASSUME WorkInv, NEW w \in Workers, Persist(w)
    PROVE  Work!Settle(job[w])
<1>1. /\ TypeOK /\ job[w] \in Raws /\ row[job[w]] \in Rows
      /\ row[job[w]].status = "processing" /\ loaded[w].status = "processing"
      /\ loaded[w] \in Rows /\ result[w] \in Results
  BY BusyWorker DEF WorkInv, Persist, Busy, InFlight, Fresh
<1>2. PersistedRow(w).status = "processed"
      /\ PersistedRow(w).attempts = row[job[w]].attempts
  BY <1>1 DEF PersistedRow, Flushed, Rows
<1>3. Logged' \in {Logged, Logged \cup {job[w]}}
  <2>1. events' \in {events, events \cup {EventRow(job[w], result[w])}}
    BY DEF Persist, PersistTables, EventsWith, tables
  <2>2. EventRow(job[w], result[w]).raw = job[w]
    BY DEF EventRow
  <2> QED
    BY <2>1, <2>2 DEF Logged
<1>4. row' = [row EXCEPT ![job[w]] = PersistedRow(w)]
  BY DEF Persist
<1>5. AttemptsOfRows' = AttemptsOfRows
  BY <1>1, <1>2, <1>4, SameAttempts
<1>6. /\ StatusOfRows' = [StatusOfRows EXCEPT ![job[w]] = PersistedRow(w).status]
      /\ StatusOfRows[job[w]] = row[job[w]].status
  BY <1>1, <1>4, RowSeen
<1> QED
  BY <1>1, <1>2, <1>3, <1>5, <1>6 DEF Work!Settle

LEMMA MarkFailedSeen ==
    ASSUME WorkInv, NEW w \in Workers, MarkFailed(w)
    PROVE  Work!Fail(job[w])
<1> DEFINE r == job[w]
           new == Flushed(row[r], loaded[w], FailedRow(loaded[w]))
<1>1. /\ TypeOK /\ r \in Raws /\ row[r] \in Rows
      /\ row[r].status = "processing" /\ loaded[w].status = "processing"
      /\ loaded[w].attempts = row[r].attempts /\ loaded[w].attempts \in Nat
  BY BusyWorker DEF WorkInv, MarkFailed, Busy, InFlight, Fresh, Rows
<1>2. /\ new.status = StatusAfterFailure(row[r].attempts + 1)
      /\ new.attempts = row[r].attempts + 1
  BY <1>1 DEF Flushed, FailedRow, StatusAfterFailure
<1>3. row' = [row EXCEPT ![r] = new] /\ events' = events
  BY DEF MarkFailed, tables
<1>4. new.status = IF row[r].attempts + 1 >= MaxAttempts THEN "failed" ELSE "pending"
  BY <1>2 DEF StatusAfterFailure
<1> HIDE DEF new
<1>5. /\ StatusOfRows' = [StatusOfRows EXCEPT ![r] = new.status]
      /\ AttemptsOfRows' = [AttemptsOfRows EXCEPT ![r] = new.attempts]
      /\ StatusOfRows[r] = "processing" /\ AttemptsOfRows[r] = row[r].attempts
  BY <1>1, <1>3, RowSeen
<1> QED
  BY <1>2, <1>3, <1>4, <1>5 DEF Work!Fail, Logged

LEMMA StepSeen ==
    ASSUME Operators = {}, Misled = {}, Slow = {}, WorkInv, [Next]_vars
    PROVE  [Work!Next]_(Work!vars)
<1>0. TypeOK
  BY DEF WorkInv
<1>1. CASE row' = row /\ events' = events
  BY <1>1 DEF Work!vars, StatusOfRows, AttemptsOfRows, Logged
<1>2. CASE Tick
  <2>1. \A r \in Raws : /\ row'[r].status = row[r].status
                        /\ row'[r].attempts = row[r].attempts
    BY <1>0, <1>2 DEF Tick, TypeOK, Aged, Rows
  <2>2. events' = events
    BY <1>2 DEF Tick, tables
  <2> QED
    BY <2>1, <2>2 DEF Work!vars, StatusOfRows, AttemptsOfRows, Logged
<1>3. ASSUME NEW r \in Raws, Ingest(r)
      PROVE  Work!Arrive(r)
  <2> DEFINE new == [row[r] EXCEPT !.status =
                        IF r \in Duplicates THEN "duplicate" ELSE "pending"]
  <2>1. row[r] \in Rows /\ row[r].status = "absent"
        /\ row' = [row EXCEPT ![r] = new] /\ events' = events
    BY <1>0, <1>3 DEF Ingest, TypeOK, tables
  <2>2. new.attempts = row[r].attempts
        /\ new.status = IF r \in Duplicates THEN "duplicate" ELSE "pending"
    BY <2>1 DEF Rows
  <2> HIDE DEF new
  <2>3. AttemptsOfRows' = AttemptsOfRows
    BY <1>0, <2>1, <2>2, SameAttempts
  <2>4. StatusOfRows' = [StatusOfRows EXCEPT ![r] = new.status]
        /\ StatusOfRows[r] = "absent"
    BY <1>0, <2>1, RowSeen
  <2> QED
    BY <2>1, <2>2, <2>3, <2>4 DEF Work!Arrive, Logged
<1>4. ASSUME NEW w \in Workers, Reap(w)
      PROVE  \E S \in SUBSET Raws : Work!GiveBack(S)
  <2>1. PICK S \in SUBSET MaybeStale :
            row' = [r \in Raws |-> IF r \in S THEN Reaped(row[r]) ELSE row[r]]
    BY <1>4 DEF Reap
  <2>2. S \in SUBSET Raws /\ \A r \in S : StatusOfRows[r] = "processing"
    BY <2>1 DEF MaybeStale, Stale, StatusOfRows
  <2>3. \A r \in Raws : /\ row'[r].attempts = row[r].attempts
                        /\ row'[r].status = IF r \in S THEN "pending" ELSE row[r].status
    <3>1. \A x \in Rows : Reaped(x).attempts = x.attempts /\ Reaped(x).status = "pending"
      BY DEF Reaped, Rows
    <3> QED
      BY <1>0, <2>1, <3>1 DEF TypeOK
  <2>4. events' = events
    BY <1>4 DEF Reap, tables
  <2> QED
    BY <2>2, <2>3, <2>4 DEF Work!GiveBack, StatusOfRows, AttemptsOfRows, Logged
<1>5. ASSUME NEW w \in Workers, CommitClaim(w)
      PROVE  job[w] \in Raws /\ Work!Take(job[w])
  <2> DEFINE new == ClaimedRow(row[job[w]], elapsed[w])
  <2>1. /\ job[w] \in Raws /\ row[job[w]] \in Rows /\ row[job[w]].status = "pending"
        /\ row' = [row EXCEPT ![job[w]] = new] /\ events' = events
    BY <1>5, BusyWorker DEF CommitClaim, Holds, Busy, tables
  <2>2. new.attempts = row[job[w]].attempts /\ new.status = "processing"
    BY <2>1 DEF ClaimedRow, Rows
  <2> HIDE DEF new
  <2>3. AttemptsOfRows' = AttemptsOfRows
    BY <1>0, <2>1, <2>2, SameAttempts
  <2>4. StatusOfRows' = [StatusOfRows EXCEPT ![job[w]] = new.status]
        /\ StatusOfRows[job[w]] = row[job[w]].status
    BY <1>0, <2>1, RowSeen
  <2> QED
    BY <2>1, <2>2, <2>3, <2>4 DEF Work!Take, Logged
<1>6. ASSUME NEW w \in Workers, Persist(w) \/ MarkFailed(w)
      PROVE  job[w] \in Raws /\ (Work!Settle(job[w]) \/ Work!Fail(job[w]))
  <2>1. job[w] \in Raws
    BY <1>0, <1>6 DEF TypeOK, Persist, MarkFailed, Busy, InFlight, Actors
  <2> QED
    BY <1>6, <2>1, PersistSeen, MarkFailedSeen
<1>7. CASE \E w \in Workers :
              \/ NothingToClaim(w) \/ Wake(w) \/ (\E r \in Raws : Claim(w, r))
              \/ (\E e \in Results : ClassifyOk(w, e))
              \/ ClassifyFailed(w) \/ PersistFailed(w)
              \/ ReapFailed(w) \/ ClaimFailed(w) \/ Crash(w) \/ RecordLost(w)
  BY <1>1, <1>7 DEF NothingToClaim, Wake, Claim, ClassifyOk, ClassifyFailed,
     PersistFailed, ReapFailed, ClaimFailed, Crash, RecordLost, tables
<1>8. CASE UNCHANGED vars
  BY <1>1, <1>8 DEF vars
<1> QED
  BY <1>2, <1>3, <1>4, <1>5, <1>6, <1>7, <1>8, WorkerSteps DEF Work!Next

LEMMA InitSeen == Init => Work!Init
BY DEF Init, TablesInit, NoRow, Work!Init, StatusOfRows, AttemptsOfRows, Logged

\* What the workers do is what WorkItems says, whatever their number, their
\* interleaving, their crashes and the clocks.
THEOREM Refinement ==
    ASSUME Operators = {}, Misled = {}, Slow = {}
    PROVE  Spec => ImplementsWorkItems
<1>1. WorkInv /\ [Next]_vars => [Work!Next]_(Work!vars)
  BY StepSeen
<1> QED
  BY <1>1, InitSeen, WorkInvAlways, PTL DEF Spec, ImplementsWorkItems, Work!Spec
=============================================================================
