--------------------------- MODULE RawEventQueue ---------------------------
(***************************************************************************)
(* The raw_events table used as a work queue: ingest workers that claim,   *)
(* classify, persist and reap (src/app/workers/ingest_worker.py), operator *)
(* retries served by the API (src/app/services/retry.py), their crashes,   *)
(* and the passage of time.                                                *)
(*                                                                         *)
(* A step is one database transaction, or the return of one classifier     *)
(* call.  Two transactions are two steps each.  The claim is, because the  *)
(* row lock it holds until COMMIT is what SKIP LOCKED skips.  The persist  *)
(* and the two failure-recording transactions read the row without a lock  *)
(* (`session.get`) and write at COMMIT what they changed in that copy.     *)
(*                                                                         *)
(* Time is counted in ticks.  A timestamp is kept as its age, so that only *)
(* the ages the reaper tells apart are states.  locked_at is stamped by    *)
(* the database's or the API's clock and compared with a worker's; the     *)
(* reaper sees every age wrong by up to MaxClockSkew.                      *)
(*                                                                         *)
(* The window rests on a worst case that config.py estimates and no code   *)
(* enforces: an LLM call has several tries, and its timeout is one of each *)
(* HTTP operation.  The actors in Slow may stay in flight for any time.    *)
(*                                                                         *)
(* Left out of the row: `last_error` and `processed_at`, which no          *)
(* condition reads.                                                        *)
(***************************************************************************)
EXTENDS EntityTables

CONSTANTS
    Workers,           \* ingest worker processes
    Operators,         \* retry requests, each sent at most once
    Duplicates,        \* the raw events that ingestion stores as duplicates
    Outcomes,          \* what the classifier may answer for each raw event
    MaxAttempts,       \* worker_max_attempts
    StaleLock,         \* worker_stale_lock_minutes, in ticks
    ReapInterval,      \* worker_reaper_interval_s, in ticks
    WorstCaseInFlight, \* config.py's worst-case in-flight duration, in ticks
    Slow,              \* the actors that may exceed it
    MaxClockSkew,      \* largest difference of two machines' clocks, in ticks
    Misled,            \* the actors whose COMMIT may succeed and report an error
    MaxFaults          \* bound on crashes, failed and unconfirmed transactions

Actors == Workers \cup Operators

ASSUME ActorsAssumption == Workers \cap Operators = {}
ASSUME MisledAssumption == Misled \subseteq Actors
ASSUME SlowAssumption == Slow \subseteq Actors
ASSUME DuplicatesAssumption == Duplicates \subseteq Raws
ASSUME OutcomesAssumption == Outcomes \in [Raws -> SUBSET Results]
ASSUME BoundsAssumption ==
    /\ MaxAttempts \in Nat \ {0}
    /\ StaleLock \in Nat
    /\ ReapInterval \in Nat
    /\ WorstCaseInFlight \in Nat
    /\ MaxClockSkew \in Nat
    /\ MaxFaults \in Nat

\* config.py: the stale-lock window must exceed the worst-case in-flight time;
\* with clocks that differ, by as much as they do.
ASSUME StaleLockAssumption == WorstCaseInFlight + MaxClockSkew <= StaleLock

Statuses == {"absent", "pending", "processing", "processed", "failed",
             "duplicate"}

NotLocked == -1                    \* locked_at IS NULL

\* The greatest age stands for every older one: stale for any clock.
MaxAge == StaleLock + MaxClockSkew + 1
Ages == 0 .. MaxAge

Rows == [status : Statuses, attempts : Nat, locked_at : Ages \cup {NotLocked}]

NoRow == [status |-> "absent", attempts |-> 0, locked_at |-> NotLocked]
NoJob == -1

WorkerPCs == {"boot", "top", "claim", "claiming", "classify", "persist",
              "unconfirmed", "record", "sleep"}
OperatorPCs == {"idle", "classify", "persist", "unconfirmed", "record", "done"}

VARIABLES
    row,        \* the committed rows of raw_events
    pc,         \* where each worker and each retry request is
    job,        \* raw_id / raw_event_id of the actor's local state
    loaded,     \* the copy session.get returned in the open transaction
    result,     \* the classifier's answer
    elapsed,    \* ticks since the actor's claim or acquire, up to the bound
    sinceReap,  \* ticks since the worker's last_reap
    faults      \* crashes, failed and unconfirmed transactions so far

queue == <<row, pc, job, loaded, result, elapsed, sinceReap, faults>>
vars == <<row, pc, job, loaded, result, elapsed, sinceReap, faults,
          entities, events>>

InFlight(a) == pc[a] \in {"classify", "persist", "unconfirmed", "record"}
Busy(a) == InFlight(a) \/ pc[a] = "claiming"

\* The window does not bind an actor that is in flight and slow.
MayOverrun(a) == a \in Slow /\ InFlight(a)

TypeOK ==
    /\ TablesTypeOK
    /\ row \in [Raws -> Rows]
    /\ pc \in [Actors -> WorkerPCs \cup OperatorPCs]
    /\ \A w \in Workers : pc[w] \in WorkerPCs
    /\ \A o \in Operators : pc[o] \in OperatorPCs
    /\ job \in [Actors -> Raws \cup {NoJob}]
    /\ \A a \in Actors : Busy(a) => job[a] \in Raws
    /\ loaded \in [Actors -> Rows]
    /\ result \in [Actors -> Results]
    /\ elapsed \in [Actors -> 0 .. WorstCaseInFlight]
    /\ sinceReap \in [Workers -> 0 .. ReapInterval]
    /\ faults \in 0 .. MaxFaults

Init ==
    /\ TablesInit
    /\ row = [r \in Raws |-> NoRow]
    /\ pc = [a \in Actors |-> IF a \in Workers THEN "boot" ELSE "idle"]
    /\ job = [a \in Actors |-> NoJob]
    /\ loaded = [a \in Actors |-> NoRow]
    /\ result = [a \in Actors |-> Unclassified]
    /\ elapsed = [a \in Actors |-> 0]
    /\ sinceReap = [w \in Workers |-> 0]
    /\ faults = 0

-----------------------------------------------------------------------------
(***************************************************************************)
(* Conditions of the SQL statements and of the Python code.                *)
(***************************************************************************)

\* Row r is locked by the open transaction of a claim.
ClaimLocked(r) == \E w \in Workers : pc[w] = "claiming" /\ job[w] = r

\* Mutation of Claimable: no row lock is skipped.
ClaimableIgnoringLocks(r) == row[r].status = "pending"

\* WHERE status = 'pending' FOR UPDATE SKIP LOCKED.
Claimable(r) == row[r].status = "pending" /\ ~ClaimLocked(r)

\* Mutations of Stale: <= for <, no age condition.
StaleOrOnTime(x, skew) ==
    /\ x.status = "processing"
    /\ x.locked_at # NotLocked
    /\ x.locked_at + skew >= StaleLock
StaleAtAnyAge(x, skew) == x.status = "processing"

\* WHERE status = 'processing' AND locked_at < now - worker_stale_lock_minutes,
\* by a clock that is `skew` ahead of the one that set locked_at.  A NULL
\* locked_at makes the comparison NULL: such a row is not selected.
Stale(x, skew) ==
    /\ x.status = "processing"
    /\ x.locked_at # NotLocked
    /\ x.locked_at + skew > StaleLock


ReapDue(w) == sinceReap[w] >= ReapInterval

\* Mutation of RetryRefuses: duplicates are accepted.
RetryRefusesButDuplicates(x) == x.status \in {"absent", "processed"}

\* The refusals of retry_raw_event, its 404 included.
RetryRefuses(x) == x.status \in {"absent", "duplicate", "processed"}

\* Mutation of StatusAfterFailure: > for >=.
StatusPastBudget(attempts) ==
    IF attempts > MaxAttempts THEN "failed" ELSE "pending"

\* mark_failed's choice between another pass and the terminal status.
StatusAfterFailure(attempts) ==
    IF attempts >= MaxAttempts THEN "failed" ELSE "pending"

(***************************************************************************)
(* What COMMIT leaves of row cur when a session read it as `copy` and left *)
(* its copy as `dirty`: the unit of work updates the columns whose value   *)
(* differs from the one loaded, and no other column.                       *)
(***************************************************************************)
Flushed(cur, copy, dirty) ==
    [status    |-> IF dirty.status = copy.status
                   THEN cur.status ELSE dirty.status,
     attempts  |-> IF dirty.attempts = copy.attempts
                   THEN cur.attempts ELSE dirty.attempts,
     locked_at |-> IF dirty.locked_at = copy.locked_at
                   THEN cur.locked_at ELSE dirty.locked_at]

Fault == faults < MaxFaults /\ faults' = faults + 1

\* The actor forgets its locals: it returned from process_one or
\* retry_raw_event, or its process died.
Leave(a, to) ==
    /\ pc' = [pc EXCEPT ![a] = to]
    /\ job' = [job EXCEPT ![a] = NoJob]
    /\ loaded' = [loaded EXCEPT ![a] = NoRow]
    /\ result' = [result EXCEPT ![a] = Unclassified]
    /\ elapsed' = [elapsed EXCEPT ![a] = 0]

\* Mutation of After: the worker stops after one event.
AfterIsDone(a) == "done"

\* Where an actor goes when its attempt is over.
After(a) == IF a \in Workers THEN "top" ELSE "done"

-----------------------------------------------------------------------------
(***************************************************************************)
(* Ingestion, as far as the queue sees it: the row appears.                *)
(***************************************************************************)
Ingest(r) ==
    /\ row[r].status = "absent"
    /\ row' = [row EXCEPT ![r].status =
                  IF r \in Duplicates THEN "duplicate" ELSE "pending"]
    /\ UNCHANGED <<pc, job, loaded, result, elapsed, sinceReap, faults, tables>>

(***************************************************************************)
(* reap_stale: at start-up, and whenever the interval has passed.  An      *)
(* error is logged and swallowed; last_reap is set all the same.           *)
(***************************************************************************)
ReapPoint(w) == pc[w] = "boot" \/ (pc[w] = "top" /\ ReapDue(w))

Reaped(x) == [x EXCEPT !.status = "pending", !.locked_at = NotLocked]

\* The rows that some clock, and that every clock, finds stale.
MaybeStale == {r \in Raws : Stale(row[r], MaxClockSkew)}
SurelyStale == {r \in Raws : Stale(row[r], -MaxClockSkew)}

AfterReap(w) == IF pc[w] = "boot" THEN "top" ELSE "claim"

Reap(w) ==
    /\ ReapPoint(w)
    /\ \E recovered \in SUBSET MaybeStale :
          /\ SurelyStale \subseteq recovered
          /\ row' = [r \in Raws |->
                        IF r \in recovered THEN Reaped(row[r]) ELSE row[r]]
    /\ pc' = [pc EXCEPT ![w] = AfterReap(w)]
    /\ sinceReap' = [sinceReap EXCEPT ![w] = 0]
    /\ UNCHANGED <<job, loaded, result, elapsed, faults, tables>>

ReapFailed(w) ==
    /\ ReapPoint(w)
    /\ Fault
    /\ pc' = [pc EXCEPT ![w] = AfterReap(w)]
    /\ sinceReap' = [sinceReap EXCEPT ![w] = 0]
    /\ UNCHANGED <<row, job, loaded, result, elapsed, tables>>

(***************************************************************************)
(* claim_one: lock the oldest claimable row, then commit the claim.        *)
(***************************************************************************)
AtClaim(w) == pc[w] = "claim" \/ (pc[w] = "top" /\ ~ReapDue(w))

Claim(w, r) ==
    /\ AtClaim(w)
    /\ Claimable(r)
    /\ \A s \in Raws : Claimable(s) => r <= s
    /\ pc' = [pc EXCEPT ![w] = "claiming"]
    /\ job' = [job EXCEPT ![w] = r]
    /\ elapsed' = [elapsed EXCEPT ![w] = 0]
    /\ UNCHANGED <<row, loaded, result, sinceReap, faults, tables>>

\* Mutation of ClaimedRow: the claim counts as an attempt.
ClaimedRowCounting(x, age) ==
    [status |-> "processing", attempts |-> x.attempts + 1, locked_at |-> age]

\* locked_at is now(), the start of the transaction; attempts stays.
ClaimedRow(x, age) == [x EXCEPT !.status = "processing", !.locked_at = age]

CommitClaim(w) ==
    /\ pc[w] = "claiming"
    /\ row' = [row EXCEPT ![job[w]] = ClaimedRow(@, elapsed[w])]
    /\ pc' = [pc EXCEPT ![w] = "classify"]
    /\ UNCHANGED <<job, loaded, result, elapsed, sinceReap, faults, tables>>

\* The claim is committed, but the worker is told otherwise: as below.
ClaimUnconfirmed(w) ==
    /\ pc[w] = "claiming"
    /\ Fault
    /\ row' = [row EXCEPT ![job[w]] = ClaimedRow(@, elapsed[w])]
    /\ Leave(w, "sleep")
    /\ UNCHANGED <<sinceReap, tables>>

\* The claim transaction fails: rolled back, logged by run, then a sleep.
ClaimFailed(w) ==
    /\ pc[w] = "claiming"
    /\ Fault
    /\ Leave(w, "sleep")
    /\ UNCHANGED <<row, sinceReap, tables>>

NothingToClaim(w) ==
    /\ AtClaim(w)
    /\ \A r \in Raws : ~Claimable(r)
    /\ pc' = [pc EXCEPT ![w] = "sleep"]
    /\ UNCHANGED <<row, job, loaded, result, elapsed, sinceReap, faults, tables>>

\* The poll interval is over.
Wake(w) ==
    /\ pc[w] = "sleep"
    /\ pc' = [pc EXCEPT ![w] = "top"]
    /\ UNCHANGED <<row, job, loaded, result, elapsed, sinceReap, faults, tables>>

-----------------------------------------------------------------------------
(***************************************************************************)
(* retry_raw_event, phase 1: SELECT FOR UPDATE, the refusals, and the      *)
(* acquisition.  It waits while a claim holds the row lock.                *)
(***************************************************************************)
AcquiredRow(x) ==
    [status |-> "processing", attempts |-> x.attempts + 1, locked_at |-> 0]

Acquire(o, r) ==
    /\ pc[o] = "idle"
    /\ ~ClaimLocked(r)
    /\ ~RetryRefuses(row[r])
    /\ row' = [row EXCEPT ![r] = AcquiredRow(@)]
    /\ pc' = [pc EXCEPT ![o] = "classify"]
    /\ job' = [job EXCEPT ![o] = r]
    /\ elapsed' = [elapsed EXCEPT ![o] = 0]
    /\ UNCHANGED <<loaded, result, sinceReap, faults, tables>>

\* 404 and 409: the transaction is rolled back.
Refuse(o, r) ==
    /\ pc[o] = "idle"
    /\ ~ClaimLocked(r)
    /\ RetryRefuses(row[r])
    /\ pc' = [pc EXCEPT ![o] = "done"]
    /\ UNCHANGED <<row, job, loaded, result, elapsed, sinceReap, faults, tables>>

-----------------------------------------------------------------------------
(***************************************************************************)
(* Classify, then persist or record the failure: process_one and phases 2  *)
(* and 3 of retry_raw_event.  The next transaction starts by loading the   *)
(* row, so the load is part of the step that gets there.                   *)
(***************************************************************************)
Load(a) == loaded' = [loaded EXCEPT ![a] = row[job[a]]]

ClassifyOk(a, e) ==
    /\ pc[a] = "classify"
    /\ e \in Outcomes[job[a]]
    /\ result' = [result EXCEPT ![a] = e]
    /\ Load(a)
    /\ pc' = [pc EXCEPT ![a] = "persist"]
    /\ UNCHANGED <<row, job, elapsed, sinceReap, faults, tables>>

ClassifyFailed(a) ==
    /\ pc[a] = "classify"
    /\ Load(a)
    /\ pc' = [pc EXCEPT ![a] = "record"]
    /\ UNCHANGED <<row, job, result, elapsed, sinceReap, faults, tables>>

\* The row after the COMMIT of actor a's persist transaction.
PersistedRow(a) ==
    Flushed(row[job[a]], loaded[a], [loaded[a] EXCEPT !.status = "processed"])

\* persist_normalized and its COMMIT; it waits while a claim holds the row.
Persist(a) ==
    /\ pc[a] = "persist"
    /\ ~ClaimLocked(job[a])
    /\ PersistTables(job[a], result[a])
    /\ row' = [row EXCEPT ![job[a]] = PersistedRow(a)]
    /\ Leave(a, After(a))
    /\ UNCHANGED <<sinceReap, faults>>

\* The same, but the connection is lost before the COMMIT is confirmed: the
\* code takes it for a failure and goes on to record one.
PersistUnconfirmed(a) ==
    /\ pc[a] = "persist"
    /\ ~ClaimLocked(job[a])
    /\ Fault
    /\ PersistTables(job[a], result[a])
    /\ row' = [row EXCEPT ![job[a]] = PersistedRow(a)]
    /\ result' = [result EXCEPT ![a] = Unclassified]
    /\ pc' = [pc EXCEPT ![a] = "unconfirmed"]
    /\ UNCHANGED <<job, loaded, elapsed, sinceReap>>

LoadAfterUnconfirmed(a) ==
    /\ pc[a] = "unconfirmed"
    /\ Load(a)
    /\ pc' = [pc EXCEPT ![a] = "record"]
    /\ UNCHANGED <<row, job, result, elapsed, sinceReap, faults, tables>>

\* The persist transaction raises and is rolled back.
PersistFailed(a) ==
    /\ pc[a] = "persist"
    /\ Load(a)
    /\ result' = [result EXCEPT ![a] = Unclassified]
    /\ pc' = [pc EXCEPT ![a] = "record"]
    /\ UNCHANGED <<row, job, elapsed, sinceReap, faults, tables>>

\* What mark_failed makes of the row it loaded.
FailedRow(x) ==
    [status |-> StatusAfterFailure(x.attempts + 1),
     attempts |-> x.attempts + 1,
     locked_at |-> NotLocked]

MarkFailed(w) ==
    LET r == job[w] IN
    /\ pc[w] = "record"
    /\ ~ClaimLocked(r)
    /\ row' = [row EXCEPT ![r] = Flushed(@, loaded[w], FailedRow(loaded[w]))]
    /\ Leave(w, "top")
    /\ UNCHANGED <<sinceReap, faults, tables>>

\* Phase 3 of a retry: pending again; locked_at keeps its value.
RetriedRow(x) == [x EXCEPT !.status = "pending"]

RecordRetryFailure(o) ==
    LET r == job[o] IN
    /\ pc[o] = "record"
    /\ ~ClaimLocked(r)
    /\ row' = [row EXCEPT ![r] = Flushed(@, loaded[o], RetriedRow(loaded[o]))]
    /\ Leave(o, "done")
    /\ UNCHANGED <<sinceReap, faults, tables>>

\* The failure cannot be recorded either: the row stays as it is.
RecordLost(a) ==
    /\ pc[a] = "record"
    /\ Fault
    /\ Leave(a, IF a \in Workers THEN "sleep" ELSE "done")
    /\ UNCHANGED <<row, sinceReap, tables>>

-----------------------------------------------------------------------------
(***************************************************************************)
(* Crashes and time.  An open transaction of a dead process is rolled      *)
(* back.  The supervisor restarts a worker; a retry request is gone.       *)
(* SIGTERM is heeded at the head of the loop and in its sleep: this step   *)
(* at those points.  Past the grace period the worker is killed anywhere.  *)
(***************************************************************************)
Crash(w) ==
    /\ pc[w] # "boot"
    /\ Fault
    /\ Leave(w, "boot")
    /\ sinceReap' = [sinceReap EXCEPT ![w] = 0]
    /\ UNCHANGED <<row, tables>>

ApiCrash(o) ==
    /\ InFlight(o)
    /\ Fault
    /\ Leave(o, "done")
    /\ UNCHANGED <<row, sinceReap, tables>>

Older(age) == IF age \in {NotLocked, MaxAge} THEN age ELSE age + 1

Aged(x) == [x EXCEPT !.locked_at = Older(@)]

\* A live actor is done with its row within WorstCaseInFlight, but for a slow
\* one at its work.
Tick ==
    /\ \A a \in Actors :
          Busy(a) /\ ~MayOverrun(a) => elapsed[a] < WorstCaseInFlight
    /\ row' = [r \in Raws |-> Aged(row[r])]
    /\ elapsed' = [a \in Actors |->
                      IF Busy(a) /\ elapsed[a] < WorstCaseInFlight
                      THEN elapsed[a] + 1 ELSE elapsed[a]]
    /\ sinceReap' = [w \in Workers |->
                        IF sinceReap[w] < ReapInterval
                        THEN sinceReap[w] + 1 ELSE sinceReap[w]]
    /\ UNCHANGED <<pc, job, loaded, result, faults, tables>>

Attempt(a) ==
    \/ \E e \in Results : ClassifyOk(a, e)
    \/ ClassifyFailed(a)
    \/ Persist(a)
    \/ PersistFailed(a)

WorkerStep(w) ==
    \/ Reap(w)
    \/ \E r \in Raws : Claim(w, r)
    \/ CommitClaim(w)
    \/ NothingToClaim(w)
    \/ Wake(w)
    \/ Attempt(w)
    \/ MarkFailed(w)

RetryStep(o) == Attempt(o) \/ RecordRetryFailure(o)

FaultStep ==
    \/ \E w \in Workers : ReapFailed(w) \/ ClaimFailed(w) \/ Crash(w)
    \/ \E w \in Workers \cap Misled : ClaimUnconfirmed(w)
    \/ \E o \in Operators : ApiCrash(o)
    \/ \E a \in Misled : PersistUnconfirmed(a)
    \/ \E a \in Actors : RecordLost(a)

Next ==
    \/ \E r \in Raws : Ingest(r)
    \/ \E w \in Workers : WorkerStep(w)
    \/ \E o \in Operators : \E r \in Raws : Acquire(o, r) \/ Refuse(o, r)
    \/ \E o \in Operators : RetryStep(o)
    \/ \E a \in Misled : LoadAfterUnconfirmed(a)
    \/ FaultStep
    \/ Tick

Spec == Init /\ [][Next]_vars

-----------------------------------------------------------------------------
(***************************************************************************)
(* Properties of the queue.                                                *)
(***************************************************************************)

\* No two actors work on the same raw event.  The claim's row lock excludes
\* two claims, and the stale-lock window, as long as calls keep to the worst
\* case, keeps the reaper off a live worker's row; a row is handed on only when
\* its holder is dead or done.
SoleOwner ==
    \A a, b \in Actors : a # b /\ Busy(a) /\ Busy(b) => job[a] # job[b]

\* The reaper never takes a row from an actor that is busy with it, claim or
\* retry, whatever its clock says, but for those that exceed the worst case:
\* what is stale has no holder that keeps to it.
ReaperSparesTheBusy ==
    \A r \in MaybeStale : \A a \in Actors :
        Busy(a) /\ ~MayOverrun(a) => job[a] # r

\* While a worker is busy with a row, within the worst case, the row says so:
\* nobody else re-pends, re-claims or settles it, and its locked_at is that
\* worker's own claim.
WorkerHoldsRow ==
    \A w \in Workers :
        /\ pc[w] = "claiming" => row[job[w]].status = "pending"
        /\ InFlight(w) => row[job[w]].locked_at = elapsed[w]
        /\ InFlight(w) =>
              \/ row[job[w]].status = "processing"
              \/ /\ pc[w] \in {"unconfirmed", "record"}
                 /\ row[job[w]].status = "processed"

\* A raw event with a normalized event is processed, for good: no failure
\* recorded late, no reaper and no second claim takes it out of that status.
EventMeansProcessed == \A x \in events : row[x.raw].status = "processed"

\* The failure budget is spent exactly once per recorded failure: a row is in
\* the terminal status when, and only when, its budget is used up.
FailedAtBudget ==
    \A r \in Raws : /\ row[r].attempts <= MaxAttempts
                    /\ row[r].status = "failed" <=> row[r].attempts = MaxAttempts

\* processed, failed and duplicate are terminal: with no operator at work, no
\* step takes a row out of them.
TerminalIsFinal ==
    [][\A r \in Raws :
          row[r].status \in {"processed", "failed", "duplicate"} =>
              row'[r].status = row[r].status]_vars

\* A processed raw event has the normalized event its answer calls for.
ProcessedHasEvent ==
    \A r \in Raws :
        row[r].status = "processed" =>
            \/ \E x \in events : x.raw = r
            \/ Unclassified \in Outcomes[r]

\* A duplicate stays a duplicate: neither a worker nor a retry touches it, and
\* no event is derived from it.
DuplicateUntouched ==
    \A r \in Duplicates :
        /\ row[r].status \in {"absent", "duplicate"}
        /\ row[r].attempts = 0
        /\ \A x \in events : x.raw # r

\* ingest_worker.py, reap_stale: a row left in 'processing' with no holder is
\* recovered by the reaper, which needs a locked_at to compare.
OrphanIsReapable ==
    \A r \in Raws :
        row[r].status = "processing" =>
            \/ \E a \in Actors : InFlight(a) /\ job[a] = r
            \/ row[r].locked_at # NotLocked

StatusOfRows == [r \in Raws |-> row[r].status]
AttemptsOfRows == [r \in Raws |-> row[r].attempts]
Logged == {x.raw : x \in events}

Work == INSTANCE WorkItems WITH
    Items <- Raws, SetAside <- Duplicates, Budget <- MaxAttempts,
    status <- StatusOfRows, failures <- AttemptsOfRows, logged <- Logged

\* Seen from outside, the workers take an item, settle it, fail it or give it
\* back, each as one step: stale copies, open claims and reapers never show.
\* With no operator at work and every COMMIT confirmed.
ImplementsWorkItems == Work!Spec
=============================================================================
