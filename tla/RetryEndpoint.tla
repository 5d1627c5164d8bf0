--------------------------- MODULE RetryEndpoint ---------------------------
(***************************************************************************)
(* POST /raw-events/{id}/retry (src/app/api/raw_events.py) as the operator *)
(* sees it: the retry of RawEventQueue, the read-back of its row (phase 4  *)
(* of src/app/services/retry.py), the two lookups of its event, and the    *)
(* response.  Read-back and lookups are transactions of their own, in      *)
(* which workers and the reaper go on.                                     *)
(***************************************************************************)
EXTENDS RawEventQueue

VARIABLES
    call,      \* where each request is, beyond the pc of its retry
    asked,     \* raw_event_id of the request, once it is acquired
    reply      \* the response, filled in as it is read

api == <<call, asked, reply>>
endpoint == <<vars, api>>

NoReply == [code |-> 0, status |-> "absent", kind |-> "none", state |-> "none"]

EndpointInit ==
    /\ Init
    /\ call = [o \in Operators |-> "retry"]
    /\ asked = [o \in Operators |-> NoJob]
    /\ reply = [o \in Operators |-> NoReply]

Goto(o, to) == call' = [call EXCEPT ![o] = to] /\ UNCHANGED asked

Answer(o, code) ==
    /\ Goto(o, "answered")
    /\ reply' = [reply EXCEPT ![o].code = code]

-----------------------------------------------------------------------------
(***************************************************************************)
(* Phases 1 to 3: the steps of RawEventQueue, and what the except clauses  *)
(* of the endpoint make of their exceptions.                               *)
(***************************************************************************)
Begin(o, r) ==
    /\ Acquire(o, r)
    /\ asked' = [asked EXCEPT ![o] = r]
    /\ UNCHANGED <<call, reply>>

Refused(o, r) ==
    /\ Refuse(o, r)
    /\ Answer(o, IF row[r].status = "absent" THEN 404 ELSE 409)

Process(o) ==
    /\ \/ \E e \in Results : ClassifyOk(o, e)
       \/ ClassifyFailed(o)
       \/ PersistFailed(o)
       \/ o \in Misled /\ (PersistUnconfirmed(o) \/ LoadAfterUnconfirmed(o))
    /\ UNCHANGED api

Persisted(o) ==
    /\ Persist(o)
    /\ Goto(o, "readback")
    /\ UNCHANGED reply

\* The exception of phase 2, or that of a phase 3 that failed too.
Failed(o) ==
    /\ RecordRetryFailure(o) \/ RecordLost(o)
    /\ Answer(o, 502)

\* The API process dies during the retry: there is no response.
Died(o) ==
    /\ ApiCrash(o)
    /\ Goto(o, "gone")
    /\ UNCHANGED reply

-----------------------------------------------------------------------------
(***************************************************************************)
(* Phase 4 and the lookups.                                                *)
(***************************************************************************)
ReadBack(o) ==
    /\ call[o] = "readback"
    /\ reply' = [reply EXCEPT ![o].status = row[asked[o]].status]
    /\ Goto(o, "shipment")
    /\ UNCHANGED vars

\* The read raises inside retry_raw_event: for the endpoint a failed retry.
ReadBackFailed(o) ==
    /\ call[o] = "readback"
    /\ Answer(o, 502)
    /\ UNCHANGED vars

\* Mutation of Found: the events of the entity's kind, not of the raw event.
FoundAny(o, kind) == {x \in events : x.entity.kind = kind}

\* event_model.raw_event_id == raw.id, in the table of one kind.
Found(o, kind) == {x \in events : x.raw = asked[o] /\ x.entity.kind = kind}

\* One table of the loop, and the break.
Hit(o, kind) ==
    /\ call[o] = kind
    /\ \E x \in Found(o, kind) :
          reply' = [reply EXCEPT
              ![o] = [@ EXCEPT !.code = 200, !.kind = kind, !.state = x.state]]
    /\ Goto(o, "answered")
    /\ UNCHANGED vars

\* Mutation of Miss: the shipments are polled until the event is there.
MissPolls(o, kind) ==
    /\ call[o] = kind /\ Found(o, kind) = {}
    /\ Goto(o, "shipment")
    /\ UNCHANGED <<vars, reply>>

Miss(o, kind) ==
    /\ call[o] = kind
    /\ Found(o, kind) = {}
    /\ IF kind = "shipment" THEN Goto(o, "invoice") /\ UNCHANGED reply
                            ELSE Answer(o, 200)
    /\ UNCHANGED vars

\* Outside the try: the server's own 500.
LookupFailed(o) ==
    /\ call[o] \in Kinds
    /\ Answer(o, 500)
    /\ UNCHANGED vars

\* The API process dies during one of these reads.
DiedReading(o) ==
    /\ call[o] \in {"readback"} \cup Kinds
    /\ Goto(o, "gone")
    /\ UNCHANGED <<vars, reply>>

RequestStep(o) ==
    \/ Process(o) \/ Persisted(o) \/ Failed(o)
    \/ ReadBack(o)
    \/ \E kind \in Kinds : Hit(o, kind) \/ Miss(o, kind)

OthersStep ==
    /\ \/ \E r \in Raws : Ingest(r)
       \/ \E w \in Workers :
             \/ WorkerStep(w)
             \/ ReapFailed(w) \/ ClaimFailed(w) \/ RecordLost(w) \/ Crash(w)
       \/ \E w \in Workers \cap Misled :
             \/ ClaimUnconfirmed(w)
             \/ PersistUnconfirmed(w) \/ LoadAfterUnconfirmed(w)
       \/ Tick
    /\ UNCHANGED api

EndpointNext ==
    \/ \E o \in Operators :
          \/ \E r \in Raws : Begin(o, r) \/ Refused(o, r)
          \/ RequestStep(o)
          \/ ReadBackFailed(o) \/ LookupFailed(o)
          \/ Died(o) \/ DiedReading(o)
    \/ OthersStep

EndpointSpec == EndpointInit /\ [][EndpointNext]_endpoint

\* A request that was acquired goes on, and so do the workers and time.
EndpointFairSpec ==
    /\ EndpointSpec
    /\ \A o \in Operators : WF_endpoint(RequestStep(o))
    /\ \A w \in Workers : WF_endpoint(WorkerStep(w) /\ UNCHANGED api)
    /\ \A w \in Workers \cap Misled :
          WF_endpoint(LoadAfterUnconfirmed(w) /\ UNCHANGED api)
    /\ WF_endpoint(Tick /\ UNCHANGED api)

-----------------------------------------------------------------------------
(***************************************************************************)
(* Properties of the response.                                             *)
(***************************************************************************)

\* A 200 tells the truth about the log, whoever else processes the row in the
\* meantime: the state and kind it names are those of this raw event's event,
\* and it names none only if the answer may be that there is none.
ReplyReportsLog ==
    \A o \in Operators : reply[o].code = 200 =>
        \/ \E x \in events :
              /\ x.raw = asked[o]
              /\ x.entity.kind = reply[o].kind /\ x.state = reply[o].state
        \/ /\ reply[o].kind = "none"
           /\ Unclassified \in Outcomes[asked[o]]

\* Whoever asked for a retry that was taken up gets a response, unless the
\* process dies: no claim, reaper or other processor holds it up for ever.
RetryIsAnswered ==
    \A o \in Operators :
        asked[o] # NoJob ~> call[o] \in {"answered", "gone"}
=============================================================================
