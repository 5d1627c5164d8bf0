---------------------------- MODULE EntityReader ----------------------------
(***************************************************************************)
(* GET /shipments/{id} and GET /invoices/{id} (src/app/api/shipments.py,   *)
(* src/app/api/invoices.py and the services they call) while raw events    *)
(* are being persisted.                                                    *)
(*                                                                         *)
(* One request reads in one transaction, but at READ COMMITTED: the SELECT *)
(* of the entity row and the SELECT of its events each see what is         *)
(* committed when they run, and a persist may come between the two.        *)
(*                                                                         *)
(* The persists are those of Normalization, with its deterministic         *)
(* classifier.  The order of the listed events and their columns beyond    *)
(* state and time are left out.                                            *)
(***************************************************************************)
EXTENDS Normalization

CONSTANTS
    Clients,      \* API clients, each with one request at a time
    Wanted        \* the entity each client asks for

ASSUME WantedAssumption == Wanted \in [Clients -> EntityKeys]

PCs == {"idle", "get", "list"}

VARIABLES
    pc,           \* where each client's request is
    got,          \* the entity row it loaded; Absent stands for the 404
    listed,       \* the events it listed
    before        \* history: the entity's events when the request arrived

readers == <<pc, got, listed, before>>
system == <<vars, readers>>

ReaderTypeOK ==
    /\ TypeOK
    /\ pc \in [Clients -> PCs]
    /\ got \in [Clients -> EntityRows \cup {Absent}]
    /\ listed \in [Clients -> SUBSET EventRows]
    /\ before \in [Clients -> SUBSET EventRows]

ReaderInit ==
    /\ Init
    /\ pc = [c \in Clients |-> "idle"]
    /\ got = [c \in Clients |-> Absent]
    /\ listed = [c \in Clients |-> {}]
    /\ before = [c \in Clients |-> {}]

-----------------------------------------------------------------------------
\* A worker or a retry persists raw event r, for the first time or again.
PersistEvent(r) == Persist(r) /\ UNCHANGED readers

\* A client sends its first request, or the next one.
Request(c) ==
    /\ pc[c] = "idle"
    /\ pc' = [pc EXCEPT ![c] = "get"]
    /\ before' = [before EXCEPT ![c] = EventsOf(Wanted[c])]
    /\ UNCHANGED <<vars, got, listed>>

\* Mutation of LoadedEntity: the session outlives the request and its identity
\* map answers.
EntityFromIdentityMap(c) ==
    IF got[c] # Absent THEN got[c] ELSE entities[Wanted[c]]

\* session.get in a session of its own.
LoadedEntity(c) == entities[Wanted[c]]

\* get_shipment, get_invoice: without a row the answer is 404 and no event.
GetEntity(c) ==
    /\ pc[c] = "get"
    /\ got' = [got EXCEPT ![c] = LoadedEntity(c)]
    /\ listed' = [listed EXCEPT ![c] = {}]
    /\ pc' = [pc EXCEPT ![c] = IF LoadedEntity(c) = Absent THEN "idle" ELSE "list"]
    /\ UNCHANGED <<vars, before>>

\* Mutation of ListedEvents: the events are read before the entity.
EventsReadFirst(c) == before[c]

\* The event table's rows with this entity_id.
ListedEvents(c) == EventsOf(Wanted[c])

\* list_events, and the response.
ListEvents(c) ==
    /\ pc[c] = "list"
    /\ listed' = [listed EXCEPT ![c] = ListedEvents(c)]
    /\ pc' = [pc EXCEPT ![c] = "idle"]
    /\ UNCHANGED <<vars, got, before>>

ReaderStep(c) == Request(c) \/ GetEntity(c) \/ ListEvents(c)

ReaderNext ==
    \/ \E r \in Raws : PersistEvent(r)
    \/ \E c \in Clients : ReaderStep(c)

ReaderSpec == ReaderInit /\ [][ReaderNext]_system

-----------------------------------------------------------------------------
(***************************************************************************)
(* Properties of the responses, which are what got and listed are while    *)
(* the client is idle.                                                     *)
(***************************************************************************)

\* The current state in a response is the state of one of the events in the
\* same response, whatever was persisted between the two reads: the history
\* may be ahead of the state, the state is never ahead of the history.
HistoryBacksState ==
    \A c \in Clients :
        pc[c] = "idle" /\ got[c] # Absent =>
            \E x \in listed[c] : /\ x.state = got[c].state
                                 /\ x.at = got[c].last_event_at

\* A response holds every event that was persisted before its request came,
\* and its current state is not older than any of them.
ResponseIsFresh ==
    \A c \in Clients :
        pc[c] = "idle" =>
            /\ before[c] \subseteq listed[c]
            /\ \A x \in before[c] : /\ got[c] # Absent
                                    /\ x.at <= got[c].last_event_at

\* A client that polls an entity never sees it go back: once found it stays
\* found, and a row that differs from the one read last is strictly newer.
RepeatedReadsAdvance ==
    [][\A c \in Clients :
          got[c] # Absent /\ got'[c] # got[c] =>
              /\ got'[c] # Absent
              /\ got[c].last_event_at < got'[c].last_event_at]_system
=============================================================================
