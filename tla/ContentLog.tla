----------------------------- MODULE ContentLog -----------------------------
(***************************************************************************)
(* The full idempotency of README.md:5, from end to end: a vendor may      *)
(* deliver a content as often as it likes, and it may be processed as often*)
(* as crashes and retries make it; it counts once.  There are no requests, *)
(* transactions, statuses, workers or locks here.  The first delivery of a *)
(* content stands for it; it makes one event at most, and the entity moves *)
(* in the step that logs the event, if the event is later, and in no other.*)
(***************************************************************************)
EXTENDS Integers

CONSTANTS
    Deliveries,   \* bodies that vendors post
    ContentOf,    \* what each of them says, and whose it is
    Readings,     \* the events that may be made of each
    Entities,     \* keys of shipments and invoices
    Absent        \* an entity that nothing is known of

VARIABLES
    arrived,      \* the first stored delivery of each content
    events,       \* the event log
    entities      \* the state of each entity

vars == <<arrived, events, entities>>

Init ==
    /\ arrived = {}
    /\ events = {}
    /\ entities = [k \in Entities |-> Absent]

Arrive(d) ==
    /\ \A c \in arrived : ContentOf[c] # ContentOf[d]
    /\ arrived' = arrived \cup {d}
    /\ UNCHANGED <<events, entities>>

LaterOf(known, x) ==
    IF known = Absent \/ known.last_event_at < x.at
    THEN [state |-> x.state, last_event_at |-> x.at]
    ELSE known

Count(x) ==
    /\ x.raw \in arrived
    /\ \A y \in events : y.raw # x.raw
    /\ events' = events \cup {x}
    /\ entities' = [entities EXCEPT ![x.entity] = LaterOf(@, x)]
    /\ UNCHANGED arrived

Next == \E d \in Deliveries : Arrive(d) \/ \E x \in Readings[d] : Count(x)

Spec == Init /\ [][Next]_vars
=============================================================================
