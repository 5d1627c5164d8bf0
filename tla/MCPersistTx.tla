---------------------------- MODULE MCPersistTx ----------------------------
(***************************************************************************)
(* Two calls for one raw event (a re-run beside the first run) and one for *)
(* another, whose answers may name the same entity, another reference or   *)
(* the other kind.                                                         *)
(***************************************************************************)
EXTENDS PersistTx

CONSTANTS c1, c2, c3, p1, a1, gfp, ref, other, inTransit, delivered

MCRaws == {1, 2}
MCEventTimes == 1..2
MCVendorHint == [r \in Raws |-> gfp]
MCRawOf == [c \in Calls |-> IF c = c3 THEN 2 ELSE 1]

Shipment(r, state, at) ==
    [kind |-> "shipment", ref |-> r, state |-> state, at |-> at]

Invoice == [kind |-> "invoice", ref |-> ref, state |-> delivered, at |-> 1]

\* Two answers for one raw event may differ in time, reference or kind; the
\* other raw event may be older or newer than either.
MCAnswers ==
    [c \in Calls |->
        CASE c = c1 -> {Shipment(ref, inTransit, 1), Shipment(other, delivered, 2),
                        Invoice, Unclassified}
          [] c = c2 -> {Shipment(ref, delivered, 2), Invoice, Unclassified}
          [] c = c3 -> {Shipment(ref, inTransit, 1), Shipment(ref, delivered, 2),
                        Invoice}]
=============================================================================
