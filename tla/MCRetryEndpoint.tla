-------------------------- MODULE MCRetryEndpoint --------------------------
(***************************************************************************)
(* Two raw events of one entity, and a duplicate: the later event comes    *)
(* first, the classifier may find nothing in the other one the next time.  *)
(***************************************************************************)
EXTENDS RetryEndpoint, TLC

CONSTANTS gfp, ref, inTransit, delivered

MCRaws == {1, 2, 3}
MCEventTimes == 1..2
MCVendorHint == [r \in Raws |-> gfp]
MCDuplicates == {3}

Shipment(state, at) ==
    [kind |-> "shipment", ref |-> ref, state |-> state, at |-> at]

MCOutcomes ==
    [r \in Raws |->
        CASE r = 1 -> {Shipment(delivered, 2)}
          [] r = 2 -> {Shipment(inTransit, 1), Unclassified}
          [] OTHER -> {Unclassified}]
=============================================================================
