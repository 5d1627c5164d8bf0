--------------------------- MODULE MCEntityReader ---------------------------
(***************************************************************************)
(* Three raw events of one vendor and reference, with every combination of *)
(* answers over two kinds, two states and three times: some share a time,  *)
(* arrive late, or go to the invoice of the same reference.  Two clients   *)
(* poll the shipment.                                                      *)
(***************************************************************************)
EXTENDS EntityReader, TLC

CONSTANTS gfp, ref

MCRaws == 1..3
MCEventTimes == 1..3
MCVendorHint == [r \in MCRaws |-> gfp]
MCWanted ==
    [c \in Clients |-> [kind |-> "shipment", vendor |-> gfp, ref |-> ref]]

ClientsAlike == Permutations(Clients)
=============================================================================
