-------------------------- MODULE MCRawEventQueue --------------------------
(***************************************************************************)
(* Instances of RawEventQueue.  The runs differ in who takes part and in   *)
(* what the classifier may answer; the .cfg files choose.                  *)
(***************************************************************************)
EXTENDS RawEventQueue, TLC

CONSTANTS gfp,                     \* the vendor
          ref,                     \* the one entity reference
          inTransit, delivered     \* states

MCOneRaw == {1}
MCThreeRaws == {1, 2, 3}
MCEventTimes == 1..2
MCVendorHint == [r \in Raws |-> gfp]

Shipment(state, at) ==
    [kind |-> "shipment", ref |-> ref, state |-> state, at |-> at]
Invoice(state, at) ==
    [kind |-> "invoice", ref |-> ref, state |-> state, at |-> at]

\* The classifier always gives the same answer.
StableOutcomes == [r \in Raws |-> {Shipment(delivered, 2)}]

\* The classifier may answer the same payload differently the next time: with
\* another time, with another kind of entity, or with none.
NoisyOutcomes ==
    [r \in Raws |->
        CASE r = 1 -> {Shipment(delivered, 2), Shipment(inTransit, 1)}
          [] r = 2 -> {Shipment(inTransit, 1), Invoice(delivered, 2), Unclassified}
          [] OTHER -> {Unclassified}]

\* Two answers that differ in time and state.
NoisyTimeOutcomes ==
    [r \in Raws |-> {Shipment(inTransit, 1), Shipment(delivered, 2)}]

MCNoDuplicates == {}
MCLastIsDuplicate == {CHOOSE r \in Raws : \A s \in Raws : s <= r}

WorkersAlike == Permutations(Workers)
ActorsAlike == Permutations(Workers) \cup Permutations(Operators)
=============================================================================
