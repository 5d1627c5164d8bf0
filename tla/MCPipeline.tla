----------------------------- MODULE MCPipeline -----------------------------
(***************************************************************************)
(* One body sent twice, and two workers that race for it, with a budget of *)
(* three attempts.  One tick is a whole stale-lock window, so that a row   *)
(* is stale once time passes, and a round sweeps before each claim.  One   *)
(* worker is slow: its calls may outlast the window, and the other one may *)
(* reap and claim its row.                                                 *)
(*                                                                         *)
(* There is no operator: with one, the two liveness properties fail        *)
(* (MCUnreapable shows how), and retries race workers in MCRetryEndpoint.  *)
(***************************************************************************)
EXTENDS Pipeline

CONSTANTS gfp, ref, delivered, h1

MCRaws == {1, 2}
MCEventTimes == {1}
MCVendorHint == [r \in Raws |-> gfp]
MCHashOf == [r \in Raws |-> h1]
MCNoDuplicates == {}

\* The answer depends on the body only.
MCOutcomes ==
    [r \in Raws |->
        {[kind |-> "shipment", ref |-> ref, state |-> delivered, at |-> 1]}]
=============================================================================
