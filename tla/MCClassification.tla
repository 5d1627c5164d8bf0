-------------------------- MODULE MCClassification --------------------------
(***************************************************************************)
(* The retries of src/app/llm/__init__.py.                                 *)
(***************************************************************************)
EXTENDS Classification
=============================================================================
