-------------------------- MODULE IngestionProofs --------------------------
(***************************************************************************)
(* Proofs about Ingestion: for every number of concurrent deliveries there *)
(* is one primary per content, and every duplicate has its parent.         *)
(*                                                                         *)
(* That a commit does not add a second primary follows from what holds     *)
(* while the transaction is open: the index admits one open primary per    *)
(* content, and only while none is committed (OpenPrimaryIsAlone).  That a *)
(* duplicate has its parent follows from parent being set only from a      *)
(* committed primary, which is never withdrawn (ParentsAreStored).         *)
(***************************************************************************)
EXTENDS Ingestion, TLAPS

\* A row is open only between its INSERT and the end of its transaction, and
\* committed only after it.
OpenRows ==
    \A d \in Deliveries :
        /\ open[d] # "none" => pc[d] \in {"respond", "commit"}
        /\ stored[d] # "none" => pc[d] = "done"

OpenPrimaryIsAlone ==
    \A c, d \in Deliveries :
        open[c] = "primary" /\ SameContent(c, d) =>
            /\ stored[d] # "primary"
            /\ open[d] = "primary" => c = d

ParentsAreStored ==
    \A d \in Deliveries :
        /\ parent[d] # NoParent => parent[d] \in Primaries(d)
        /\ pc[d] = "chain" \/ open[d] = "duplicate" \/ stored[d] = "duplicate"
             => parent[d] # NoParent

Inv ==
    /\ TypeOK
    /\ OpenRows
    /\ OpenPrimaryIsAlone
    /\ ParentsAreStored
    /\ OnePrimaryPerContent

LEMMA SameContentEquivalence ==
    /\ \A c, d : SameContent(c, d) => SameContent(d, c)
    /\ \A c, d, e : SameContent(c, d) /\ SameContent(d, e) => SameContent(c, e)
BY DEF SameContent

LEMMA InvInit == Init => Inv
BY DEF Init, Inv, TypeOK, OpenRows, OpenPrimaryIsAlone, ParentsAreStored,
       OnePrimaryPerContent, RowStates, PCs, Acks

-----------------------------------------------------------------------------
LEMMA TypeOKStep == TypeOK /\ [Next]_vars => TypeOK'
<1> SUFFICES ASSUME TypeOK, [Next]_vars
             PROVE  TypeOK'
  OBVIOUS
<1> USE DEF TypeOK, RowStates, PCs, Acks, Goto
<1>1. CASE UNCHANGED vars
  BY <1>1 DEF vars
<1>2. ASSUME NEW d \in Deliveries,
             Receive(d) \/ RejectBody(d) \/ InsertPrimary(d) \/ Conflict(d)
      PROVE  TypeOK'
  BY <1>2 DEF Receive, RejectBody, InsertPrimary, Conflict
<1>3. ASSUME NEW d \in Deliveries, Lookup(d)
      PROVE  TypeOK'
  BY <1>3 DEF Lookup, Primaries
<1>4. ASSUME NEW d \in Deliveries,
             InsertDuplicate(d) \/ Respond(d) \/ Commit(d) \/ Rollback(d)
      PROVE  TypeOK'
  BY <1>4 DEF InsertDuplicate, Respond, Commit, Rollback
<1> QED
  BY <1>1, <1>2, <1>3, <1>4 DEF Next, RequestStep

\* Steps that move the request along and touch no row: the row facts carry
\* over as long as the new place is one where they ask for nothing more.
LEMMA PlaceStep ==
    ASSUME Inv, NEW d \in Deliveries, NEW to \in {"insert", "lookup", "done", "commit"},
           pc' = [pc EXCEPT ![d] = to],
           to \in {"insert", "lookup"} => open[d] = "none" /\ stored[d] = "none",
           to = "done" => open[d] = "none",
           to = "commit" => stored[d] = "none",
           UNCHANGED <<stored, open, parent>>
    PROVE  OpenRows' /\ OpenPrimaryIsAlone' /\ ParentsAreStored'
           /\ OnePrimaryPerContent'
BY DEF Inv, TypeOK, OpenRows, OpenPrimaryIsAlone, ParentsAreStored,
       OnePrimaryPerContent, Primaries

LEMMA InsertPrimaryStep ==
    ASSUME Inv, NEW d \in Deliveries, InsertPrimary(d)
    PROVE  OpenRows' /\ OpenPrimaryIsAlone' /\ ParentsAreStored'
           /\ OnePrimaryPerContent'
<1>1. /\ open' = [open EXCEPT ![d] = "primary"]
      /\ pc' = [pc EXCEPT ![d] = "respond"]
      /\ stored' = stored /\ parent' = parent
      /\ pc[d] = "insert"
      /\ \A c \in Deliveries : SameContent(c, d) =>
            open[c] # "primary" /\ stored[c] # "primary"
  BY DEF InsertPrimary, Goto, MustWait, Primaries
<1>2. OpenRows'
  BY <1>1 DEF Inv, TypeOK, OpenRows
<1>3. OpenPrimaryIsAlone'
  BY <1>1, SameContentEquivalence DEF Inv, TypeOK, OpenPrimaryIsAlone
<1>4. ParentsAreStored' /\ OnePrimaryPerContent'
  BY <1>1 DEF Inv, TypeOK, ParentsAreStored, OnePrimaryPerContent, Primaries
<1> QED
  BY <1>2, <1>3, <1>4

LEMMA ChainStep ==
    ASSUME Inv, NEW d \in Deliveries, Lookup(d) \/ InsertDuplicate(d)
    PROVE  OpenRows' /\ OpenPrimaryIsAlone' /\ ParentsAreStored'
           /\ OnePrimaryPerContent'
<1>1. CASE Lookup(d)
  <2>1. PICK p \in Primaries(d) :
          /\ parent' = [parent EXCEPT ![d] = p]
          /\ pc' = [pc EXCEPT ![d] = "chain"]
          /\ stored' = stored /\ open' = open
          /\ pc[d] = "lookup"
    BY <1>1 DEF Lookup, Goto
  <2>2. p \in Deliveries /\ p # NoParent
    BY NoParentAssumption DEF Primaries
  <2>3. OpenRows' /\ OpenPrimaryIsAlone' /\ OnePrimaryPerContent'
    BY <2>1 DEF Inv, TypeOK, OpenRows, OpenPrimaryIsAlone, OnePrimaryPerContent
  <2>4. ParentsAreStored'
    BY <2>1, <2>2 DEF Inv, TypeOK, ParentsAreStored, Primaries
  <2> QED
    BY <2>3, <2>4
<1>2. CASE InsertDuplicate(d)
  <2>1. /\ open' = [open EXCEPT ![d] = "duplicate"]
        /\ pc' = [pc EXCEPT ![d] = "respond"]
        /\ stored' = stored /\ parent' = parent
        /\ pc[d] = "chain"
    BY <1>2 DEF InsertDuplicate, Goto
  <2> QED
    BY <2>1 DEF Inv, TypeOK, OpenRows, OpenPrimaryIsAlone, ParentsAreStored,
                OnePrimaryPerContent, Primaries
<1> QED
  BY <1>1, <1>2

\* The commit publishes an open row; the index facts that held while it was
\* open are what the published rows need.
LEMMA CommitStep ==
    ASSUME Inv, NEW d \in Deliveries, Commit(d)
    PROVE  OpenRows' /\ OpenPrimaryIsAlone' /\ ParentsAreStored'
           /\ OnePrimaryPerContent'
<1>1. /\ stored' = [stored EXCEPT ![d] = open[d]]
      /\ open' = [open EXCEPT ![d] = "none"]
      /\ pc' = [pc EXCEPT ![d] = "done"]
      /\ parent' = parent
      /\ pc[d] = "commit" /\ stored[d] = "none"
  BY DEF Commit, Goto, Inv, OpenRows
<1>2. \A c \in Deliveries : c # d => stored'[c] = stored[c] /\ open'[c] = open[c]
                                     /\ pc'[c] = pc[c]
  BY <1>1 DEF Inv, TypeOK
<1>3. stored'[d] = open[d] /\ open'[d] = "none" /\ pc'[d] = "done"
  BY <1>1 DEF Inv, TypeOK
<1>4. OpenRows'
  BY <1>2, <1>3 DEF Inv, OpenRows
<1>5. OpenPrimaryIsAlone'
  BY <1>2, <1>3 DEF Inv, OpenPrimaryIsAlone
<1>6. OnePrimaryPerContent'
  BY <1>2, <1>3, SameContentEquivalence
     DEF Inv, OpenPrimaryIsAlone, OnePrimaryPerContent
<1>7. \A c \in Deliveries : stored[c] = "primary" => stored'[c] = "primary"
  BY <1>1, <1>2
<1>8. ParentsAreStored'
  BY <1>1, <1>2, <1>3, <1>7 DEF Inv, ParentsAreStored, Primaries
<1> QED
  BY <1>4, <1>5, <1>6, <1>8

LEMMA RollbackStep ==
    ASSUME Inv, NEW d \in Deliveries, Rollback(d)
    PROVE  OpenRows' /\ OpenPrimaryIsAlone' /\ ParentsAreStored'
           /\ OnePrimaryPerContent'
<1>1. /\ open' = [open EXCEPT ![d] = "none"]
      /\ pc' = [pc EXCEPT ![d] = "done"]
      /\ stored' = stored /\ parent' = parent
  BY DEF Rollback, Goto
<1> QED
  BY <1>1 DEF Inv, TypeOK, OpenRows, OpenPrimaryIsAlone, ParentsAreStored,
              OnePrimaryPerContent, Primaries

LEMMA InvStep == Inv /\ [Next]_vars => Inv'
<1> SUFFICES ASSUME Inv, [Next]_vars
             PROVE  OpenRows' /\ OpenPrimaryIsAlone' /\ ParentsAreStored'
                    /\ OnePrimaryPerContent'
  BY TypeOKStep DEF Inv
<1>1. CASE UNCHANGED vars
  BY <1>1 DEF vars, Inv, OpenRows, OpenPrimaryIsAlone, ParentsAreStored,
              OnePrimaryPerContent, Primaries
<1>2. ASSUME NEW d \in Deliveries,
             Receive(d) \/ RejectBody(d) \/ Conflict(d) \/ Respond(d)
      PROVE  OpenRows' /\ OpenPrimaryIsAlone' /\ ParentsAreStored'
             /\ OnePrimaryPerContent'
  <2>1. CASE Receive(d)
    <3>1. pc[d] = "idle" /\ open[d] = "none" /\ stored[d] = "none"
      BY <2>1 DEF Receive, Inv, OpenRows
    <3> QED
      BY <2>1, <3>1, PlaceStep DEF Receive, Goto
  <2>2. CASE RejectBody(d)
    <3>1. pc[d] = "idle" /\ open[d] = "none"
      BY <2>2 DEF RejectBody, Inv, OpenRows
    <3> QED
      BY <2>2, <3>1, PlaceStep DEF RejectBody, Goto
  <2>3. CASE Conflict(d)
    <3>1. pc[d] = "insert" /\ open[d] = "none" /\ stored[d] = "none"
      BY <2>3 DEF Conflict, Inv, OpenRows
    <3> QED
      BY <2>3, <3>1, PlaceStep DEF Conflict, Goto
  <2>4. CASE Respond(d)
    <3>1. pc[d] = "respond" /\ stored[d] = "none"
      BY <2>4 DEF Respond, Inv, OpenRows
    <3> QED
      BY <2>4, <3>1, PlaceStep DEF Respond, Goto
  <2> QED
    BY <1>2, <2>1, <2>2, <2>3, <2>4
<1> QED
  BY <1>1, <1>2, InsertPrimaryStep, ChainStep, CommitStep, RollbackStep
     DEF Next, RequestStep

LEMMA InvAlways == Spec => []Inv
BY InvInit, InvStep, PTL DEF Spec

\* An ingestion request and its row are well typed, for any number of requests.
THEOREM TypeCorrect == Spec => []TypeOK
<1>1. Inv => TypeOK
  BY DEF Inv
<1> QED
  BY <1>1, InvAlways, PTL

\* However many identical requests race, one primary is committed at most.
THEOREM UniquePrimary == Spec => []OnePrimaryPerContent
<1>1. Inv => OnePrimaryPerContent
  BY DEF Inv
<1> QED
  BY <1>1, InvAlways, PTL

\* Every committed duplicate points at a committed primary of its content.
THEOREM ParentExists == Spec => []DuplicatesHaveParent
<1>1. Inv => DuplicatesHaveParent
  BY DEF Inv, ParentsAreStored, DuplicatesHaveParent
<1> QED
  BY <1>1, InvAlways, PTL

\* A 202 never names a parent that is not stored.
THEOREM AckIsTruthful == Spec => []AckedParentIsStored
<1>1. Inv => AckedParentIsStored
  BY DEF Inv, ParentsAreStored, AckedParentIsStored, Primaries
<1> QED
  BY <1>1, InvAlways, PTL
=============================================================================
