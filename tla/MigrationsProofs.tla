-------------------------- MODULE MigrationsProofs --------------------------
(***************************************************************************)
(* Proofs about the migrations, for any number of runs, up and down, and   *)
(* of deliveries meanwhile.                                                *)
(*                                                                         *)
(* The objects come in parts that the revisions add and drop as a whole.   *)
(* So a schema is a set of names of parts, and what an operation does to   *)
(* it is seen from the names.                                              *)
(***************************************************************************)
EXTENDS Migrations, TLAPS

Universe == Models \cup DedupeKey \cup UniqueDedupeKey \cup HashIndex

RawParts == {"base", "key", "unique_key", "hash", "duplicate_of", "pending",
             "hash_index", "unique_primary"}
PartNames == RawParts \cup {"shipments", "shipment_events", "shipment_index",
                            "invoices", "invoice_events", "invoice_index"}

PartOfTable(x) ==
    IF x[2] = "index"
    THEN IF x[1] = "raw_events"
         THEN IF x[3] = "pending_received_at" THEN "pending" ELSE "hash_index"
         ELSE IF x[1] = "shipment_events" THEN "shipment_index" ELSE "invoice_index"
    ELSE x[1]

\* The part that an object belongs to.
PartOf(x) ==
    IF PartOfTable(x) # "raw_events" THEN PartOfTable(x)
    ELSE IF x[3] \in {"duplicate_of_id", "raw_events"} THEN "duplicate_of"
    ELSE IF x[3] = "hash_exact" THEN "hash"
    ELSE IF x[3] = "primary_vendor_hash_exact" THEN "unique_primary"
    ELSE IF x[3] # "dedupe_key" THEN "base"
    ELSE IF x[2] = "unique" THEN "unique_key" ELSE "key"

TableOf(n) ==
    IF n \in RawParts THEN "raw_events"
    ELSE IF n = "shipment_index" THEN "shipment_events"
    ELSE IF n = "invoice_index" THEN "invoice_events" ELSE n

\* The objects of some parts.
Of(P) == {x \in Universe : PartOf(x) \in P}

-----------------------------------------------------------------------------
(***************************************************************************)
(* Every object is of its part.                                            *)
(***************************************************************************)

LEMMA InObjects ==
    ASSUME NEW table, NEW what, NEW names, NEW x \in Objects(table, what, names)
    PROVE  x[1] = table /\ x[2] = what /\ x[3] \in names
BY DEF Objects

LEMMA EntityTablePart ==
    ASSUME NEW t \in {"shipments", "invoices"}, NEW x \in EntityTable(t)
    PROVE  x[1] = t /\ PartOf(x) = t
<1>1. x[1] = t /\ x[2] # "index"
  BY InObjects DEF EntityTable
<1> QED
  BY <1>1 DEF PartOf, PartOfTable

LEMMA EventTablePart ==
    ASSUME NEW t \in {"shipment_events", "invoice_events"}, NEW parent,
           NEW x \in EventTable(t, parent)
    PROVE  x[1] = t /\ PartOf(x) = t
<1>1. x[1] = t /\ x[2] # "index"
  BY InObjects DEF EventTable
<1> QED
  BY <1>1 DEF PartOf, PartOfTable

LEMMA EventIndexPart ==
    ASSUME NEW t \in {"shipment_events", "invoice_events"}, NEW x \in EventIndex(t)
    PROVE  /\ x[1] = t
           /\ PartOf(x) = IF t = "shipment_events" THEN "shipment_index"
                          ELSE "invoice_index"
BY DEF EventIndex, PartOf, PartOfTable

LEMMA BasePart ==
    ASSUME NEW x \in RawEventBase
    PROVE  x[1] = "raw_events" /\ PartOf(x) = "base"
<1>1. CASE x \in Objects("raw_events", "not_null",
                         {"id", "vendor_hint", "payload", "received_at", "status",
                          "attempts"})
  <2>1. /\ x[1] = "raw_events" /\ x[2] = "not_null"
        /\ x[3] \in {"id", "vendor_hint", "payload", "received_at", "status",
                     "attempts"}
    BY <1>1, InObjects
  <2> QED
    BY <2>1 DEF PartOf, PartOfTable
<1>2. CASE x \in Objects("raw_events", "null",
                         {"last_error", "locked_at", "processed_at"})
  <2>1. /\ x[1] = "raw_events" /\ x[2] = "null"
        /\ x[3] \in {"last_error", "locked_at", "processed_at"}
    BY <1>2, InObjects
  <2> QED
    BY <2>1 DEF PartOf, PartOfTable
<1> QED
  BY <1>1, <1>2 DEF RawEventBase

LEMMA RawPart ==
    ASSUME NEW x
    PROVE  /\ x \in DedupeKey => x[1] = "raw_events" /\ PartOf(x) = "key"
           /\ x \in UniqueDedupeKey => x[1] = "raw_events" /\ PartOf(x) = "unique_key"
           /\ x \in HashExact => x[1] = "raw_events" /\ PartOf(x) = "hash"
           /\ x \in DuplicateOf => x[1] = "raw_events" /\ PartOf(x) = "duplicate_of"
           /\ x \in Pending => x[1] = "raw_events" /\ PartOf(x) = "pending"
           /\ x \in HashIndex => x[1] = "raw_events" /\ PartOf(x) = "hash_index"
           /\ x \in UniquePrimary =>
                 x[1] = "raw_events" /\ PartOf(x) = "unique_primary"
BY DEF DedupeKey, UniqueDedupeKey, HashExact, DuplicateOf, Pending, HashIndex,
       UniquePrimary, PartOf, PartOfTable

\* The parts, and nothing else, make up what may be in a schema.
LEMMA Parts ==
    /\ RawEventBase = Of({"base"}) /\ DedupeKey = Of({"key"})
    /\ UniqueDedupeKey = Of({"unique_key"}) /\ HashExact = Of({"hash"})
    /\ DuplicateOf = Of({"duplicate_of"}) /\ Pending = Of({"pending"})
    /\ HashIndex = Of({"hash_index"}) /\ UniquePrimary = Of({"unique_primary"})
    /\ EntityTable("shipments") = Of({"shipments"})
    /\ EntityTable("invoices") = Of({"invoices"})
    /\ EventTable("shipment_events", "shipments") = Of({"shipment_events"})
    /\ EventTable("invoice_events", "invoices") = Of({"invoice_events"})
    /\ EventIndex("shipment_events") = Of({"shipment_index"})
    /\ EventIndex("invoice_events") = Of({"invoice_index"})
<1> DEFINE ES == EntityTable("shipments")
           EI == EntityTable("invoices")
           VS == EventTable("shipment_events", "shipments")
           VI == EventTable("invoice_events", "invoices")
           XS == EventIndex("shipment_events")
           XI == EventIndex("invoice_events")
<1>1. \A x : /\ x \in ES => PartOf(x) = "shipments"
             /\ x \in EI => PartOf(x) = "invoices"
             /\ x \in VS => PartOf(x) = "shipment_events"
             /\ x \in VI => PartOf(x) = "invoice_events"
             /\ x \in XS => PartOf(x) = "shipment_index"
             /\ x \in XI => PartOf(x) = "invoice_index"
  BY EntityTablePart, EventTablePart, EventIndexPart
<1>2. Universe = RawEventBase \cup HashExact \cup DuplicateOf \cup Pending
                 \cup UniquePrimary \cup ES \cup EI \cup VS \cup VI \cup XS \cup XI
                 \cup DedupeKey \cup UniqueDedupeKey \cup HashIndex
  BY DEF Universe, Models
<1> HIDE DEF ES, EI, VS, VI, XS, XI
<1>3. \A x : x \in RawEventBase => PartOf(x) = "base"
  BY BasePart
<1>4. /\ RawEventBase = Of({"base"}) /\ DedupeKey = Of({"key"})
      /\ UniqueDedupeKey = Of({"unique_key"}) /\ HashExact = Of({"hash"})
      /\ DuplicateOf = Of({"duplicate_of"}) /\ Pending = Of({"pending"})
      /\ HashIndex = Of({"hash_index"}) /\ UniquePrimary = Of({"unique_primary"})
  BY <1>1, <1>2, <1>3, RawPart DEF Of
<1>5. ES = Of({"shipments"}) /\ EI = Of({"invoices"}) /\ VS = Of({"shipment_events"})
      /\ VI = Of({"invoice_events"}) /\ XS = Of({"shipment_index"})
      /\ XI = Of({"invoice_index"})
  BY <1>1, <1>2, <1>3, RawPart DEF Of
<1> QED
  BY <1>4, <1>5 DEF ES, EI, VS, VI, XS, XI

LEMMA TableOfPart ==
    ASSUME NEW x \in Universe
    PROVE  PartOf(x) \in PartNames /\ x[1] = TableOf(PartOf(x))
<1>1. CASE x \in RawEventBase
  BY <1>1, BasePart DEF TableOf, PartNames, RawParts
<1>2. CASE x \in DedupeKey \cup UniqueDedupeKey \cup HashExact \cup DuplicateOf
                 \cup Pending \cup HashIndex \cup UniquePrimary
  BY <1>2, RawPart DEF TableOf, PartNames, RawParts
<1>3. CASE x \in EntityTable("shipments") \cup EntityTable("invoices")
  BY <1>3, EntityTablePart DEF TableOf, PartNames, RawParts
<1>4. CASE x \in EventTable("shipment_events", "shipments")
                 \cup EventTable("invoice_events", "invoices")
  BY <1>4, EventTablePart DEF TableOf, PartNames, RawParts
<1>5. CASE x \in EventIndex("shipment_events") \cup EventIndex("invoice_events")
  BY <1>5, EventIndexPart DEF TableOf, PartNames, RawParts
<1> QED
  BY <1>1, <1>2, <1>3, <1>4, <1>5 DEF Universe, Models

-----------------------------------------------------------------------------
(***************************************************************************)
(* The scripts: script 1 goes up from base to head, script i from revision *)
(* i down to i - 1.  Every plan is the rest of a script.  What there is    *)
(* before entry k of a script:                                             *)
(***************************************************************************)
Scripts == 1 .. 4
Script(s) == IF s = 1 THEN UpgradeFrom(1) ELSE DownOf(s)
Length(s) == IF s = 1 THEN 20 ELSE IF s = 2 THEN 9 ELSE IF s = 3 THEN 8 ELSE 3

UpParts(k) ==
    {n \in PartNames :
        \/ n = "base" /\ k > 1
        \/ n = "key" /\ k \in 2 .. 12
        \/ n = "unique_key" /\ k \in 2 .. 11
        \/ n = "pending" /\ (k \in 3 .. 10 \/ k > 15)
        \/ n = "shipments" /\ k > 3
        \/ n = "shipment_events" /\ k > 4
        \/ n = "shipment_index" /\ k > 5
        \/ n = "invoices" /\ k > 6
        \/ n = "invoice_events" /\ k > 7
        \/ n = "invoice_index" /\ k > 8
        \/ n = "hash" /\ k > 13
        \/ n = "duplicate_of" /\ k > 14
        \/ n = "hash_index" /\ k \in 17 .. 18
        \/ n = "unique_primary" /\ k > 19}

BaseParts(k) ==
    {n \in PartNames :
        \/ n = "invoice_index" /\ k = 1
        \/ n = "invoice_events" /\ k < 3
        \/ n = "invoices" /\ k < 4
        \/ n = "shipment_index" /\ k < 5
        \/ n = "shipment_events" /\ k < 6
        \/ n = "shipments" /\ k < 7
        \/ n = "pending" /\ k < 8
        \/ n \in {"base", "key", "unique_key"} /\ k < 9}

EntityParts == {"shipments", "shipment_events", "shipment_index",
                "invoices", "invoice_events", "invoice_index"}

KeyedParts(k) ==
    {n \in PartNames :
        \/ n \in EntityParts \cup {"base"}
        \/ n = "hash_index" /\ k = 1
        \/ n = "pending" /\ (k < 3 \/ k > 7)
        \/ n = "duplicate_of" /\ k < 4
        \/ n = "hash" /\ k < 5
        \/ n = "key" /\ k > 5
        \/ n = "unique_key" /\ k > 6}

RacyParts(k) ==
    {n \in PartNames :
        \/ n \in EntityParts \cup {"base", "hash", "duplicate_of", "pending"}
        \/ n = "unique_primary" /\ k = 1
        \/ n = "hash_index" /\ k > 2}

PartsOn(s, k) ==
    IF s = 1 THEN UpParts(k) ELSE IF s = 2 THEN BaseParts(k)
    ELSE IF s = 3 THEN KeyedParts(k) ELSE RacyParts(k)

\* The revision that the version table must be at.
RevisionOn(s, k) ==
    IF s = 1 THEN IF k < 10 THEN 1 ELSE IF k < 18 THEN 2 ELSE IF k < 21 THEN 3 ELSE 4
    ELSE IF k <= Length(s) THEN s ELSE s - 1

\* An entry that is a stamp goes from one revision to the next and leaves the
\* schema alone.
StampsOn(s, k) ==
    /\ Script(s)[k] = Stamp(RevisionOn(s, k), RevisionOn(s, k + 1))
    /\ PartsOn(s, k + 1) = PartsOn(s, k)

\* An entry that is an operation drops parts, or a table, or adds parts.
Op(drops, table, adds, needs) ==
    [add |-> Of(adds), drop |-> Of(drops), table |-> table, needs |-> needs]

AltersOn(s, k, drops, table, adds, needs) ==
    /\ Script(s)[k] = Op(drops, table, adds, needs)
    /\ k < Length(s) /\ RevisionOn(s, k + 1) = RevisionOn(s, k)
    /\ PartsOn(s, k + 1) =
          {n \in PartsOn(s, k) \ drops : TableOf(n) # table} \cup adds
    /\ "hash" \in drops => drops = {"hash"}
    /\ "hash" \in adds => needs = "no_rows"
    /\ "unique_primary" \in adds => needs = "one_primary"

LEMMA Ops ==
    ASSUME NEW P, NEW w
    PROVE  /\ AddTo(Of(P), w) = Op({}, "none", P, w)
           /\ Drop(Of(P)) = Op(P, "none", {}, "nothing")
           /\ DropTable(w) = Op({}, w, {}, "nothing")
           /\ Of({}) = {}
<1>1. Of({}) = {}
  BY DEF Of
<1> QED
  BY <1>1 DEF AddTo, Drop, DropTable, Op

\* What every entry of a script does.
Goes(s, k) ==
    \/ StampsOn(s, k)
    \/ \E drops, table, adds, needs : AltersOn(s, k, drops, table, adds, needs)

\* 0001, 0002 and 0003 up, entry by entry.
LEMMA UpEntries ==
    /\ Script(1)[1] = Op({}, "none", {"base", "key", "unique_key"}, "nothing")
    /\ Script(1)[2] = Op({}, "none", {"pending"}, "nothing")
    /\ Script(1)[3] = Op({}, "none", {"shipments"}, "nothing")
    /\ Script(1)[4] = Op({}, "none", {"shipment_events"}, "nothing")
    /\ Script(1)[5] = Op({}, "none", {"shipment_index"}, "nothing")
    /\ Script(1)[6] = Op({}, "none", {"invoices"}, "nothing")
    /\ Script(1)[7] = Op({}, "none", {"invoice_events"}, "nothing")
    /\ Script(1)[8] = Op({}, "none", {"invoice_index"}, "nothing")
    /\ Script(1)[10] = Op({"pending"}, "none", {}, "nothing")
    /\ Script(1)[11] = Op({"unique_key"}, "none", {}, "nothing")
    /\ Script(1)[12] = Op({"key"}, "none", {}, "nothing")
    /\ Script(1)[13] = Op({}, "none", {"hash"}, "no_rows")
    /\ Script(1)[14] = Op({}, "none", {"duplicate_of"}, "nothing")
    /\ Script(1)[15] = Op({}, "none", {"pending"}, "nothing")
    /\ Script(1)[16] = Op({}, "none", {"hash_index"}, "nothing")
    /\ Script(1)[18] = Op({"hash_index"}, "none", {}, "nothing")
    /\ Script(1)[19] = Op({}, "none", {"unique_primary"}, "one_primary")
<1>1. RawEventBase \cup DedupeKey \cup UniqueDedupeKey
        = Of({"base", "key", "unique_key"})
  BY Parts DEF Of
<1> QED
  BY <1>1, Parts, Ops DEF Add, Script, UpgradeFrom, UpOf, Up1, Up2, Up3

LEMMA UpScript ==
    ASSUME NEW k \in 1 .. 20
    PROVE  Goes(1, k)
<1>1. AltersOn(1, 1, {}, "none", {"base", "key", "unique_key"}, "nothing")
  BY UpEntries DEF AltersOn, RevisionOn, Length, PartsOn, UpParts,
     PartNames, RawParts, TableOf
<1>2. AltersOn(1, 2, {}, "none", {"pending"}, "nothing")
  BY UpEntries DEF AltersOn, RevisionOn, Length, PartsOn, UpParts,
     PartNames, RawParts, TableOf
<1>3. AltersOn(1, 3, {}, "none", {"shipments"}, "nothing")
  BY UpEntries DEF AltersOn, RevisionOn, Length, PartsOn, UpParts,
     PartNames, RawParts, TableOf
<1>4. AltersOn(1, 4, {}, "none", {"shipment_events"}, "nothing")
  BY UpEntries DEF AltersOn, RevisionOn, Length, PartsOn, UpParts,
     PartNames, RawParts, TableOf
<1>5. AltersOn(1, 5, {}, "none", {"shipment_index"}, "nothing")
  BY UpEntries DEF AltersOn, RevisionOn, Length, PartsOn, UpParts,
     PartNames, RawParts, TableOf
<1>6. AltersOn(1, 6, {}, "none", {"invoices"}, "nothing")
  BY UpEntries DEF AltersOn, RevisionOn, Length, PartsOn, UpParts,
     PartNames, RawParts, TableOf
<1>7. AltersOn(1, 7, {}, "none", {"invoice_events"}, "nothing")
  BY UpEntries DEF AltersOn, RevisionOn, Length, PartsOn, UpParts,
     PartNames, RawParts, TableOf
<1>8. AltersOn(1, 8, {}, "none", {"invoice_index"}, "nothing")
  BY UpEntries DEF AltersOn, RevisionOn, Length, PartsOn, UpParts,
     PartNames, RawParts, TableOf
<1>9. StampsOn(1, 9)
  BY DEF StampsOn, RevisionOn, Length, PartsOn, UpParts, Script, UpgradeFrom,
         UpOf, Up1, Up2, Up3
<1>10. AltersOn(1, 10, {"pending"}, "none", {}, "nothing")
  BY UpEntries DEF AltersOn, RevisionOn, Length, PartsOn, UpParts,
     PartNames, RawParts, TableOf
<1>11. AltersOn(1, 11, {"unique_key"}, "none", {}, "nothing")
  BY UpEntries DEF AltersOn, RevisionOn, Length, PartsOn, UpParts,
     PartNames, RawParts, TableOf
<1>12. AltersOn(1, 12, {"key"}, "none", {}, "nothing")
  BY UpEntries DEF AltersOn, RevisionOn, Length, PartsOn, UpParts,
     PartNames, RawParts, TableOf
<1>13. AltersOn(1, 13, {}, "none", {"hash"}, "no_rows")
  BY UpEntries DEF AltersOn, RevisionOn, Length, PartsOn, UpParts,
     PartNames, RawParts, TableOf
<1>14. AltersOn(1, 14, {}, "none", {"duplicate_of"}, "nothing")
  BY UpEntries DEF AltersOn, RevisionOn, Length, PartsOn, UpParts,
     PartNames, RawParts, TableOf
<1>15. AltersOn(1, 15, {}, "none", {"pending"}, "nothing")
  BY UpEntries DEF AltersOn, RevisionOn, Length, PartsOn, UpParts,
     PartNames, RawParts, TableOf
<1>16. AltersOn(1, 16, {}, "none", {"hash_index"}, "nothing")
  BY UpEntries DEF AltersOn, RevisionOn, Length, PartsOn, UpParts,
     PartNames, RawParts, TableOf
<1>17. StampsOn(1, 17)
  BY DEF StampsOn, RevisionOn, Length, PartsOn, UpParts, Script, UpgradeFrom,
         UpOf, Up1, Up2, Up3
<1>18. AltersOn(1, 18, {"hash_index"}, "none", {}, "nothing")
  BY UpEntries DEF AltersOn, RevisionOn, Length, PartsOn, UpParts,
     PartNames, RawParts, TableOf
<1>19. AltersOn(1, 19, {}, "none", {"unique_primary"}, "one_primary")
  BY UpEntries DEF AltersOn, RevisionOn, Length, PartsOn, UpParts,
     PartNames, RawParts, TableOf
<1>20. StampsOn(1, 20)
  BY DEF StampsOn, RevisionOn, Length, PartsOn, UpParts, Script, UpgradeFrom,
         UpOf, Up1, Up2, Up3
<1> QED
  BY <1>1, <1>2, <1>3, <1>4, <1>5, <1>6, <1>7, <1>8, <1>9, <1>10, <1>11, <1>12,
     <1>13, <1>14, <1>15, <1>16, <1>17, <1>18, <1>19, <1>20
     DEF Goes

\* 0001 down.
LEMMA BaseEntries ==
    /\ Script(2)[1] = Op({"invoice_index"}, "none", {}, "nothing")
    /\ Script(2)[2] = Op({}, "invoice_events", {}, "nothing")
    /\ Script(2)[3] = Op({}, "invoices", {}, "nothing")
    /\ Script(2)[4] = Op({"shipment_index"}, "none", {}, "nothing")
    /\ Script(2)[5] = Op({}, "shipment_events", {}, "nothing")
    /\ Script(2)[6] = Op({}, "shipments", {}, "nothing")
    /\ Script(2)[7] = Op({"pending"}, "none", {}, "nothing")
    /\ Script(2)[8] = Op({}, "raw_events", {}, "nothing")
BY Parts, Ops DEF Add, Script, DownOf, Down1

LEMMA BaseScript ==
    ASSUME NEW k \in 1 .. 9
    PROVE  Goes(2, k)
<1>1. AltersOn(2, 1, {"invoice_index"}, "none", {}, "nothing")
  BY BaseEntries DEF AltersOn, RevisionOn, Length, PartsOn, BaseParts,
     PartNames, RawParts, TableOf
<1>2. AltersOn(2, 2, {}, "invoice_events", {}, "nothing")
  BY BaseEntries DEF AltersOn, RevisionOn, Length, PartsOn, BaseParts,
     PartNames, RawParts, TableOf
<1>3. AltersOn(2, 3, {}, "invoices", {}, "nothing")
  BY BaseEntries DEF AltersOn, RevisionOn, Length, PartsOn, BaseParts,
     PartNames, RawParts, TableOf
<1>4. AltersOn(2, 4, {"shipment_index"}, "none", {}, "nothing")
  BY BaseEntries DEF AltersOn, RevisionOn, Length, PartsOn, BaseParts,
     PartNames, RawParts, TableOf
<1>5. AltersOn(2, 5, {}, "shipment_events", {}, "nothing")
  BY BaseEntries DEF AltersOn, RevisionOn, Length, PartsOn, BaseParts,
     PartNames, RawParts, TableOf
<1>6. AltersOn(2, 6, {}, "shipments", {}, "nothing")
  BY BaseEntries DEF AltersOn, RevisionOn, Length, PartsOn, BaseParts,
     PartNames, RawParts, TableOf
<1>7. AltersOn(2, 7, {"pending"}, "none", {}, "nothing")
  BY BaseEntries DEF AltersOn, RevisionOn, Length, PartsOn, BaseParts,
     PartNames, RawParts, TableOf
<1>8. AltersOn(2, 8, {}, "raw_events", {}, "nothing")
  BY BaseEntries DEF AltersOn, RevisionOn, Length, PartsOn, BaseParts,
     PartNames, RawParts, TableOf
<1>9. StampsOn(2, 9)
  BY DEF StampsOn, RevisionOn, Length, PartsOn, BaseParts, Script, DownOf, Down1
<1> QED
  BY <1>1, <1>2, <1>3, <1>4, <1>5, <1>6, <1>7, <1>8, <1>9 DEF Goes

\* 0002 down.
LEMMA KeyedEntries ==
    /\ Script(3)[1] = Op({"hash_index"}, "none", {}, "nothing")
    /\ Script(3)[2] = Op({"pending"}, "none", {}, "nothing")
    /\ Script(3)[3] = Op({"duplicate_of"}, "none", {}, "nothing")
    /\ Script(3)[4] = Op({"hash"}, "none", {}, "nothing")
    /\ Script(3)[5] = Op({}, "none", {"key"}, "no_rows")
    /\ Script(3)[6] = Op({}, "none", {"unique_key"}, "nothing")
    /\ Script(3)[7] = Op({}, "none", {"pending"}, "nothing")
BY Parts, Ops DEF Add, Script, DownOf, Down2

LEMMA KeyedScript ==
    ASSUME NEW k \in 1 .. 8
    PROVE  Goes(3, k)
<1>1. AltersOn(3, 1, {"hash_index"}, "none", {}, "nothing")
  BY KeyedEntries
     DEF AltersOn, RevisionOn, Length, PartsOn, KeyedParts, EntityParts,
     PartNames, RawParts, TableOf
<1>2. AltersOn(3, 2, {"pending"}, "none", {}, "nothing")
  BY KeyedEntries
     DEF AltersOn, RevisionOn, Length, PartsOn, KeyedParts, EntityParts,
     PartNames, RawParts, TableOf
<1>3. AltersOn(3, 3, {"duplicate_of"}, "none", {}, "nothing")
  BY KeyedEntries
     DEF AltersOn, RevisionOn, Length, PartsOn, KeyedParts, EntityParts,
     PartNames, RawParts, TableOf
<1>4. AltersOn(3, 4, {"hash"}, "none", {}, "nothing")
  BY KeyedEntries
     DEF AltersOn, RevisionOn, Length, PartsOn, KeyedParts, EntityParts,
     PartNames, RawParts, TableOf
<1>5. AltersOn(3, 5, {}, "none", {"key"}, "no_rows")
  BY KeyedEntries
     DEF AltersOn, RevisionOn, Length, PartsOn, KeyedParts, EntityParts,
     PartNames, RawParts, TableOf
<1>6. AltersOn(3, 6, {}, "none", {"unique_key"}, "nothing")
  BY KeyedEntries
     DEF AltersOn, RevisionOn, Length, PartsOn, KeyedParts, EntityParts,
     PartNames, RawParts, TableOf
<1>7. AltersOn(3, 7, {}, "none", {"pending"}, "nothing")
  BY KeyedEntries
     DEF AltersOn, RevisionOn, Length, PartsOn, KeyedParts, EntityParts,
     PartNames, RawParts, TableOf
<1>8. StampsOn(3, 8)
  BY DEF StampsOn, RevisionOn, Length, PartsOn, KeyedParts, EntityParts, Script,
         DownOf, Down2
<1> QED
  BY <1>1, <1>2, <1>3, <1>4, <1>5, <1>6, <1>7, <1>8 DEF Goes

\* 0003 down.
LEMMA RacyEntries ==
    /\ Script(4)[1] = Op({"unique_primary"}, "none", {}, "nothing")
    /\ Script(4)[2] = Op({}, "none", {"hash_index"}, "nothing")
BY Parts, Ops DEF Add, Script, DownOf, Down3

LEMMA RacyScript ==
    ASSUME NEW k \in 1 .. 3
    PROVE  Goes(4, k)
<1>1. AltersOn(4, 1, {"unique_primary"}, "none", {}, "nothing")
  BY RacyEntries DEF AltersOn, RevisionOn, Length, PartsOn, RacyParts, EntityParts,
     PartNames, RawParts, TableOf
<1>2. AltersOn(4, 2, {}, "none", {"hash_index"}, "nothing")
  BY RacyEntries DEF AltersOn, RevisionOn, Length, PartsOn, RacyParts, EntityParts,
     PartNames, RawParts, TableOf
<1>3. StampsOn(4, 3)
  BY DEF StampsOn, RevisionOn, Length, PartsOn, RacyParts, EntityParts, Script,
         DownOf, Down3
<1> QED
  BY <1>1, <1>2, <1>3 DEF Goes

LEMMA OfType ==
    ASSUME NEW P
    PROVE  Of(P) \in SUBSET Universe
BY DEF Of

LEMMA EveryScript ==
    ASSUME NEW s \in Scripts, NEW k \in 1 .. Length(s)
    PROVE  Goes(s, k)
BY UpScript, BaseScript, KeyedScript, RacyScript DEF Scripts, Length

-----------------------------------------------------------------------------
(***************************************************************************)
(* Where a script may be entered, and where it ends.                       *)
(***************************************************************************)
AtParts(i) ==
    IF i = 1 THEN {}
    ELSE EntityParts \cup {"base", "pending"} \cup
         (IF i = 2 THEN {"key", "unique_key"}
          ELSE {"hash", "duplicate_of",
                IF i = 3 THEN "hash_index" ELSE "unique_primary"})

LEMMA SchemaParts ==
    ASSUME NEW i \in 1 .. HeadRevision
    PROVE  SchemaAt(i) = Of(AtParts(i))
<1>1. Models = Of(AtParts(4))
  BY Parts DEF Models, Of, AtParts, EntityParts
<1>2. i \in 1 .. 4
  BY DEF HeadRevision, Revisions
<1>3. i = 3 => (Models \ UniquePrimary) \cup HashIndex = Of(AtParts(3))
  BY <1>1, Parts DEF Of, AtParts, EntityParts
<1>4. i = 2 => (Models \ (UniquePrimary \cup HashExact \cup DuplicateOf))
                  \cup DedupeKey \cup UniqueDedupeKey = Of(AtParts(2))
  BY <1>1, Parts DEF Of, AtParts, EntityParts
<1>5. {} = Of(AtParts(1))
  BY DEF Of, AtParts
<1> QED
  BY <1>1, <1>2, <1>3, <1>4, <1>5 DEF SchemaAt

Enters(s, k) == IF s = 1 THEN k \in {1, 10, 18} ELSE k = 1

LEMMA ScriptEnds ==
    ASSUME NEW s \in Scripts, NEW k \in 1 .. Length(s) + 1,
           Enters(s, k) \/ k = Length(s) + 1
    PROVE  /\ PartsOn(s, k) = AtParts(RevisionOn(s, k))
           /\ RevisionOn(s, k) \in 1 .. HeadRevision
<1>0. HeadRevision = 4
  BY DEF HeadRevision, Revisions
<1>1. CASE s = 1
  BY <1>0, <1>1
     DEF Enters, Length, PartsOn, UpParts, AtParts, EntityParts, RevisionOn,
     PartNames, RawParts
<1>2. CASE s = 2
  BY <1>0, <1>2
     DEF Enters, Length, PartsOn, BaseParts, AtParts, EntityParts, RevisionOn,
     PartNames, RawParts
<1>3. CASE s = 3
  BY <1>0, <1>3
     DEF Enters, Length, PartsOn, KeyedParts, AtParts, EntityParts, RevisionOn,
     PartNames, RawParts
<1>4. CASE s = 4
  BY <1>0, <1>4
     DEF Enters, Length, PartsOn, RacyParts, AtParts, EntityParts, RevisionOn,
     PartNames, RawParts
<1> QED
  BY <1>1, <1>2, <1>3, <1>4 DEF Scripts

\* An operation on a schema that is what the script expects.
LEMMA AltersSchema ==
    ASSUME NEW s, NEW k, NEW drops, NEW table, NEW adds, NEW needs,
           AltersOn(s, k, drops, table, adds, needs),
           NEW S, S = Of(PartsOn(s, k))
    PROVE  LET x == Script(s)[k] IN
           ((S \ x.drop) \ OnTable(S, x.table)) \cup x.add = Of(PartsOn(s, k + 1))
<1> DEFINE x == Script(s)[k]
<1>1. x.drop = Of(drops) /\ x.add = Of(adds) /\ x.table = table
  BY DEF AltersOn, Op
<1>2. PartsOn(s, k + 1) = {n \in PartsOn(s, k) \ drops : TableOf(n) # table} \cup adds
  BY DEF AltersOn
<1>3. \A z \in Universe : z[1] = TableOf(PartOf(z))
  BY TableOfPart
<1> QED
  BY <1>1, <1>2, <1>3 DEF Of, OnTable

Entries ==
    UNION {{Up1[i] : i \in 1 .. 8}, {Up2[i] : i \in 1 .. 7}, {Up3[i] : i \in 1 .. 2},
           {Down1[i] : i \in 1 .. 8}, {Down2[i] : i \in 1 .. 7},
           {Down3[i] : i \in 1 .. 2}, {Stamp(i, j) : i, j \in 1 .. 4}}

LEMMA Lists ==
    /\ Up1 \in Seq(Entries) /\ Up2 \in Seq(Entries) /\ Up3 \in Seq(Entries)
    /\ Down1 \in Seq(Entries) /\ Down2 \in Seq(Entries) /\ Down3 \in Seq(Entries)
    /\ \A i, j \in 1 .. 4 : <<Stamp(i, j)>> \in Seq(Entries)
<1>1. Up1 \in Seq(Entries)
  <2>1. \A i \in 1 .. 8 : Up1[i] \in Entries
    BY DEF Entries
  <2> QED
    BY <2>1 DEF Up1
<1>2. Up2 \in Seq(Entries)
  <2>1. \A i \in 1 .. 7 : Up2[i] \in Entries
    BY DEF Entries
  <2> QED
    BY <2>1 DEF Up2
<1>3. Up3 \in Seq(Entries) 
  <2>1. \A i \in 1 .. 2 : Up3[i] \in Entries
    BY DEF Entries
  <2> QED
    BY <2>1 DEF Up3
<1>4. Down1 \in Seq(Entries)
  <2>1. \A i \in 1 .. 8 : Down1[i] \in Entries
    BY DEF Entries
  <2> QED
    BY <2>1 DEF Down1
<1>5. Down2 \in Seq(Entries)
  <2>1. \A i \in 1 .. 7 : Down2[i] \in Entries
    BY DEF Entries
  <2> QED
    BY <2>1 DEF Down2
<1>6. Down3 \in Seq(Entries)
  <2>1. \A i \in 1 .. 2 : Down3[i] \in Entries
    BY DEF Entries
  <2> QED
    BY <2>1 DEF Down3
<1>7. \A i, j \in 1 .. 4 : <<Stamp(i, j)>> \in Seq(Entries)
  <2>1. \A i, j \in 1 .. 4 : Stamp(i, j) \in Entries
    BY DEF Entries
  <2> QED
    BY <2>1
<1> QED
  BY <1>1, <1>2, <1>3, <1>4, <1>5, <1>6, <1>7

LEMMA ConcatType ==
    ASSUME NEW S, NEW A \in Seq(S), NEW B \in Seq(S)
    PROVE  A \o B \in Seq(S) /\ Len(A \o B) = Len(A) + Len(B)
OBVIOUS

LEMMA ConcatTail ==
    ASSUME NEW S, NEW A \in Seq(S), NEW B \in Seq(S), NEW C \in Seq(S)
    PROVE  /\ B \o C \in Seq(S) /\ A \o B \o C \in Seq(S)
           /\ Len(B \o C) = Len(B) + Len(C)
           /\ Len(A \o B \o C) = Len(A) + Len(B) + Len(C)
           /\ \A j \in 1 .. Len(B \o C) : (B \o C)[j] = (A \o B \o C)[Len(A) + j]
           /\ \A j \in 1 .. Len(C) : C[j] = (A \o B \o C)[Len(A) + Len(B) + j]
OBVIOUS

\* The sequence p is the rest of script s from its entry k.
Rest(p, s, k) ==
    /\ p \in Seq(Entries)
    /\ Len(p) = Length(s) + 1 - k
    /\ \A j \in 1 .. Len(p) : p[j] = Script(s)[k - 1 + j]

LEMMA LegType ==
    ASSUME NEW A \in Seq(Entries), NEW i \in 1 .. 4, NEW j \in 1 .. 4
    PROVE  /\ A \o <<Stamp(i, j)>> \in Seq(Entries)
           /\ Len(A \o <<Stamp(i, j)>>) = Len(A) + 1
<1> DEFINE B == <<Stamp(i, j)>>
<1>1. B \in Seq(Entries) /\ Len(B) = 1
  BY Lists
<1> HIDE DEF B
<1>2. A \o B \in Seq(Entries) /\ Len(A \o B) = Len(A) + Len(B)
  BY <1>1, ConcatType
<1> QED
  BY <1>1, <1>2 DEF B

LEMMA UpOfType ==
    ASSUME NEW i \in 2 .. 4
    PROVE  /\ UpOf(i) \in Seq(Entries)
           /\ Len(UpOf(i)) = IF i = 2 THEN 9 ELSE IF i = 3 THEN 8 ELSE 3
<1>1. CASE i = 2
  <2>1. UpOf(i) = Up1 \o <<Stamp(i - 1, i)>>
    BY <1>1 DEF UpOf
  <2>2. UpOf(i) \in Seq(Entries) /\ Len(UpOf(i)) = Len(Up1) + 1
    BY <2>1, Lists, LegType
  <2>3. Len(Up1) = 8
    BY DEF Up1
  <2> QED
    BY <1>1, <2>2, <2>3
<1>2. CASE i = 3
  <2>1. UpOf(i) = Up2 \o <<Stamp(i - 1, i)>>
    BY <1>2 DEF UpOf
  <2>2. UpOf(i) \in Seq(Entries) /\ Len(UpOf(i)) = Len(Up2) + 1
    BY <2>1, Lists, LegType
  <2>3. Len(Up2) = 7
    BY DEF Up2
  <2> QED
    BY <1>2, <2>2, <2>3
<1>3. CASE i = 4
  <2>1. UpOf(i) = Up3 \o <<Stamp(i - 1, i)>>
    BY <1>3 DEF UpOf
  <2>2. UpOf(i) \in Seq(Entries) /\ Len(UpOf(i)) = Len(Up3) + 1
    BY <2>1, Lists, LegType
  <2>3. Len(Up3) = 2
    BY DEF Up3
  <2> QED
    BY <1>3, <2>2, <2>3
<1> QED
  BY <1>1, <1>2, <1>3

LEMMA DownOfType ==
    ASSUME NEW i \in 2 .. 4
    PROVE  DownOf(i) \in Seq(Entries) /\ Len(DownOf(i)) = Length(i)
<1>1. CASE i = 2
  <2>1. DownOf(i) = Down1 \o <<Stamp(i, i - 1)>>
    BY <1>1 DEF DownOf
  <2>2. DownOf(i) \in Seq(Entries) /\ Len(DownOf(i)) = Len(Down1) + 1
    BY <2>1, Lists, LegType
  <2>3. Len(Down1) = 8
    BY DEF Down1
  <2> QED
    BY <1>1, <2>2, <2>3 DEF Length
<1>2. CASE i = 3
  <2>1. DownOf(i) = Down2 \o <<Stamp(i, i - 1)>>
    BY <1>2 DEF DownOf
  <2>2. DownOf(i) \in Seq(Entries) /\ Len(DownOf(i)) = Len(Down2) + 1
    BY <2>1, Lists, LegType
  <2>3. Len(Down2) = 7
    BY DEF Down2
  <2> QED
    BY <1>2, <2>2, <2>3 DEF Length
<1>3. CASE i = 4
  <2>1. DownOf(i) = Down3 \o <<Stamp(i, i - 1)>>
    BY <1>3 DEF DownOf
  <2>2. DownOf(i) \in Seq(Entries) /\ Len(DownOf(i)) = Len(Down3) + 1
    BY <2>1, Lists, LegType
  <2>3. Len(Down3) = 2
    BY DEF Down3
  <2> QED
    BY <1>3, <2>2, <2>3 DEF Length
<1> QED
  BY <1>1, <1>2, <1>3

LEMMA TailsAreRests ==
    ASSUME NEW A \in Seq(Entries), NEW B \in Seq(Entries), NEW C \in Seq(Entries),
           Script(1) = A \o B \o C, Length(1) = Len(A) + Len(B) + Len(C)
    PROVE  /\ Rest(A \o B \o C, 1, 1)
           /\ Rest(B \o C, 1, Len(A) + 1)
           /\ Rest(C, 1, Len(A) + Len(B) + 1)
<1>1. Len(A) \in Nat /\ Len(B) \in Nat /\ Len(C) \in Nat
  OBVIOUS
<1>2. Rest(A \o B \o C, 1, 1)
  BY <1>1, ConcatTail DEF Rest
<1>3. Rest(B \o C, 1, Len(A) + 1)
  <2>1. B \o C \in Seq(Entries) /\ Len(B \o C) = Len(B) + Len(C)
    BY ConcatTail
  <2>2. \A j \in Nat : (Len(A) + 1) - 1 + j = Len(A) + j
    BY <1>1
  <2>3. Len(B \o C) = Length(1) + 1 - (Len(A) + 1)
    BY <1>1, <2>1
  <2>4. \A j \in 1 .. Len(B \o C) :
            (B \o C)[j] = Script(1)[(Len(A) + 1) - 1 + j]
    <3> SUFFICES ASSUME NEW j \in 1 .. Len(B \o C)
                 PROVE  (B \o C)[j] = Script(1)[(Len(A) + 1) - 1 + j]
      OBVIOUS
    <3>1. (B \o C)[j] = (A \o B \o C)[Len(A) + j]
      BY ConcatTail
    <3>2. (Len(A) + 1) - 1 + j = Len(A) + j
      BY <1>1, <2>1, <2>2
    <3> QED
      BY <3>1, <3>2
  <2> QED
    BY <2>1, <2>3, <2>4 DEF Rest
<1>4. Rest(C, 1, Len(A) + Len(B) + 1)
  BY <1>1, ConcatTail DEF Rest
<1> QED
  BY <1>2, <1>3, <1>4

\* Whatever revision a run finds, what it plans is the rest of a script, from
\* an entry at which the script is at that revision.
LEMMA PlanIsRest ==
    ASSUME NEW m \in Runs, NEW i \in 1 .. HeadRevision, PlanFrom(m, i) # << >>
    PROVE  \E s \in Scripts : \E k \in 1 .. Length(s) :
               Enters(s, k) /\ Rest(PlanFrom(m, i), s, k)
<1>0. HeadRevision = 4
  BY DEF HeadRevision, Revisions
<1>1. CASE m \in Upgrades
  <2> DEFINE A == UpOf(2)
             B == UpOf(3)
             C == UpOf(4)
  <2>1. /\ A \in Seq(Entries) /\ B \in Seq(Entries) /\ C \in Seq(Entries)
        /\ Len(A) = 9 /\ Len(B) = 8 /\ Len(C) = 3
    BY UpOfType
  <2>2. Script(1) = A \o B \o C /\ Length(1) = 20 /\ 1 \in Scripts
    BY DEF Script, UpgradeFrom, Length, Scripts
  <2>3. /\ i = 1 => PlanFrom(m, i) = A \o B \o C
        /\ i = 2 => PlanFrom(m, i) = B \o C
        /\ i = 3 => PlanFrom(m, i) = C
        /\ i = 4 => PlanFrom(m, i) = << >>
    BY <1>1 DEF PlanFrom, UpgradeFrom
  <2> HIDE DEF A, B, C
  <2>4. /\ Rest(A \o B \o C, 1, 1)
        /\ Rest(B \o C, 1, Len(A) + 1)
        /\ Rest(C, 1, Len(A) + Len(B) + 1)
    <3>1. Length(1) = Len(A) + Len(B) + Len(C)
      BY <2>1, <2>2
    <3> QED
      BY <2>1, <2>2, <3>1, TailsAreRests
  <2>5. Rest(B \o C, 1, 10) /\ Rest(C, 1, 18)
    BY <2>1, <2>4
  <2>6. /\ 1 \in 1 .. Length(1) /\ 10 \in 1 .. Length(1) /\ 18 \in 1 .. Length(1)
        /\ Enters(1, 1) /\ Enters(1, 10) /\ Enters(1, 18)
    BY <2>2 DEF Enters
  <2>7. \E k \in 1 .. Length(1) : Enters(1, k) /\ Rest(PlanFrom(m, i), 1, k)
    <3>1. i = 1 \/ i = 2 \/ i = 3
      BY <1>0, <2>3
    <3> QED
      BY <3>1, <2>3, <2>4, <2>5, <2>6
  <2> QED
    BY <2>2, <2>7
<1>2. CASE m \notin Upgrades
  <2>1. i \in 2 .. 4 /\ PlanFrom(m, i) = DownOf(i)
    BY <1>0, <1>2 DEF PlanFrom
  <2>2. i \in Scripts /\ Script(i) = DownOf(i) /\ Enters(i, 1) /\ 1 \in 1 .. Length(i)
    BY <2>1 DEF Scripts, Script, Enters, Length
  <2>3. Rest(DownOf(i), i, 1)
    BY <2>1, <2>2, DownOfType DEF Rest
  <2> QED
    BY <2>1, <2>2, <2>3
<1> QED
  BY <1>1, <1>2

LEMMA RestStep ==
    ASSUME NEW p, NEW s \in Scripts, NEW k \in 1 .. Length(s) + 1, Rest(p, s, k)
    PROVE  /\ p = << >> <=> k = Length(s) + 1
           /\ p # << >> => Head(p) = Script(s)[k] /\ Rest(Tail(p), s, k + 1)
<1>1. Length(s) \in Nat
  BY DEF Length
<1>2. p \in Seq(Entries) /\ Len(p) = Length(s) + 1 - k
  BY DEF Rest
<1>3. p = << >> <=> k = Length(s) + 1
  BY <1>1, <1>2
<1>4. ASSUME p # << >>
      PROVE  Head(p) = Script(s)[k] /\ Rest(Tail(p), s, k + 1)
  <2>1. Len(p) \in Nat \ {0} /\ Head(p) = p[1]
    BY <1>2, <1>4
  <2>2. Head(p) = Script(s)[k]
    BY <2>1 DEF Rest
  <2>3. /\ Tail(p) \in Seq(Entries) /\ Len(Tail(p)) = Len(p) - 1
        /\ \A j \in 1 .. Len(Tail(p)) : Tail(p)[j] = p[j + 1]
    BY <1>2, <1>4
  <2>4. \A j \in 1 .. Len(Tail(p)) : Tail(p)[j] = Script(s)[(k + 1) - 1 + j]
    <3> SUFFICES ASSUME NEW j \in 1 .. Len(Tail(p))
                 PROVE  Tail(p)[j] = Script(s)[(k + 1) - 1 + j]
      OBVIOUS
    <3>1. j + 1 \in 1 .. Len(p)
      BY <1>2, <2>1, <2>3
    <3>2. p[j + 1] = Script(s)[k - 1 + (j + 1)]
      BY <3>1 DEF Rest
    <3>3. k - 1 + (j + 1) = (k + 1) - 1 + j
      BY <1>1, <1>2, <2>1, <2>3
    <3> QED
      BY <2>3, <3>2, <3>3
  <2> QED
    BY <1>1, <1>2, <2>2, <2>3, <2>4 DEF Rest
<1> QED
  BY <1>3, <1>4

-----------------------------------------------------------------------------
(***************************************************************************)
(* The invariant.  A run that has planned is before a script; one that is  *)
(* open is somewhere on it, and has the script's schema, or finds another  *)
(* revision at the next stamp and fails.                                   *)
(***************************************************************************)
Before(m) ==
    \E s \in Scripts : \E k \in 1 .. Length(s) : Enters(s, k) /\ Rest(plan[m], s, k)

Along(m) ==
    \E s \in Scripts : \E k \in 1 .. Length(s) + 1 :
        /\ Rest(plan[m], s, k)
        /\ work.revision = RevisionOn(s, k) => work.schema = Of(PartsOn(s, k))
        /\ k = Length(s) + 1 => work.revision = RevisionOn(s, k)

PlansFit ==
    /\ plan \in [Runs -> Seq(Entries)]
    /\ \A m \in Runs : /\ state[m] = "planned" => Before(m)
                       /\ state[m] = "open" => Along(m)

\* One run at a time is in its transaction, and no delivery of 0002's API.
Exclusive ==
    /\ \A m, n \in Runs : state[m] = "open" /\ state[n] = "open" => m = n
    /\ Locked => looked = {}
    /\ looked # {} => db.revision = 3

\* The rows of the committed and of the open database.
RowsFit(x) ==
    \A d \in Deliveries :
        x.rows[d] # "none" => (x.rows[d] = "unhashed" <=> HashExact \cap x.schema = {})
OnePrimary(x) ==
    UniquePrimary \cap x.schema # {} => \A c, d \in Primaries(x.rows) : c = d
Sound(x) == x \in Database /\ RowsFit(x) /\ OnePrimary(x)

Inv ==
    /\ Sound(db) /\ Sound(work)
    /\ state \in [Runs -> Outcomes] /\ looked \subseteq Deliveries
    /\ SchemaMatchesRevision
    /\ Exclusive
    /\ PlansFit

LEMMA DatabaseFacts ==
    ASSUME NEW x \in Database
    PROVE  /\ x.schema \in SUBSET Universe /\ x.revision \in 1 .. HeadRevision
           /\ x.rows \in [Deliveries -> RowKinds]
           /\ x = [schema |-> x.schema, rows |-> x.rows, revision |-> x.revision]
BY DEF Database, Universe

LEMMA InvInit == Init => Inv
<1> SUFFICES ASSUME Init
             PROVE  Inv
  OBVIOUS
<1>1. PICK i \in StartAt :
          db = [schema |-> SchemaAt(i), revision |-> i,
                rows |-> [d \in Deliveries |-> "none"]]
  BY DEF Init
<1>2. i \in 1 .. HeadRevision /\ SchemaAt(i) \in SUBSET Universe
  BY StartAssumption, SchemaParts, OfType
<1>3. Sound(db)
  <2>1. db \in Database
    BY <1>1, <1>2 DEF Database, Universe, RowKinds
  <2> QED
    BY <1>1, <2>1 DEF Sound, RowsFit, OnePrimary, Primaries
<1>4. SchemaMatchesRevision
  BY <1>1 DEF SchemaMatchesRevision
<1>5. Exclusive /\ PlansFit
  BY DEF Init, Exclusive, PlansFit, Locked
<1> QED
  BY <1>3, <1>4, <1>5 DEF Init, Inv, Outcomes

LEMMA ReadRevisionStep ==
    ASSUME Inv, NEW m \in Runs, ReadRevision(m)
    PROVE  Inv'
<1> DEFINE p == PlanFrom(m, db.revision)
<1>1. db.revision \in 1 .. HeadRevision
  BY DatabaseFacts DEF Inv, Sound
<1>2. /\ state[m] = "new" /\ UNCHANGED <<db, work, looked>>
      /\ plan' = [plan EXCEPT ![m] = p]
      /\ state' \in [Runs -> Outcomes]
      /\ state'[m] = IF p # << >> THEN "planned"
                     ELSE IF m \in Upgrades THEN "ok" ELSE "failed"
      /\ \A n \in Runs \ {m} : state'[n] = state[n]
  BY DEF Inv, PlansFit, ReadRevision, Goto, Outcomes
<1>3. p # << >> => \E s \in Scripts : \E k \in 1 .. Length(s) :
                       Enters(s, k) /\ Rest(p, s, k)
  BY <1>1, PlanIsRest
<1> HIDE DEF p
<1>4. p \in Seq(Entries)
  <2>1. CASE p = << >>
    BY <2>1
  <2>2. CASE p # << >>
    BY <1>3, <2>2 DEF Rest
  <2> QED
    BY <2>1, <2>2
<1>5. plan' \in [Runs -> Seq(Entries)] /\ plan'[m] = p
      /\ \A n \in Runs \ {m} : plan'[n] = plan[n]
  BY <1>2, <1>4 DEF Inv, PlansFit
<1>6. PlansFit'
  <2>1. Before(m)' \/ state'[m] # "planned"
    BY <1>2, <1>3, <1>5 DEF Before
  <2>2. state'[m] # "open"
    BY <1>2
  <2>3. \A n \in Runs \ {m} : Before(n)' = Before(n) /\ Along(n)' = Along(n)
    BY <1>2, <1>5 DEF Before, Along
  <2> QED
    BY <1>2, <1>5, <2>1, <2>2, <2>3 DEF Inv, PlansFit
<1>7. Exclusive'
  BY <1>2 DEF Inv, Exclusive, Locked
<1> QED
  BY <1>2, <1>6, <1>7 DEF Inv, Sound, RowsFit, OnePrimary, SchemaMatchesRevision

LEMMA BeginStep ==
    ASSUME Inv, NEW m \in Runs, Begin(m)
    PROVE  Inv'
<1>1. /\ state[m] = "planned" /\ ~Locked /\ looked = {}
      /\ work' = db /\ UNCHANGED <<db, plan, looked>>
      /\ state' = [state EXCEPT ![m] = "open"]
  BY DEF Begin, Goto
<1>2. state' \in [Runs -> Outcomes] /\ state'[m] = "open"
      /\ \A n \in Runs \ {m} : state'[n] = state[n] /\ state[n] # "open"
  BY <1>1 DEF Inv, Outcomes, Locked
<1>3. Along(m)'
  <2>0. PICK s \in Scripts :
            \E k \in 1 .. Length(s) : Enters(s, k) /\ Rest(plan[m], s, k)
    BY <1>1 DEF Inv, PlansFit, Before
  <2>1. PICK k \in 1 .. Length(s) : Enters(s, k) /\ Rest(plan[m], s, k)
    BY <2>0
  <2>2. Length(s) \in Nat
    BY DEF Length
  <2>3. k \in 1 .. Length(s) + 1 /\ k # Length(s) + 1
    BY <2>2
  <2>4. db.revision = RevisionOn(s, k) => db.schema = Of(PartsOn(s, k))
    BY <2>1, <2>3, ScriptEnds, SchemaParts DEF Inv, SchemaMatchesRevision
  <2> QED
    BY <1>1, <2>1, <2>3, <2>4 DEF Along
<1>4. PlansFit'
  BY <1>1, <1>2, <1>3 DEF Inv, PlansFit, Before, Along
<1>5. Exclusive'
  BY <1>1, <1>2 DEF Inv, Exclusive, Locked
<1> QED
  BY <1>1, <1>2, <1>4, <1>5
     DEF Inv, Sound, RowsFit, OnePrimary, SchemaMatchesRevision

\* What an operation does to the rows keeps them fit, on any schema.
LEMMA AltersRows ==
    ASSUME NEW s, NEW k, NEW drops, NEW table, NEW adds, NEW needs,
           AltersOn(s, k, drops, table, adds, needs),
           Sound(work), Applies(Script(s)[k]),
           work' = [work EXCEPT
                       !.schema = ((@ \ Script(s)[k].drop)
                                     \ OnTable(@, Script(s)[k].table))
                                  \cup Script(s)[k].add,
                       !.rows = RowsAfter(Script(s)[k])]
    PROVE  Sound(work)' /\ work'.revision = work.revision
<1> DEFINE x == Script(s)[k]
<1>1. /\ x.drop = Of(drops) /\ x.add = Of(adds) /\ x.table = table
      /\ x.needs = needs
  BY DEF AltersOn, Op
<1>2. /\ "hash" \in drops => drops = {"hash"}
      /\ "hash" \in adds => needs = "no_rows"
      /\ "unique_primary" \in adds => needs = "one_primary"
  BY DEF AltersOn
<1> HIDE DEF x
<1>3. /\ work.schema \in SUBSET Universe /\ work.revision \in 1 .. HeadRevision
      /\ work.rows \in [Deliveries -> RowKinds]
      /\ RowsFit(work) /\ OnePrimary(work)
  BY DatabaseFacts DEF Sound
<1> DEFINE after == ((work.schema \ x.drop) \ OnTable(work.schema, x.table)) \cup x.add
           rows == RowsAfter(x)
<1>4. work' = [work EXCEPT !.schema = after, !.rows = rows]
  BY DEF x
<1> HIDE DEF after, rows
<1>5. /\ work'.schema = ((work.schema \ Of(drops)) \ OnTable(work.schema, table))
                        \cup Of(adds)
      /\ work'.rows = RowsAfter(x)
      /\ work'.revision = work.revision
  <2>1. work \in Database
    BY DEF Sound
  <2>2. /\ work'.schema = after /\ work'.rows = rows
        /\ work'.revision = work.revision
    BY <1>4, <2>1 DEF Database
  <2> QED
    BY <1>1, <2>2 DEF after, rows
<1>6. RowsAllow(work.rows, needs)
  BY <1>1 DEF Applies, x
<1>7. RowsAfter(x) \in [Deliveries -> RowKinds]
  BY <1>3 DEF RowsAfter, RowKinds
<1>8. work' \in Database
  <2>1. Of(adds) \in SUBSET Universe
    BY OfType
  <2>2. work'.schema \in SUBSET Universe
    BY <1>3, <1>5, <2>1
  <2>3. after \in SUBSET Universe /\ rows \in [Deliveries -> RowKinds]
    BY <1>1, <1>5, <1>7, <2>2 DEF after, rows
  <2> QED
    BY <1>4, <2>3 DEF Sound, Database, Universe
<1>9. RowsFit(work')
  <2> SUFFICES ASSUME NEW d \in Deliveries, RowsAfter(x)[d] # "none"
               PROVE  RowsAfter(x)[d] = "unhashed" <=>
                         HashExact \cap work'.schema = {}
    BY <1>5 DEF RowsFit
  <2>1. HashExact = Of({"hash"}) /\ HashExact # {}
    BY Parts DEF HashExact
  <2>2. table # "raw_events" /\ work.rows[d] # "none"
    BY <1>1 DEF RowsAfter
  <2>3. "hash" \notin adds
    BY <1>2, <1>6, <2>2 DEF RowsAllow
  <2>4. HashExact \cap Of(adds) = {} /\ HashExact \cap OnTable(work.schema, table) = {}
    BY <2>1, <2>2, <2>3, RawPart DEF Of, OnTable
  <2>5. CASE x.drop = HashExact
    BY <1>1, <1>5, <2>2, <2>4, <2>5 DEF RowsAfter
  <2>6. CASE x.drop # HashExact
    <3>1. "hash" \notin drops
      BY <1>1, <1>2, <2>1, <2>6
    <3>2. HashExact \cap Of(drops) = {}
      BY <2>1, <3>1 DEF Of
    <3>3. HashExact \cap work'.schema = HashExact \cap work.schema
      BY <1>5, <2>4, <3>2
    <3>4. RowsAfter(x)[d] = work.rows[d]
      BY <1>1, <2>2, <2>6 DEF RowsAfter
    <3> QED
      BY <1>3, <2>2, <3>3, <3>4 DEF RowsFit
  <2> QED
    BY <2>5, <2>6
<1>10. OnePrimary(work')
  <2>1. \A d \in Deliveries : RowsAfter(x)[d] = "primary" => work.rows[d] = "primary"
    BY DEF RowsAfter
  <2>2. Primaries(work'.rows) \subseteq Primaries(work.rows)
    BY <1>5, <2>1 DEF Primaries
  <2>3. CASE "unique_primary" \in adds
    BY <1>2, <1>6, <2>2, <2>3 DEF RowsAllow, OnePrimary
  <2>4. CASE "unique_primary" \notin adds
    <3>1. UniquePrimary \cap Of(adds) = {}
      BY <2>4, Parts DEF Of
    <3> QED
      BY <1>3, <1>5, <2>2, <3>1 DEF OnePrimary
  <2> QED
    BY <2>3, <2>4
<1> QED
  BY <1>5, <1>8, <1>9, <1>10 DEF Sound, RowsFit, OnePrimary, Primaries

\* One entry of its script, by the run that is open.
LEMMA AlongStep ==
    ASSUME Inv, NEW m \in Runs, Apply(m)
    PROVE  Along(m)' /\ Sound(work)'
<1>1. /\ state[m] = "open" /\ plan[m] # << >>
      /\ plan'[m] = Tail(plan[m])
  BY DEF Inv, PlansFit, Apply
<1>2. PICK s \in Scripts :
          \E k \in 1 .. Length(s) + 1 :
             /\ Rest(plan[m], s, k)
             /\ work.revision = RevisionOn(s, k) => work.schema = Of(PartsOn(s, k))
             /\ k = Length(s) + 1 => work.revision = RevisionOn(s, k)
  BY <1>1 DEF Inv, PlansFit, Along
<1>3. PICK k \in 1 .. Length(s) + 1 :
             /\ Rest(plan[m], s, k)
             /\ work.revision = RevisionOn(s, k) => work.schema = Of(PartsOn(s, k))
  BY <1>2
<1>4. Length(s) \in Nat
  BY DEF Length
<1>5. /\ k \in 1 .. Length(s) /\ Head(plan[m]) = Script(s)[k]
      /\ k + 1 \in 1 .. Length(s) + 1 /\ Rest(plan'[m], s, k + 1)
  BY <1>1, <1>3, <1>4, RestStep
<1> DEFINE x == Script(s)[k]
<1>6. /\ Possible(x)
      /\ work' = IF IsStamp(x) THEN [work EXCEPT !.revision = x.to]
                 ELSE [work EXCEPT
                          !.schema = ((@ \ x.drop) \ OnTable(@, x.table)) \cup x.add,
                          !.rows = RowsAfter(x)]
  BY <1>5 DEF Apply
<1>7. CASE StampsOn(s, k)
  <2>1. /\ x = Stamp(RevisionOn(s, k), RevisionOn(s, k + 1))
        /\ PartsOn(s, k + 1) = PartsOn(s, k)
    BY <1>7 DEF StampsOn
  <2>2. IsStamp(x) /\ x.from = RevisionOn(s, k) /\ x.to = RevisionOn(s, k + 1)
    BY <2>1 DEF IsStamp, Stamp
  <2>3. work.revision = RevisionOn(s, k) /\ work' = [work EXCEPT !.revision = x.to]
    BY <1>6, <2>2 DEF Possible
  <2>4. work \in Database
    BY DEF Inv, Sound
  <2>5. /\ work'.revision = RevisionOn(s, k + 1)
        /\ work'.schema = work.schema /\ work'.rows = work.rows
    BY <2>2, <2>3, <2>4, DatabaseFacts
  <2>6. RevisionOn(s, k + 1) \in 1 .. HeadRevision
    BY <1>4, <1>5 DEF RevisionOn, Scripts, Length, HeadRevision, Revisions
  <2>7. work' \in Database
    BY <2>2, <2>3, <2>4, <2>6 DEF Database
  <2>8. Sound(work)'
    BY <2>5, <2>7 DEF Inv, Sound, RowsFit, OnePrimary, Primaries
  <2> QED
    BY <1>3, <1>5, <2>1, <2>3, <2>5, <2>8 DEF Along
<1>8. CASE \E drops, table, adds, needs : AltersOn(s, k, drops, table, adds, needs)
  <2>1. PICK drops, table, adds, needs : AltersOn(s, k, drops, table, adds, needs)
    BY <1>8
  <2>2. ~IsStamp(x)
    BY <2>1 DEF AltersOn, Op, IsStamp
  <2>3. /\ Applies(x)
        /\ work' = [work EXCEPT
                       !.schema = ((@ \ x.drop) \ OnTable(@, x.table)) \cup x.add,
                       !.rows = RowsAfter(x)]
    BY <1>6, <2>2 DEF Possible
  <2>4. Sound(work)' /\ work'.revision = work.revision
    BY <2>1, <2>3, AltersRows DEF Inv
  <2>5. work'.schema = ((work.schema \ x.drop) \ OnTable(work.schema, x.table))
                       \cup x.add
    BY <2>3, DatabaseFacts DEF Inv, Sound
  <2>6. /\ RevisionOn(s, k + 1) = RevisionOn(s, k) /\ k + 1 # Length(s) + 1
    BY <1>4, <1>5, <2>1 DEF AltersOn
  <2>7. work'.revision = RevisionOn(s, k + 1) =>
           work'.schema = Of(PartsOn(s, k + 1))
    BY <1>3, <2>1, <2>4, <2>5, <2>6, AltersSchema
  <2> QED
    BY <1>5, <2>4, <2>6, <2>7 DEF Along
<1> QED
  BY <1>5, <1>7, <1>8, EveryScript DEF Goes

LEMMA ApplyStep ==
    ASSUME Inv, NEW m \in Runs, Apply(m)
    PROVE  Inv'
<1>1. /\ state[m] = "open" /\ plan[m] # << >> /\ UNCHANGED <<db, state, looked>>
      /\ plan' = [plan EXCEPT ![m] = Tail(@)]
  BY DEF Apply
<1>2. Along(m)' /\ Sound(work)'
  BY AlongStep
<1>3. /\ plan' \in [Runs -> Seq(Entries)]
      /\ \A n \in Runs \ {m} : plan'[n] = plan[n] /\ state[n] # "open"
  <2>1. Tail(plan[m]) \in Seq(Entries)
    BY <1>1 DEF Inv, PlansFit
  <2> QED
    BY <1>1, <2>1 DEF Inv, PlansFit, Exclusive
<1>4. PlansFit'
  BY <1>1, <1>2, <1>3 DEF Inv, PlansFit, Before
<1> QED
  BY <1>1, <1>2, <1>4 DEF Inv, Sound, RowsFit, OnePrimary, SchemaMatchesRevision,
     Exclusive, Locked

LEMMA CommitStep ==
    ASSUME Inv, NEW m \in Runs, Commit(m)
    PROVE  Inv'
<1>1. /\ state[m] = "open" /\ plan[m] = << >> /\ db' = work
      /\ UNCHANGED <<work, plan, looked>>
      /\ state' = [state EXCEPT ![m] = "ok"]
  BY DEF Commit, Goto
<1>2. /\ state' \in [Runs -> Outcomes] /\ state'[m] = "ok" /\ looked = {}
      /\ \A n \in Runs \ {m} : state'[n] = state[n] /\ state[n] # "open"
  BY <1>1 DEF Inv, Outcomes, Exclusive, Locked
<1>3. work.schema = SchemaAt(work.revision)
  <2>1. PICK s \in Scripts :
            \E k \in 1 .. Length(s) + 1 :
               /\ Rest(plan[m], s, k)
               /\ work.revision = RevisionOn(s, k) => work.schema = Of(PartsOn(s, k))
               /\ k = Length(s) + 1 => work.revision = RevisionOn(s, k)
    BY <1>1 DEF Inv, PlansFit, Along
  <2>2. PICK k \in 1 .. Length(s) + 1 :
               /\ Rest(plan[m], s, k)
               /\ work.revision = RevisionOn(s, k) => work.schema = Of(PartsOn(s, k))
               /\ k = Length(s) + 1 => work.revision = RevisionOn(s, k)
    BY <2>1
  <2>3. k = Length(s) + 1
    BY <1>1, <2>2, RestStep
  <2>4. /\ PartsOn(s, k) = AtParts(RevisionOn(s, k))
        /\ RevisionOn(s, k) \in 1 .. HeadRevision
    BY <2>3, ScriptEnds
  <2> QED
    BY <2>2, <2>3, <2>4, SchemaParts
<1>4. PlansFit'
  BY <1>1, <1>2 DEF Inv, PlansFit, Before, Along
<1>5. Exclusive'
  BY <1>1, <1>2 DEF Exclusive, Locked
<1> QED
  BY <1>1, <1>2, <1>3, <1>4, <1>5 DEF Inv, Sound, RowsFit, OnePrimary, Primaries,
     SchemaMatchesRevision

LEMMA EndStep ==
    ASSUME Inv, NEW m \in Runs, Abort(m) \/ Kill(m)
    PROVE  Inv'
<1>1. PICK to \in {"failed", "killed"} : state' = [state EXCEPT ![m] = to]
  BY DEF Abort, Kill, Goto
<1>2. UNCHANGED <<db, work, plan, looked>>
  BY DEF Abort, Kill
<1>3. /\ state' \in [Runs -> Outcomes] /\ state'[m] = to
      /\ \A n \in Runs \ {m} : state'[n] = state[n]
  BY <1>1 DEF Inv, Outcomes
<1>4. PlansFit' /\ Exclusive'
  BY <1>2, <1>3 DEF Inv, PlansFit, Before, Along, Exclusive, Locked
<1> QED
  BY <1>2, <1>3, <1>4 DEF Inv, Sound, RowsFit, OnePrimary, Primaries,
     SchemaMatchesRevision

\* A delivery is stored while no run is open, in a way that fits the schema.
LEMMA StoreKeeps ==
    ASSUME Inv, NEW d \in Deliveries, NEW kind \in RowKinds \ {"none"}, Store(d, kind),
           looked' \subseteq looked, ~Locked,
           kind = "unhashed" <=> HashExact \cap db.schema = {},
           kind = "primary" /\ UniquePrimary \cap db.schema # {} =>
               Primaries(db.rows) = {}
    PROVE  Inv'
<1>1. UNCHANGED <<work, plan, state>> /\ db' = [db EXCEPT !.rows[d] = kind]
  BY DEF Store
<1>2. /\ db \in Database /\ RowsFit(db) /\ OnePrimary(db)
      /\ db.rows \in [Deliveries -> RowKinds]
  BY DatabaseFacts DEF Inv, Sound
<1>3. /\ db'.rows = [db.rows EXCEPT ![d] = kind]
      /\ db'.schema = db.schema /\ db'.revision = db.revision
      /\ db' \in Database
  BY <1>1, <1>2 DEF Database
<1>4. \A c \in Deliveries : db'.rows[c] = IF c = d THEN kind ELSE db.rows[c]
  BY <1>2, <1>3
<1>5. RowsFit(db')
  BY <1>2, <1>3, <1>4 DEF RowsFit
<1>6. OnePrimary(db')
  <2>1. Primaries(db'.rows) \subseteq
            Primaries(db.rows) \cup (IF kind = "primary" THEN {d} ELSE {})
    BY <1>4 DEF Primaries
  <2> QED
    BY <1>2, <1>3, <2>1 DEF OnePrimary
<1>7. PlansFit' /\ Exclusive'
  BY <1>1, <1>3 DEF Inv, PlansFit, Before, Along, Exclusive, Locked
<1>8. Sound(db)'
  BY <1>3, <1>5, <1>6 DEF Sound, RowsFit, OnePrimary, Primaries
<1> QED
  BY <1>1, <1>3, <1>7, <1>8 DEF Inv, Sound, RowsFit, OnePrimary, Primaries,
     SchemaMatchesRevision

\* Which schemas have a hash, and which the unique index of primaries.
LEMMA SchemaHas ==
    ASSUME NEW i \in 1 .. HeadRevision
    PROVE  /\ HashExact \cap SchemaAt(i) = {} <=> i < 3
           /\ UniquePrimary \cap SchemaAt(i) = {} <=> i < 4
<1>1. HashExact = Of({"hash"}) /\ UniquePrimary = Of({"unique_primary"})
      /\ SchemaAt(i) = Of(AtParts(i))
  BY Parts, SchemaParts
<1>2. HashExact # {} /\ UniquePrimary # {}
  BY DEF HashExact, UniquePrimary
<1>3. i \in 1 .. 4
  BY DEF HeadRevision, Revisions
<1>4. /\ "hash" \in AtParts(i) <=> i >= 3
      /\ "unique_primary" \in AtParts(i) <=> i = 4
  BY <1>3 DEF AtParts, EntityParts
<1> QED
  BY <1>1, <1>2, <1>3, <1>4 DEF Of

LEMMA DeliverStep ==
    ASSUME Inv, NEW d \in Deliveries, Deliver(d)
    PROVE  Inv'
<1>1. db.revision \in 1 .. HeadRevision /\ db.schema = SchemaAt(db.revision)
  BY DatabaseFacts DEF Inv, Sound, SchemaMatchesRevision
<1>2. /\ HashExact \cap db.schema = {} <=> db.revision < 3
      /\ UniquePrimary \cap db.schema = {} <=> db.revision < 4
  BY <1>1, SchemaHas
<1>3. CASE InsertKeyed(d)
  BY <1>2, <1>3, StoreKeeps DEF InsertKeyed, Free, RowKinds
<1>4. CASE LookForPrimary(d)
  <2>1. CASE Primaries(db.rows) = {}
    <3>1. /\ looked' = looked \cup {d} /\ UNCHANGED <<db, work, plan, state>>
          /\ db.revision = 3 /\ ~Locked
      BY <1>4, <2>1 DEF LookForPrimary, Free
    <3>2. Exclusive' /\ PlansFit'
      BY <3>1 DEF Inv, Exclusive, Locked, PlansFit, Before, Along
    <3> QED
      BY <3>1, <3>2 DEF Inv, Sound, RowsFit, OnePrimary, Primaries,
         SchemaMatchesRevision
  <2>2. CASE Primaries(db.rows) # {}
    <3>1. /\ Store(d, "duplicate") /\ looked' = looked
          /\ db.revision = 3 /\ ~Locked
      BY <1>4, <2>2 DEF LookForPrimary, Free
    <3> QED
      BY <1>2, <3>1, StoreKeeps DEF RowKinds
  <2> QED
    BY <2>1, <2>2
<1>5. CASE InsertLooked(d)
  <2>1. Store(d, "primary") /\ looked' \subseteq looked /\ looked # {}
    BY <1>5 DEF InsertLooked
  <2>2. ~Locked /\ db.revision = 3
    BY <2>1 DEF Inv, Exclusive
  <2> QED
    BY <1>2, <2>1, <2>2, StoreKeeps DEF RowKinds
<1>6. CASE InsertUnlessPrimary(d)
  <2>1. /\ db.revision = 4 /\ ~Locked /\ looked' = looked
        /\ Store(d, IF Primaries(db.rows) = {} THEN "primary" ELSE "duplicate")
    BY <1>6 DEF InsertUnlessPrimary, Free
  <2> QED
    BY <1>2, <2>1, StoreKeeps DEF RowKinds
<1> QED
  BY <1>3, <1>4, <1>5, <1>6 DEF Deliver

LEMMA InvStep == Inv /\ [Next]_vars => Inv'
<1> SUFFICES ASSUME Inv, [Next]_vars
             PROVE  Inv'
  OBVIOUS
<1>1. ASSUME NEW m \in Runs, Step(m) \/ Kill(m)
      PROVE  Inv'
  BY <1>1, ReadRevisionStep, BeginStep, ApplyStep, CommitStep, EndStep DEF Step
<1>2. CASE UNCHANGED vars
  BY <1>2
     DEF vars, Inv, Sound, RowsFit, OnePrimary, Primaries, SchemaMatchesRevision,
     Exclusive, Locked, PlansFit, Before, Along
<1> QED
  BY <1>1, <1>2, DeliverStep DEF Next, AllEnded

LEMMA InvAlways == Spec => []Inv
BY InvInit, InvStep, PTL DEF Spec

-----------------------------------------------------------------------------
(***************************************************************************)
(* What follows.                                                           *)
(***************************************************************************)

\* The schema has only objects that some revision has, the rows are of a known
\* kind and the stamp is a revision, in the committed and the open database.
THEOREM TypeCorrect == Spec => []TypeOK
<1>1. Inv => TypeOK
  BY DEF Inv, Sound, TypeOK
<1> QED
  BY <1>1, InvAlways, PTL

\* Any number of runs, up and down, with plans from any revision, some of them
\* stale, cut off anywhere: the schema is that of the stamp.
THEOREM SchemaAlwaysMatches == Spec => []SchemaMatchesRevision
<1>1. Inv => SchemaMatchesRevision
  BY DEF Inv
<1> QED
  BY <1>1, InvAlways, PTL

\* No migration leaves a row without a hash in a table that demands one, nor
\* one with a hash where there is no column.
THEOREM RowsAlwaysFit == Spec => []RowsFitSchema
<1>1. Inv => RowsFitSchema
  BY DEF Inv, Sound, RowsFit, RowsFitSchema
<1> QED
  BY <1>1, InvAlways, PTL

\* Whatever the API of 0002 did before, at the head a content has one primary.
THEOREM HeadAlwaysAdmitsOne == Spec => []HeadAdmitsOnePrimary
<1>1. Inv => HeadAdmitsOnePrimary
  <2> SUFFICES ASSUME Inv, db.revision = HeadRevision
               PROVE  \A c, d \in Primaries(db.rows) : c = d
    BY DEF HeadAdmitsOnePrimary
  <2>1. db.revision = 4 /\ 4 \in 1 .. HeadRevision
    BY DEF HeadRevision, Revisions
  <2>2. UniquePrimary \cap db.schema # {}
    BY <2>1, SchemaHas DEF Inv, SchemaMatchesRevision
  <2> QED
    BY <2>2 DEF Inv, Sound, OnePrimary
<1> QED
  BY <1>1, InvAlways, PTL
=============================================================================
