---------------------------- MODULE ContentHash ----------------------------
(***************************************************************************)
(* canonical_hash (src/app/utils/hashing.py): what two webhook bodies must *)
(* have in common to be one content.  Ingestion takes the hash of each     *)
(* request as a constant; its instance gets it from here.                  *)
(*                                                                         *)
(* A JSON text is a record: a leaf, a list of texts, or an object, whose   *)
(* members stand in the order of the text and may repeat a key.            *)
(***************************************************************************)
EXTENDS Naturals, SequencesExt

CONSTANT Keys        \* the keys of objects, in the order of their bytes

-----------------------------------------------------------------------------
\* The dict orjson.loads builds: a key keeps the place of its first member and
\* takes the value of its last.
Members(object) ==
    FoldLeft(LAMBDA d, m : IF \E i \in DOMAIN d : d[i].key = m.key
                           THEN [i \in DOMAIN d |-> IF d[i].key = m.key THEN m ELSE d[i]]
                           ELSE Append(d, m),
             << >>, object)

RECURSIVE Loaded(_)
Loaded(text) ==
    CASE text.kind = "leaf" -> text
      [] text.kind = "list" ->
            [kind |-> "list", of |-> [i \in DOMAIN text.of |-> Loaded(text.of[i])]]
      [] text.kind = "object" ->
            LET dict == Members(text.of) IN
            [kind |-> "object",
             of |-> [i \in DOMAIN dict |->
                        [key |-> dict[i].key, value |-> Loaded(dict[i].value)]]]

\* Mutation of Sorted: without OPT_SORT_KEYS.
Unsorted(dict) == dict

\* OPT_SORT_KEYS.
Sorted(dict) ==
    SortSeq(dict, LAMBDA m, n : \E i, j \in DOMAIN Keys :
                                    i < j /\ m.key = Keys[i] /\ n.key = Keys[j])

\* orjson.dumps, as the tokens it writes.
RECURSIVE Serialized(_)
Serialized(payload) ==
    CASE payload.kind = "leaf" -> <<payload.of>>
      [] payload.kind = "list" ->
            <<"[">> \o FlattenSeq([i \in DOMAIN payload.of |->
                                      Serialized(payload.of[i]) \o <<",">>]) \o <<"]">>
      [] payload.kind = "object" ->
            LET dict == Sorted(payload.of) IN
            <<"{">> \o FlattenSeq([i \in DOMAIN dict |->
                           <<dict[i].key, ":">> \o Serialized(dict[i].value) \o <<",">>])
            \o <<"}">>

\* SHA-256 is taken to have no collisions: the digest stands for what it digests.
canonical_hash(payload) == Serialized(payload)

-----------------------------------------------------------------------------
(***************************************************************************)
(* What "the same content" means, told from the texts alone.               *)
(***************************************************************************)
LastOf(object, key) ==
    object[CHOOSE i \in DOMAIN object :
              /\ object[i].key = key
              /\ \A j \in DOMAIN object : object[j].key = key => j <= i].value

KeysOf(object) == {object[i].key : i \in DOMAIN object}

RECURSIVE SameText(_, _)
SameText(s, t) ==
    /\ s.kind = t.kind
    /\ CASE s.kind = "leaf" -> s.of = t.of
         [] s.kind = "list" ->
               /\ Len(s.of) = Len(t.of)
               /\ \A i \in DOMAIN s.of : SameText(s.of[i], t.of[i])
         [] s.kind = "object" ->
               /\ KeysOf(s.of) = KeysOf(t.of)
               /\ \A k \in KeysOf(s.of) : SameText(LastOf(s.of, k), LastOf(t.of, k))
=============================================================================
