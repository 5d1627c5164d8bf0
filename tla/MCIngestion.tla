---------------------------- MODULE MCIngestion ----------------------------
(***************************************************************************)
(* Three deliveries of one content, the same content under another         *)
(* vendor's URL, and another content under the same URL.                   *)
(*                                                                         *)
(* The hashes of all pairs of texts over two keys and two leaves: members  *)
(* in every order, repeated keys, objects in objects and in lists.         *)
(***************************************************************************)
EXTENDS Ingestion, ContentHash

CONSTANTS d1, d2, d3, d4, d5, gfp, maeu, h1, h2

MCKeys == <<"a", "b">>

Leaf(x) == [kind |-> "leaf", of |-> x]
List(items) == [kind |-> "list", of |-> items]
Object(members) == [kind |-> "object", of |-> members]

Member(k, v) == [key |-> k, value |-> v]
Leaves == {Leaf("0"), Leaf("1")}
LeafMembers == {Member(k, v) : k \in ToSet(MCKeys), v \in Leaves}

Flat == {Object(<<m>>) : m \in LeafMembers}
        \cup {Object(<<m, n>>) : m \in LeafMembers, n \in LeafMembers}
a0 == Member("a", Leaf("0"))
a1 == Member("a", Leaf("1"))
b1 == Member("b", Leaf("1"))
Inner == {Object(<<a0, b1>>), Object(<<b1, a0>>), Object(<<a0>>)}
Nested == {Object(<<Member("a", v)>>) : v \in
              Inner \cup {List(<<v>>) : v \in Inner}
              \cup {List(<<Leaf("0"), Leaf("1")>>), List(<<Leaf("1"), Leaf("0")>>),
                    List(<<Leaf("0")>>)}}
Repeated == {Object(<<a0, b1, m>>) : m \in LeafMembers}
MCTexts == Flat \cup Nested \cup Repeated \cup {Object(<< >>)}

MCVendorOf == [d \in Deliveries |-> IF d = d4 THEN maeu ELSE gfp]
MCHashOf == [d \in Deliveries |-> IF d = d5 THEN h2 ELSE h1]

\* The hash by which requests are taken for identical: two bodies have one just
\* when they say the same, at any depth, in another order of keys, with a key
\* repeated, with a list in another order (hashing.py's docstring: same content
\* "modulo key order", and any other difference in "any leaf value or key"
\* tells them apart).  It depends on no variable, and is compared once, before
\* the first request.
HashIsContent ==
    (\A d \in Deliveries : pc[d] = "idle") =>
        \A s, t \in MCTexts :
            canonical_hash(Loaded(s)) = canonical_hash(Loaded(t)) <=> SameText(s, t)
=============================================================================
