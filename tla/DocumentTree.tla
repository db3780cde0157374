---------------------------- MODULE DocumentTree ----------------------------
(***************************************************************************)
(* The document tree of XMLConverter: nodes, the record hash computed for  *)
(* them, and the deduplication of a parsed tree.                           *)
(***************************************************************************)
EXTENDS DocumentModel

CONSTANT Code \* value of a column -> a number of its own

ConcatMap(Op(_), s) == FlattenSeq(MapSeq(Op, s))

(***************************************************************************)
(* A digest is the stream it was computed from, with its length: digests   *)
(* are equal for equal streams only and, having a fixed size, can be told  *)
(* apart in a stream they are part of.  So can the text of a list of       *)
(* column values, or of None.  The order of digests is any total order.    *)
(***************************************************************************)
Digest(stream) == <<Len(stream)>> \o stream

DigestBefore(d, e) ==
  \E i \in DOMAIN e : /\ i > Len(d) \/ d[i] < e[i]
                      /\ \A j \in 1..(i - 1) : j \in DOMAIN d /\ d[j] = e[j]

(***************************************************************************)
(* _compute_hash_deduplicate: one stream for all the fields, in their      *)
(* order.  A column that is absent counts as None; a relation contributes  *)
(* the hashes of its children, sorted, and nothing when it is absent.  The *)
(* node returned is the first of its type that had its hash.               *)
(***************************************************************************)
HashOf(n) ==
  LET Hash(m) == m.hash
      Piece(f) == CASE f.kind = "col" -> Digest(MapSeq(LAMBDA v : Code[v], Content(n, f)))
                    [] f.kind = "rel1" -> IF Content(n, f) = <<>> THEN <<>> ELSE Content(n, f)[1].hash
                    [] f.kind = "reln" -> FlattenSeq(SortSeq(MapSeq(Hash, Content(n, f)), DigestBefore))
  IN Digest(ConcatMap(Piece, Fields[n.type]))

FirstOfHash(node, maps) ==
  LET known == {m \in maps : m.hash = node.hash}
  IN IF known = {} THEN [node |-> node, maps |-> maps \union {node}]
     ELSE [node |-> CHOOSE m \in known : TRUE, maps |-> maps]
FirstLike(node, maps) ==
  LET known == {m \in maps : m.type = node.type /\ m.hash = node.hash}
  IN IF known = {} THEN [node |-> node, maps |-> maps \union {node}]
     ELSE [node |-> CHOOSE m \in known : TRUE, maps |-> maps]

Deduplicate(n, maps) ==
  FirstLike([type |-> n.type, content |-> n.content, hash |-> HashOf(n)], maps)

(***************************************************************************)
(* Two trees that are equal up to the order of siblings.                   *)
(***************************************************************************)
RECURSIVE Same(_, _)
Same(m, n) ==
  /\ m.type = n.type
  /\ DOMAIN m.content = DOMAIN n.content
  /\ \A k \in DOMAIN m.content :
       IF k \notin Relations(m.type) THEN m.content[k] = n.content[k]
       ELSE \E match \in Bijection(DOMAIN m.content[k], DOMAIN n.content[k]) :
              \A i \in DOMAIN match : Same(m.content[k][i], n.content[k][match[i]])
=============================================================================
