------------------------------ MODULE FlatData ------------------------------
(***************************************************************************)
(* Document.parse_xml once a file is parsed: the document tree becomes the *)
(* flat data that is staged, one list of records per table and one per     *)
(* join table, and the data of several files accumulate in the same lists  *)
(* (flat_data).  _extract_node calls itself for the children of a node:    *)
(* the calls in progress are a stack, and a step starts or ends one.       *)
(***************************************************************************)
EXTENDS DocumentModel

CONSTANT MaxFiles \* bound on the files accumulated

VARIABLES
  nodes,   \* the nodes of the trees that the files were parsed to
  data,    \* Document.data
  calls,   \* the calls of _extract_node in progress, the innermost last
  loaded   \* the files, in order, with the root of their tree and the key of its record

vars == <<model, nodes, data, calls, loaded>>

(***************************************************************************)
(* What the parsers give.  Fields that are relations have names of their   *)
(* own in their table.  A duplicated table has one parent, and the root    *)
(* has none (a model of other tables is not built).  Below a node a tree   *)
(* has, for a relation that is present, nodes of the other table; the      *)
(* digest of the node was computed from theirs, and here is longer.        *)
(***************************************************************************)
ModelTyped ==
  LET Places == UNION {{t} \X {i \in DOMAIN Fields[t] : Fields[t][i].kind # "col"} : t \in Type}
      At(p) == Fields[p[1]][p[2]]
  IN /\ model.root \in model.reused /\ model.reused \subseteq Type
     /\ \A t \in Type : Fields[t] \in Seq(Range(Fields[t]))
     /\ \A p \in Places : At(p).kind \in {"rel1", "reln"} /\ At(p).other \in Type
     /\ \A p, q \in Places :
          p # q => /\ p[1] = q[1] => At(p).name # At(q).name
                   /\ At(p).other = At(q).other => At(p).other \in model.reused

NodeTyped(n) ==
  /\ n.type \in Type
  /\ Len(n.hash) \in Nat
  /\ \A f \in RelationFields(n.type) :
       f.name \in DOMAIN n.content =>
         /\ n.content[f.name] \in Seq(nodes) \ {<<>>}
         /\ \A c \in Range(n.content[f.name]) : c.type = f.other /\ Len(c.hash) < Len(n.hash)

TreesTyped ==
  /\ ModelTyped
  /\ \A n \in nodes : NodeTyped(n)
  /\ \A i \in DOMAIN loaded : loaded[i].node \in nodes /\ loaded[i].node.type = model.root

NoKey == 0
Idle == calls = <<>>
JoinTables == UNION {{<<t, name>> : name \in Relations(t)} : t \in Type}

NoData == [records |-> [t \in Type |-> <<>>],
           joins |-> [j \in JoinTables |-> <<>>],
           nextPk |-> [t \in Type |-> 1]]

(***************************************************************************)
(* The hashmap of a reused table: the records that have the node's hash.   *)
(***************************************************************************)
Unknown(d, n) == {}
KnownAnywhere(d, n) ==
  {r \in UNION {Range(d.records[t]) : t \in model.reused} : n.type \in model.reused /\ r.hash = n.hash}
Known(d, n) == {r \in Range(d.records[n.type]) : n.type \in model.reused /\ r.hash = n.hash}

(***************************************************************************)
(* A column of a record: its value, NULL if that is None, or the text of   *)
(* its values, joined with commas and quoted where need be.                *)
(***************************************************************************)
StoredColumns(n) ==
  LET Set(f) == Content(n, f) \notin {<<>>, <<None>>}
      keys == {ContentKey(f) : f \in {g \in ColumnFields(n.type) : Set(g)}}
  IN [k \in keys |-> IF Len(n.content[k]) = 1 THEN n.content[k] ELSE MapSeq(TextOf, n.content[k])]

(***************************************************************************)
(* The children of a node, each at its place: the field and the position   *)
(* in its list, of which an n-1 relation takes the first.  The n-1         *)
(* children are extracted before the others, else in the order of fields.  *)
(***************************************************************************)
FieldAt(n, p) == Fields[n.type][p[1]]
ChildAt(n, p) == n.content[FieldAt(n, p).name][p[2]]

PlacesOf(n) ==
  LET Present == {i \in DOMAIN Fields[n.type] :
                    Fields[n.type][i].kind # "col" /\ Fields[n.type][i].name \in DOMAIN n.content}
      Positions(f) == IF f.kind = "rel1" THEN {1} ELSE DOMAIN n.content[f.name]
  IN UNION {{i} \X Positions(Fields[n.type][i]) : i \in Present}

Sooner(n, p, q) ==
  \/ FieldAt(n, p).kind = "rel1" /\ FieldAt(n, q).kind = "reln"
  \/ /\ FieldAt(n, p).kind = FieldAt(n, q).kind
     /\ p[1] < q[1] \/ (p[1] = q[1] /\ p[2] < q[2])

(***************************************************************************)
(* A call: its node, the key given to the node and the parent's, the place *)
(* of the node in the caller's, the children left to do, the keys of the   *)
(* n-1 children.                                                           *)
(***************************************************************************)
Call(n, key, parent, place) ==
  [node |-> n, key |-> key, parent |-> parent, place |-> place, todo |-> PlacesOf(n), child |-> <<>>]

Top == Last(calls)

(***************************************************************************)
(* A call that got the key of the child at a place; a join row for the     *)
(* child, if it is of a 1-n relation with a reused table.                  *)
(***************************************************************************)
Got(c, p, key) ==
  LET name == FieldAt(c.node, p).name
      found == [k \in DOMAIN c.child \union {name} |-> IF k = name THEN key ELSE c.child[k]]
  IN [c EXCEPT !.todo = @ \ {p}, !.child = IF FieldAt(c.node, p).kind = "rel1" THEN found ELSE @]

RowReversed(d, c, p, key) ==
  LET f == FieldAt(c.node, p) IN
  IF f.kind = "reln" /\ ChildAt(c.node, p).type \in model.reused
  THEN [d EXCEPT !.joins[<<c.node.type, f.name>>] = <<[self |-> c.key, other |-> key]>> \o @]
  ELSE d
WithRow(d, c, p, key) ==
  LET f == FieldAt(c.node, p) IN
  IF f.kind = "reln" /\ ChildAt(c.node, p).type \in model.reused
  THEN [d EXCEPT !.joins[<<c.node.type, f.name>>] = Append(@, [self |-> c.key, other |-> key])]
  ELSE d

(***************************************************************************)
(* The record of a call: its columns, its temporary keys (own, parent's    *)
(* for a duplicated table, children's of n-1 relations), the metadata of   *)
(* the file in the root record.                                            *)
(***************************************************************************)
RecordOf(c) ==
  [pk |-> c.key, hash |-> c.node.hash,
   parent |-> IF c.node.type \in model.reused THEN NoKey ELSE c.parent,
   columns |-> StoredColumns(c.node), child |-> c.child,
   metadata |-> IF c.parent = NoKey THEN Len(loaded) ELSE 0]

(***************************************************************************)
(* A node that is known gives the key of its record; another takes a key,  *)
(* and its call goes on until its children are done, which is when its     *)
(* record is added and its key goes to the caller.                         *)
(***************************************************************************)
KnownKey(n) == (CHOOSE r \in Known(data, n) : TRUE).pk
KeyTaken(n) == [data EXCEPT !.nextPk[n.type] = @ + 1]

Init ==
  /\ nodes = {}
  /\ data = NoData
  /\ calls = <<>>
  /\ loaded = <<>>

ParseXml(file, root) ==
  /\ Idle /\ Len(loaded) < MaxFiles
  /\ IF Known(data, root) # {}
     THEN /\ loaded' = Append(loaded, [file |-> file, node |-> root, key |-> KnownKey(root)])
          /\ UNCHANGED <<data, calls>>
     ELSE /\ loaded' = Append(loaded, [file |-> file, node |-> root, key |-> data.nextPk[root.type]])
          /\ calls' = <<Call(root, data.nextPk[root.type], NoKey, <<0, 0>>)>>
          /\ data' = KeyTaken(root)
  /\ UNCHANGED model

NextChild(p) == p \in Top.todo /\ \A q \in Top.todo : ~Sooner(Top.node, q, p)

TakeKnown(p) ==
  LET n == ChildAt(Top.node, p) IN
  /\ ~Idle /\ NextChild(p) /\ Known(data, n) # {}
  /\ data' = WithRow(data, Top, p, KnownKey(n))
  /\ calls' = Append(Front(calls), Got(Top, p, KnownKey(n)))
  /\ UNCHANGED <<model, nodes, loaded>>

ExtractChild(p) ==
  LET n == ChildAt(Top.node, p) IN
  /\ ~Idle /\ NextChild(p) /\ Known(data, n) = {}
  /\ data' = KeyTaken(n)
  /\ calls' = Append(calls, Call(n, data.nextPk[n.type], Top.key, p))
  /\ UNCHANGED <<model, nodes, loaded>>

AddRecord ==
  LET added == [data EXCEPT !.records[Top.node.type] = Append(@, RecordOf(Top))]
      caller == Last(Front(calls))
  IN
  /\ ~Idle /\ Top.todo = {}
  /\ IF Len(calls) = 1 THEN data' = added /\ calls' = <<>>
     ELSE /\ data' = WithRow(added, caller, Top.place, Top.key)
          /\ calls' = Append(Front(Front(calls)), Got(caller, Top.place, Top.key))
  /\ UNCHANGED <<model, nodes, loaded>>

ExtractStep ==
  \/ ~Idle /\ \E p \in Top.todo : TakeKnown(p) \/ ExtractChild(p)
  \/ AddRecord

(***************************************************************************)
(* Whatever trees the parsers make.                                        *)
(***************************************************************************)
Next ==
  \/ \E file \in model.files, root \in nodes' : nodes \subseteq nodes' /\ ParseXml(file, root)
  \/ ExtractStep
Spec == Init /\ [][Next]_vars

-----------------------------------------------------------------------------
RecordsAt(d, t, key) == {r \in Range(d.records[t]) : r.pk = key}
HasRecord(d, t, key, hash) == \E r \in RecordsAt(d, t, key) : r.hash = hash

(***************************************************************************)
(* The keys of the children of a record, by the indexes that               *)
(* flat_data_to_doc_tree makes of its join rows, or of the records of a    *)
(* duplicated table.                                                       *)
(***************************************************************************)
Links(d, t, f) ==
  IF f.other \in model.reused THEN d.joins[<<t, f.name>>]
  ELSE [i \in DOMAIN d.records[f.other] |->
          [self |-> d.records[f.other][i].parent, other |-> d.records[f.other][i].pk]]

Linked(links, key) ==
  LET linked[i \in 0..Len(links)] ==
        IF i = 0 THEN <<>>
        ELSE IF links[i].self = key THEN Append(linked[i - 1], links[i].other) ELSE linked[i - 1]
  IN linked
ChildKeys(d, t, r, f) ==
  IF f.kind = "reln" THEN Linked(Links(d, t, f), r.pk)[Len(Links(d, t, f))]
  ELSE IF f.name \in DOMAIN r.child THEN <<r.child[f.name]>> ELSE <<>>

(***************************************************************************)
(* Every temporary key designates one record of its table: the parent's,   *)
(* the n-1 children's, both ends of a join row, and the roots'.  The       *)
(* staged rows are the closed set of records that the merge starts from.   *)
(***************************************************************************)
Resolves(t, key) == Cardinality({i \in DOMAIN data.records[t] : data.records[t][i].pk = key}) = 1

KeysResolve ==
  Idle =>
    /\ \A i \in DOMAIN loaded : Resolves(model.root, loaded[i].key)
    /\ \A t \in Type : \A r \in Range(data.records[t]) : \A f \in RelationFields(t) :
         /\ f.kind = "rel1" /\ f.name \in DOMAIN r.child => Resolves(f.other, r.child[f.name])
         /\ f.other \notin model.reused => \A q \in Range(data.records[f.other]) : Resolves(t, q.parent)
         /\ \A row \in Range(data.joins[<<t, f.name>>]) :
              Resolves(t, row.self) /\ Resolves(f.other, row.other)

(***************************************************************************)
(* A hash is in a reused table once, though a node enters the hash map     *)
(* only when all below it has been extracted.                              *)
(***************************************************************************)
HashesOnce ==
  \A t \in model.reused : \A i, j \in DOMAIN data.records[t] :
    data.records[t][i].hash = data.records[t][j].hash => i = j

(***************************************************************************)
(* Every record is that of a node: with its hash and its columns, and for  *)
(* each relation with the records of its children, in their order.  And    *)
(* the record of a file is that of its root.                               *)
(***************************************************************************)
Children(n, f) ==
  IF f.name \notin DOMAIN n.content THEN <<>>
  ELSE IF f.kind = "rel1" THEN <<n.content[f.name][1]>> ELSE n.content[f.name]

RecordFor(d, t, r, n) ==
  /\ n.type = t /\ r.hash = n.hash /\ r.columns = StoredColumns(n)
  /\ \A f \in RelationFields(t) :
       LET keys == ChildKeys(d, t, r, f) IN
       /\ Len(keys) = Len(Children(n, f))
       /\ \A j \in DOMAIN keys : HasRecord(d, f.other, keys[j], Children(n, f)[j].hash)

RecordsOfNodes ==
  Idle =>
    /\ \A t \in Type : \A r \in Range(data.records[t]) : \E n \in nodes : RecordFor(data, t, r, n)
    /\ \A i \in DOMAIN loaded : HasRecord(data, model.root, loaded[i].key, loaded[i].node.hash)
=============================================================================
