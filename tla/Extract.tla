------------------------------- MODULE Extract -------------------------------
(***************************************************************************)
(* Document.extract_from_database and the way back to XML: the rows of one *)
(* root record are fetched, table by table along every path of relations   *)
(* from the root, into the same flat form that staging starts from.        *)
(*                                                                         *)
(* The database is what loading the flat data leaves in empty tables, its  *)
(* keys those of the flat data.                                            *)
(***************************************************************************)
EXTENDS Flatten

(***************************************************************************)
(* _fetch_data: the rows of a table, by their key or, for a duplicated     *)
(* table, by their parent's; the rows of a join table.  All are appended.  *)
(***************************************************************************)
RowsByKey(t, keys) == SelectSeq(data.records[t], LAMBDA r : r.pk \in keys)
RowsOf(t, keys) ==
  SelectSeq(data.records[t], LAMBDA r : (IF t \in model.reused THEN r.pk ELSE r.parent) \in keys)

(***************************************************************************)
(* _do_extract_table: the table, then along its 1-n, then its n-1          *)
(* relations.                                                              *)
(***************************************************************************)
RECURSIVE ExtractTable(_, _, _)
ExtractTable(res, t, keys) ==
  LET rows == RowsOf(t, keys)
      own == {r.pk : r \in Range(rows)}
      Many(acc, f) ==
        LET links == SelectSeq(data.joins[<<t, f.name>>], LAMBDA row : row.self \in own)
        IN IF f.other \in model.reused
           THEN ExtractTable([acc EXCEPT !.joins[<<t, f.name>>] = @ \o links], f.other,
                             {row.other : row \in Range(links)})
           ELSE ExtractTable(acc, f.other, own)
      One(acc, f) ==
        ExtractTable(acc, f.other, {r.child[f.name] : r \in {q \in Range(rows) : f.name \in DOMAIN q.child}})
      Fields1(kind) == SelectSeq(Fields[t], LAMBDA f : f.kind = kind)
      fetched == [res EXCEPT !.records[t] = @ \o rows]
  IN FoldLeft(One, FoldLeft(Many, fetched, Fields1("reln")), Fields1("rel1"))

Extracted(key) == ExtractTable(NoData, model.root, {key})
ExportedXml(d, key) == ToXml(TreeAt(d, model.root, key), model.name)
-----------------------------------------------------------------------------
(***************************************************************************)
(* The records below one, each with a path of relations that leads to it.  *)
(***************************************************************************)
RECURSIVE Reached(_, _, _)
Reached(t, key, path) ==
  LET r == CHOOSE q \in RecordsAt(data, t, key) : TRUE
      Keys(f) == Range(ChildKeys(data, t, r, f))
  IN {[table |-> t, key |-> key, path |-> path]} \union
       UNION {UNION {Reached(f.other, k, Append(path, f.name)) : k \in Keys(f)} :
                f \in RelationFields(t)}

ReachedTwice(key) ==
  \E x, y \in Reached(model.root, key, <<>>) :
    /\ x.table = y.table /\ x.key = y.key /\ x.path # y.path
    /\ \E f \in RelationFields(x.table), r \in RecordsAt(data, x.table, x.key) :
         f.kind = "reln" /\ ChildKeys(data, x.table, r, f) # <<>>

(***************************************************************************)
(* Extraction gives the records of the document and no others; and the     *)
(* document itself, unless a record with 1-n children is reached along two *)
(* paths of relations, whose children then count twice.                    *)
(***************************************************************************)
ExtractedWhole ==
  Idle => \A i \in DOMAIN loaded :
    LET key == loaded[i].key
        d == Extracted(key)
        reached == Reached(model.root, key, <<>>)
    IN /\ \A t \in Type : {r.pk : r \in Range(d.records[t])} = {x.key : x \in {y \in reached : y.table = t}}
       /\ ReachedTwice(key) <=> ~Same(TreeAt(d, model.root, key), TreeAt(data, model.root, key))

(***************************************************************************)
(* What to_xml does not give back of a node: a number or boolean that is   *)
(* an attribute or the text (lxml refuses it), a boolean (as "True"),      *)
(* decimals after the first, a text with a comma that is read as several.  *)
(***************************************************************************)
Unprintable(n) ==
  \E f \in ColumnFields(n.type) :
    LET vals == Content(n, f)
    IN /\ vals # <<>>
       /\ \/ f.role # "element" /\ f.dtype \notin Decimals /\ vals[1] \in DOMAIN Printed
          \/ f.dtype = "boolean"
          \/ f.dtype \in Decimals /\ Len(vals) > 1
          \/ Len(vals) = 1 /\ vals[1] \in DOMAIN Pieces

(***************************************************************************)
(* Elements that land in another one: the stack is unwound by comparing    *)
(* names from the deepest up, so that places of the same name in two       *)
(* elevated elements are taken for one; a repeated sequence is written     *)
(* where the next field goes.                                              *)
(***************************************************************************)
Place(f) == Front(f.chain)
Names(chain) == MapSeq(LAMBDA link : link[1], chain)
Alike(p, q) ==
  \E k \in DOMAIN p \intersect DOMAIN q : p[k] = q[k] /\ SubSeq(p, 1, k) # SubSeq(q, 1, k)

Misplaced(n) ==
  \E i \in 1..(Len(Fields[n.type]) - 1) :
    LET f == Fields[n.type][i]
        g == Fields[n.type][i + 1]
        GroupOf == {h \in Range(Fields[n.type]) : h.ngroup = f.ngroup /\ Content(n, h) # <<>>}
    IN \/ /\ Alike(Names(Place(f)), Names(Place(g)))
          /\ \E h \in Range(Fields[n.type]) : Place(h) = Place(g) /\ Content(n, h) # <<>>
       \/ f.ngroup \notin {Ungrouped, g.ngroup} /\ Place(f) # Place(g) /\ GroupOf # {}

(***************************************************************************)
(* At the end of a node: the elevated elements still open are dropped when *)
(* they have attributes or text only; the lists of a repeated sequence     *)
(* must be equally long (a None is added to the element otherwise).        *)
(***************************************************************************)
Within(place, f) == IsPrefix(Names(place), Names(Place(f)))

BadEnd(n) ==
  LET end == Last(Fields[n.type])
      Set == {f \in Range(Fields[n.type]) : Content(n, f) # <<>>}
      IsChild(f) == f.kind # "col" \/ f.role = "element"
      lengths == {Len(Content(n, f)) : f \in {g \in Set : g.ngroup = end.ngroup}}
  IN \/ \E d \in DOMAIN Place(end) :
          LET inside == {f \in Set : Within(SubSeq(Place(end), 1, d), f)}
          IN inside # {} /\ \A f \in inside : Len(Place(f)) = d /\ ~IsChild(f)
     \/ end.ngroup # Ungrouped /\ Cardinality(lengths) > 1

EmptyElevated(type, e) == \E c \in Range(e.children) : How(type, c) \in Elevations /\ Empty(c)

Lossless(file) ==
  /\ \A x \in ElementsIn(model.root, Wrapped(model.root, file)) :
       /\ ~EmptyJoined(x[1], x[2]) /\ ~EmptyElevated(x[1], x[2])
       /\ ~Unmapped(x[1], x[2]) /\ ~ManyItems(x[1], x[2])
  /\ \A n \in NodesIn(file) : ~Unprintable(n) /\ ~Misplaced(n) /\ ~BadEnd(n)

(***************************************************************************)
(* "This conversion is reversible": the document written from the flat     *)
(* data is the file it was parsed from, up to the order of siblings, for   *)
(* exactly the files that have none of the above.  Order is kept, too, in  *)
(* the first file, unless it has two elements that differ in the order of  *)
(* their children only, or repeats a sequence with members left out.       *)
(***************************************************************************)
WrittenAs(xml, file) == Len(xml) = 1 /\ Writable(xml[1]) /\ SameXml(xml[1], file)

Twins(file) ==
  \E x, y \in ElementsIn(model.root, Wrapped(model.root, file)) :
    x[1] = y[1] /\ x[2].children # y[2].children /\ SameXml([x[2] EXCEPT !.tag = y[2].tag], y[2])

Uneven(n) ==
  \E f, g \in Range(Fields[n.type]) :
    f.ngroup = g.ngroup /\ f.ngroup # Ungrouped /\ Len(Content(n, f)) # Len(Content(n, g))

RoundTrip ==
  Idle => \A i \in DOMAIN loaded :
    LET file == loaded[i].file
        xml == ExportedXml(data, loaded[i].key)
    IN /\ Lossless(file) <=> WrittenAs(xml, file)
       /\ i = 1 /\ Lossless(file) /\ ~Twins(file) /\ (\A n \in NodesIn(file) : ~Uneven(n)) => xml[1] = file
=============================================================================
