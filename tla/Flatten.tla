------------------------------- MODULE Flatten -------------------------------
(***************************************************************************)
(* Document.parse_xml: XML files are parsed, in one of two ways, and their *)
(* document trees become flat data, from which they can be rebuilt.        *)
(***************************************************************************)
EXTENDS XmlOutput, FlatData

CONSTANTS
  Models, \* the data models
  Pieces  \* text with a comma -> its pieces

X == INSTANCE XmlSchema

(***************************************************************************)
(* parse_xml of one more file into the same flat data, with one of the two *)
(* parsers.  It may raise.                                                 *)
(***************************************************************************)
ParseWith(file, parsed) ==
  /\ Raised \notin parsed.maps
  /\ nodes' = nodes \union parsed.maps
  /\ ParseXml(file, parsed.node)

ParseTreeFile(file) == ParseWith(file, ParseElementTree(model.root, file))
ParseIterativeFile(file) == ParseWith(file, ParseIterative(model.root, file))

ParsedInit == model \in Models /\ Init
ParsedNext ==
  \/ Idle /\ \E file \in model.files : ParseTreeFile(file) \/ ParseIterativeFile(file)
  \/ ExtractStep
ParsedSpec == ParsedInit /\ [][ParsedNext]_vars

ReadColumn(stored) ==
  IF Len(stored) = 1 /\ stored[1] \in DOMAIN Pieces THEN Pieces[stored[1]] ELSE stored

(***************************************************************************)
(* flat_data_to_doc_tree, from a given root record of flat data d.         *)
(***************************************************************************)
RECURSIVE TreeAt(_, _, _)
TreeAt(d, t, key) ==
  LET r == CHOOSE q \in RecordsAt(d, t, key) : TRUE
      present == {f \in RelationFields(t) : ChildKeys(d, t, r, f) # <<>>}
      FieldNamed(k) == CHOOSE f \in present : f.name = k
      Child(f, c) == TreeAt(d, f.other, c)
  IN [type |-> t,
      content |-> [k \in DOMAIN r.columns |-> ReadColumn(r.columns[k])] @@
        [k \in {f.name : f \in present} |->
           MapSeq(LAMBDA c : Child(FieldNamed(k), c), ChildKeys(d, t, r, FieldNamed(k)))]]

-----------------------------------------------------------------------------
(***************************************************************************)
(* A reused table stores every subtree once, over all the files.  (A text  *)
(* with a comma and the list of its pieces are stored as the same text,    *)
(* but not in one record.)                                                 *)
(***************************************************************************)
ReadAsStored(r) == \A k \in DOMAIN r.columns : ReadColumn(r.columns[k]) = r.columns[k]

StoredOnce ==
  Idle /\ (\A t \in Type : \A r \in Range(data.records[t]) : ReadAsStored(r)) =>
    \A t \in model.reused : \A r, q \in Range(data.records[t]) :
      Same(TreeAt(data, t, r.pk), TreeAt(data, t, q.pk)) => r = q

(***************************************************************************)
(* The elements of a file that are parsed as nodes, with their type.       *)
(***************************************************************************)
How(type, c) == TransformOf(type, c.tag)

RECURSIVE ElementsIn(_, _)
ElementsIn(type, e) ==
  LET InModel(c) == <<type, c.tag>> \in DOMAIN Transforms /\ How(type, c) # "join"
  IN {<<type, e>>} \union
       UNION {ElementsIn(Transforms[<<type, c.tag>>][1], c) : c \in {d \in Range(e.children) : InModel(d)}}

(***************************************************************************)
(* What the parsers do not keep of an element: children that the model has *)
(* no field for, joined elements that are empty, what a choice has besides *)
(* its first item.                                                         *)
(***************************************************************************)
EmptyJoined(type, e) == \E c \in Range(e.children) : How(type, c) = "join" /\ c.text = NoText
Unmapped(type, e) == \E c \in Range(e.children) : <<type, c.tag>> \notin DOMAIN Transforms
ManyItems(type, e) ==
  type \in ChoiceTypes /\ Len(e.attrs \o e.children) + (IF e.text = NoText THEN 0 ELSE 1) # 1

(***************************************************************************)
(* Both parsers make the same record of a file, unless it has an empty     *)
(* joined element or a choice of more than one item (the iterative parser  *)
(* records the one as None, and takes text after children in the other).   *)
(***************************************************************************)
SameForBoth(file) ==
  \A x \in ElementsIn(model.root, Wrapped(model.root, file)) : ~EmptyJoined(x[1], x[2]) /\ ~ManyItems(x[1], x[2])

ParsersAgree ==
  \A i, j \in DOMAIN loaded :
    /\ Idle
    /\ loaded[i].file = loaded[j].file
    /\ SameForBoth(loaded[i].file)
    => loaded[i].key = loaded[j].key

(***************************************************************************)
(* Every value in a numeric or boolean column is what a text of the files  *)
(* converts to; where a file has an elevated element whose type has a      *)
(* table as well, what the value converts to again: true becomes false.    *)
(***************************************************************************)
TextsIn(e) == {a[2] : a \in Range(e.attrs)} \union {c.text : c \in Range(e.children) \union {e}}
ConvertedTwice(type, e) ==
  \E c \in Range(e.children) : How(type, c) \in Elevations /\ Transforms[<<type, c.tag>>][1] \in Type

ValuesFromText ==
  LET elements == UNION {ElementsIn(model.root, Wrapped(model.root, loaded[i].file)) : i \in DOMAIN loaded}
      texts == UNION {TextsIn(x[2]) : x \in elements}
      ToTyped(d) == {Typed[<<d, s>>] : s \in {v \in texts : <<d, v>> \in DOMAIN Typed}}
      Again(d) == IF \E x \in elements : ConvertedTwice(x[1], x[2])
                  THEN {Typed[<<d, v>>] : v \in ToTyped(d)} ELSE {}
      IsTyped(d) == \E p \in DOMAIN Typed : p[1] = d
  IN Idle =>
       \A t \in Type : \A r \in Range(data.records[t]), f \in ColumnFields(t) :
         LET k == ContentKey(f)
         IN k \in DOMAIN r.columns /\ Len(r.columns[k]) = 1 /\ IsTyped(f.dtype)
              => r.columns[k][1] \in ToTyped(f.dtype) \union Again(f.dtype)

(***************************************************************************)
(* Texts that the XSD allows fit into their columns; but not for certain   *)
(* those of a choice: the column of its type is as wide as the longest     *)
(* name, and an attribute is named with a mark; the column of its value is *)
(* as wide as one item, and an element may occur many times.               *)
(***************************************************************************)
ChoiceColumn(t, f) ==
  (IF Len(f.chain) = 1 THEN t ELSE f.chain[Len(f.chain) - 1][2]) \in ChoiceTypes
Attribute(key) == \E n \in 1..(Len(key) - 1) : key = Marked(SubSeq(key, 1, n))

FitsColumn ==
  Idle => \A t \in Type : \A r \in Range(data.records[t]), f \in ColumnFields(t) :
    LET vals == Content([content |-> r.columns], f)
    IN f.max = 1 /\ f.limit # X!NoLimit /\ vals # <<>> =>
         \/ Len(vals) = 1 /\ Len(vals[1]) <= f.limit
         \/ ChoiceColumn(t, f) /\ (Len(vals) > 1 \/ Attribute(vals[1]))

(***************************************************************************)
(* "Two nodes with the same hash are identical."                           *)
(***************************************************************************)
NodesIn(file) == ParseElementTree(model.root, file).maps

HashIdentifies ==
  \A i, j \in DOMAIN loaded :
    \A m \in NodesIn(loaded[i].file), n \in NodesIn(loaded[j].file) :
      m.type = n.type /\ m.hash = n.hash => Same(m, n)

(***************************************************************************)
(* The metadata of every file is in its root record.                       *)
(***************************************************************************)
MetadataKept ==
  Idle => \A i \in DOMAIN loaded : \E r \in RecordsAt(data, model.root, loaded[i].key) : r.metadata = i
=============================================================================
