------------------------------ MODULE XmlSchema ------------------------------
(***************************************************************************)
(* DataModel._parse_tree: an XSD becomes tables, one per type, with a      *)
(* column per attribute, simple element or text, and a relation per other  *)
(* element.                                                                *)
(*                                                                         *)
(* An XSD is a record.  roots: its global elements; flow: the name of the  *)
(* data flow; types: the complex types, by an identifier of their own, as  *)
(*   [name, attrs, groups, children, text]                                 *)
(* where name is "" for an anonymous type; attrs a sequence of             *)
(* [name, type]; children the elements of the content model in its order,  *)
(* [name, type, min, max, group]; groups the nested model groups           *)
(* [model, min, max, group], the first one the outermost, each in its own  *)
(* enclosing group; text the type of the text, "" when there is none.      *)
(* simple: the named simple types.                                         *)
(*                                                                         *)
(* A field of a table is a record for a column ("col"), an n-1 relation    *)
(* ("rel1") or a 1-n relation ("reln").                                    *)
(***************************************************************************)
EXTENDS NodeContent, SequencesExt

Many == 2     \* maxOccurs above 1 or unbounded
NoLimit == 0  \* no greatest length
NoGroup == 0

IsComplex(xsd, e) == e.type \in DOMAIN xsd.types
TypeOf(xsd, e) == xsd.types[e.type]
IsVirtual(xsd) == Len(xsd.roots) > 1

(***************************************************************************)
(* The key of the table of an element: its type's name, or the element's   *)
(* own name when the type is anonymous.                                    *)
(***************************************************************************)
KeyOf(xsd, e) ==
  IF TypeOf(xsd, e).name # "" THEN TypeOf(xsd, e).name ELSE e.name

(***************************************************************************)
(* recurse_parse_simple_type: the data type and the greatest length.  The  *)
(* max of a restriction is the one xmlschema reports, lengths those of an  *)
(* enumeration's values.                                                   *)
(***************************************************************************)
Texts == {"string", "NMTOKEN", "duration", "token"}
Widest(limits) == IF NoLimit \in limits THEN NoLimit ELSE Max(limits)

RECURSIVE SimpleType(_, _)
SimpleType(xsd, name) ==
  LET st == xsd.simple[name]
      members == {SimpleType(xsd, m) : m \in st.members}
      kinds == {m.dtype : m \in members}
      base == SimpleType(xsd, st.base)
      derived == st.base \in DOMAIN xsd.simple /\ xsd.simple[st.base].variety = "restriction"
      own == [dtype |-> base.dtype,
              limit |-> IF derived THEN Widest({st.max, base.limit}) ELSE st.max]
  IN IF name \notin DOMAIN xsd.simple THEN [dtype |-> name, limit |-> NoLimit]
     ELSE CASE st.variety = "union" ->
                 [dtype |-> IF Cardinality(kinds) = 1 THEN CHOOSE k \in kinds : TRUE ELSE "string",
                  limit |-> Widest({m.limit : m \in members})]
            [] st.variety = "list" -> [dtype |-> "string", limit |-> NoLimit]
            [] st.variety = "restriction" ->
                 IF st.lengths # {} /\ own.dtype \in Texts THEN [own EXCEPT !.limit = Max(st.lengths)]
                 ELSE own

(***************************************************************************)
(* The text of a complex type gets the type at the end of the chain of     *)
(* base types, which has no limit.  (Text types that are lists or unions   *)
(* are left out.)                                                          *)
(***************************************************************************)
RECURSIVE Primitive(_, _)
Primitive(xsd, name) ==
  IF name \in DOMAIN xsd.simple THEN Primitive(xsd, xsd.simple[name].base)
  ELSE IF name \in {"integer", "int", "long", "short", "byte"} THEN "decimal"
  ELSE IF name \in {"NMTOKEN", "token"} THEN "string"
  ELSE name

(***************************************************************************)
(* get_occurs: minimum and maximum along the enclosing groups; any element *)
(* of a choice is optional.                                                *)
(***************************************************************************)
RECURSIVE OccursIn(_, _)
OccursIn(groups, p) ==
  LET up == OccursIn(groups, groups[p.group])
  IN IF p.group = NoGroup THEN [min |-> IF p.min = 0 THEN 0 ELSE 1, max |-> p.max]
     ELSE [min |-> IF groups[p.group].model = "choice" \/ p.min = 0 THEN 0 ELSE up.min,
           max |-> Max({up.max, p.max})]

(***************************************************************************)
(* nested_containers: the ngroup of every child, a string for the repeated *)
(* sequence it is a member of, or Ungrouped.                               *)
(***************************************************************************)
Ungrouped == ""

NestedGroups(key, type) ==
  LET Repeats(c) == /\ c.max = 1 /\ c.group # NoGroup
                    /\ type.groups[c.group].max # 1
                    /\ type.groups[c.group].model # "choice"
      Mark(c) == <<c.group, IF Repeats(c) THEN key \o "#" \o ToString(c.group) ELSE Ungrouped>>
      Enter(stack, c) ==
        IF Len(stack) > 1 /\ stack[Len(stack) - 1][1] = c.group THEN Front(stack)
        ELSE IF stack = <<>> \/ Last(stack)[1] # c.group THEN Append(stack, Mark(c))
        ELSE stack
      Next(acc, c) == LET stack == Enter(acc.stack, c) IN
                      [stack |-> stack, groups |-> Append(acc.groups, Last(stack)[2])]
  IN FoldLeft(Next, [stack |-> <<>>, groups |-> <<>>], type.children).groups

(***************************************************************************)
(* The fields that add_column, add_relation_1 and add_relation_n append.   *)
(***************************************************************************)
Column(name, st, occurs, role, ngroup) ==
  [kind |-> "col", name |-> name, other |-> "", chain |-> <<<<name, "">>>>,
   dtype |-> st.dtype, limit |-> st.limit, min |-> occurs.min, max |-> occurs.max,
   role |-> role, ngroup |-> ngroup]

Relation(name, other, occurs, ngroup) ==
  [kind |-> IF occurs.max = 1 THEN "rel1" ELSE "reln", name |-> name, other |-> other,
   chain |-> <<<<name, other>>>>, dtype |-> "", limit |-> NoLimit,
   min |-> occurs.min, max |-> occurs.max, role |-> "", ngroup |-> ngroup]

Optional == [min |-> 0, max |-> 1]

AttributeColumn(xsd, type, a) ==
  LET suffix == \E i \in DOMAIN type.children : type.children[i].name = a.name
  IN Column(IF suffix THEN a.name \o "_attr" ELSE a.name, SimpleType(xsd, a.type), Optional,
            IF suffix THEN "attr_suffix" ELSE "attr", Ungrouped)

(***************************************************************************)
(* A model under construction: keys of the tables in the order in which    *)
(* they were met, the tables, and the type that has taken each name.       *)
(***************************************************************************)
NoModel == [keys |-> <<>>, tables |-> <<>>, names |-> <<>>]

FreeName(m, name) ==
  LET Suffixed(i) == name \o "_" \o ToString(i)
      Free == {i \in 1..Cardinality(DOMAIN m.names) : Suffixed(i) \notin DOMAIN m.names}
  IN IF name \notin DOMAIN m.names THEN name ELSE Suffixed(Min(Free))

CreateTable(m, name, key, virtual) ==
  LET free == FreeName(m, name)
      table == [name |-> free, type |-> key, virtual |-> virtual, model_group |-> "sequence",
                fields |-> <<>>]
  IN [keys |-> Append(m.keys, key), tables |-> m.tables @@ (key :> table),
      names |-> m.names @@ (free :> key)]

AddField(m, key, f) ==
  LET known == \E i \in DOMAIN m.tables[key].fields :
                 LET g == m.tables[key].fields[i]
                 IN f.kind # "col" /\ g.kind = f.kind /\ g.name = f.name /\ g.other = f.other
  IN IF known THEN m ELSE [m EXCEPT !.tables[key].fields = Append(@, f)]

(***************************************************************************)
(* An empty complex type derived from a simple one counts as simple.       *)
(***************************************************************************)
IsSimple(xsd, e) ==
  IsComplex(xsd, e) =>
    LET type == TypeOf(xsd, e)
    IN type.attrs = <<>> /\ type.children = <<>> /\ type.text # ""

SimpleTypeOf(xsd, e) ==
  SimpleType(xsd, IF IsComplex(xsd, e) THEN TypeOf(xsd, e).text ELSE e.type)

ModelGroup(type) ==
  IF type.groups # <<>> /\ type.groups[1].model = "choice" THEN "choice" ELSE "sequence"

(***************************************************************************)
(* One type, its key already in path: attributes, then children, then the  *)
(* text.  A child whose declared type is being parsed is skipped; another  *)
(* child's table is parsed, or taken if there is one for its key.          *)
(***************************************************************************)
RECURSIVE ParseTree(_, _, _, _)

ParseChild(xsd, m, key, type, path, i) ==
  LET c == type.children[i]
      occurs == OccursIn(type.groups, c)
      ngroup == NestedGroups(key, type)[i]
      other == KeyOf(xsd, c)
      below == ParseTree(xsd, m, c, path)
      grouped == [below EXCEPT !.tables[other].model_group = ModelGroup(TypeOf(xsd, c))]
  IN IF IsSimple(xsd, c)
     THEN AddField(m, key, Column(c.name, SimpleTypeOf(xsd, c), occurs, "element", ngroup))
     ELSE IF Contains(path, TypeOf(xsd, c).name) THEN m
     ELSE AddField(grouped, key, Relation(c.name, other, occurs, ngroup))

ParseContent(xsd, m, key, type, path) ==
  LET Attribute(acc, a) == AddField(acc, key, AttributeColumn(xsd, type, a))
      Child(acc, i) == ParseChild(xsd, acc, key, type, path, i)
      children == FoldLeft(Child, FoldLeft(Attribute, m, type.attrs),
                           [i \in DOMAIN type.children |-> i])
      text == [dtype |-> Primitive(xsd, type.text), limit |-> NoLimit]
  IN IF type.text = "" THEN children
     ELSE AddField(children, key, Column("value", text, Optional, "content", Ungrouped))

ParseTree(xsd, m, e, path) ==
  LET key == KeyOf(xsd, e)
  IN IF key \in DOMAIN m.tables THEN m
     ELSE ParseContent(xsd, CreateTable(m, e.name, key, FALSE), key, TypeOf(xsd, e),
                       Append(path, key))

(***************************************************************************)
(* The whole schema: from its root element, or, when it has several, from  *)
(* a virtual table named after the data flow that has each as a child.     *)
(***************************************************************************)
RootKey(xsd) == IF IsVirtual(xsd) THEN xsd.flow ELSE KeyOf(xsd, xsd.roots[1])

VirtualType(xsd) ==
  [name |-> xsd.flow, attrs |-> <<>>, text |-> "", groups |-> <<>>,
   children |-> [i \in DOMAIN xsd.roots |-> xsd.roots[i] @@ [min |-> 1, max |-> 1, group |-> NoGroup]]]

SourceModel(xsd) ==
  IF IsVirtual(xsd)
  THEN ParseContent(xsd, CreateTable(NoModel, xsd.flow, xsd.flow, TRUE), xsd.flow,
                    VirtualType(xsd), <<xsd.flow>>)
  ELSE ParseTree(xsd, NoModel, xsd.roots[1], <<>>)
=============================================================================
