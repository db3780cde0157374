------------------------------ MODULE XsdParts ------------------------------
(***************************************************************************)
(* Parts to write small XSDs with, as XmlSchema takes them.                *)
(***************************************************************************)
LOCAL INSTANCE XmlSchema

Child(name, type, min, max) == [name |-> name, type |-> type, min |-> min, max |-> max, group |-> 1]
Opt(name, type) == Child(name, type, 0, 1)
Req(name, type) == Child(name, type, 1, 1)
Rep(name, type) == Child(name, type, 0, Many)
Attr(name, type) == [name |-> name, type |-> type]
Inner(c) == [c EXCEPT !.group = 2]

Group(kind, max, group) == [model |-> kind, min |-> 1, max |-> max, group |-> group]
XsdType(name, attrs, children, text) ==
  [name |-> name, attrs |-> attrs, groups |-> <<Group("sequence", 1, NoGroup)>>, children |-> children,
   text |-> text]
Choice(t) == [t EXCEPT !.groups = <<Group("choice", 1, NoGroup)>>]
Repeated(t) == [t EXCEPT !.groups = <<Group("sequence", Many, NoGroup)>>]
WithInner(t, kind, max) == [t EXCEPT !.groups = Append(@, Group(kind, max, 1))]

(***************************************************************************)
(* types: the identifier of a type -> the type; a named type's is its name *)
(***************************************************************************)
Root(name, type) == [name |-> name, type |-> type]
XsdOf(roots, types, simple) ==
  [roots |-> roots, flow |-> roots[1].name \o "-flow", simple |-> simple, types |-> types]
Xsd(roots, types) ==
  XsdOf(roots, [k \in {t.name : t \in types} |-> CHOOSE t \in types : t.name = k], <<>>)

Restriction(base, max) ==
  [variety |-> "restriction", base |-> base, members |-> {}, max |-> max, lengths |-> {}]
Enumeration(base, lengths) == [Restriction(base, NoLimit) EXCEPT !.lengths = lengths]
UnionOf(members) == [Restriction("", NoLimit) EXCEPT !.variety = "union", !.members = members]
ListOf(base) == [Restriction(base, NoLimit) EXCEPT !.variety = "list"]

Config(transform, fields, reuse, choice) ==
  [transform |-> transform, reuse |-> reuse, choice |-> choice, fields |-> fields]
NoSettings == <<>>
Auto(fields) == Config(TRUE, fields, NoSettings, NoSettings)
=============================================================================
