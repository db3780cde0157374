---------------------------- MODULE MCModelBuild ----------------------------
(***************************************************************************)
(* XSDs of four types: the types are met in depth-first order from the     *)
(* root, as _parse_tree meets them.  And hand-written ones, for what types *)
(* and names can be.                                                       *)
(***************************************************************************)
EXTENDS ModelContents, XsdParts, TLC

Size == 4
Index == 1..Size
Edges == {e \in Index \X Index : e[1] # e[2]}

(***************************************************************************)
(* above[i]: the tables being parsed when i is met by way of via[i].       *)
(***************************************************************************)
Above(via) ==
  LET above[i \in Index] == IF i = 1 THEN {1} ELSE {i} \union above[via[i]] IN above

DepthFirst(edges) ==
  \E via \in [2..Size -> Index] :
    /\ \A i \in 2..Size : via[i] < i /\ <<via[i], i>> \in edges
    /\ LET above == Above(via) IN
       /\ \A i \in 2..Size : via[i] \in above[i - 1]
       /\ \A e \in edges : /\ e[2] \notin above[e[1]]
                           /\ e[1] < e[2] => e[1] \in above[e[2]]

Trees == {s \in SUBSET Edges : DepthFirst(s)}

(***************************************************************************)
(* Type names sort as the types are met, or the other way round; elements  *)
(* are named for the type; every type refers back to the root's, which is  *)
(* a recursion and skipped.                                                *)
(***************************************************************************)
TreeNames == <<"T1", "T2", "T3", "T4">>
ElementNames == <<"e1", "e2", "e3", "e4">>
TypeNamed(i, up) == TreeNames[IF up THEN i ELSE Size + 1 - i]
ColumnNames == <<"c", "d", "e", "f", "g">>

ChildrenOf(edges, i, up, One(_), Two(_)) ==
  LET To(j) == IF <<i, j>> \notin edges THEN <<>>
               ELSE IF Two(j) THEN <<Opt("o" \o ToString(j), TypeNamed(j, up)), Rep(ElementNames[j], TypeNamed(j, up))>>
               ELSE IF One(<<i, j>>) THEN <<Opt(ElementNames[j], TypeNamed(j, up))>>
               ELSE <<Rep(ElementNames[j], TypeNamed(j, up))>>
  IN To(1) \o To(2) \o To(3) \o To(4)

TreeXsd(edges, up, width, One(_), Two(_)) ==
  LET Columns == [k \in 1..width |-> Opt(ColumnNames[k], "string")]
      Back(i) == <<Opt("back", TypeNamed(1, up))>>
      TypeAt(i) == XsdType(TypeNamed(i, up), <<>>, Columns \o ChildrenOf(edges, i, up, One, Two) \o Back(i), "")
  IN Xsd(<<Root("e1", TypeNamed(1, up))>>, {TypeAt(i) : i \in Index})

(***************************************************************************)
(* Untransformed: every subset of the tables is duplicated; the last type  *)
(* may be the target of two elements of one type.                          *)
(***************************************************************************)
TableNames(two) == IF two THEN [ElementNames EXCEPT ![4] = "o4"] ELSE ElementNames
Untransformed(duplicated, two) ==
  Config(FALSE, NoSettings, [t \in {TableNames(two)[i] : i \in duplicated} |-> "false"], NoSettings)

PlainSources ==
  {[xsd |-> TreeXsd(v[1], v[2], 0, LAMBDA e : FALSE, LAMBDA j : v[4] /\ j = 4),
    cfg |-> Untransformed(v[3], v[4])] :
     v \in Trees \X BOOLEAN \X (SUBSET (Index \ {1})) \X BOOLEAN}

(***************************************************************************)
(* Transformed: any set of elements is single and optional, the others are *)
(* repeated; tables have no column or too many to be elevated for.         *)
(***************************************************************************)
TransformedSources ==
  UNION {{[xsd |-> TreeXsd(edges, TRUE, width, LAMBDA e : e \in ones, LAMBDA j : FALSE),
           cfg |-> Auto(NoSettings)] : ones \in SUBSET edges, width \in {0, 1, 5}} : edges \in Trees}

(***************************************************************************)
(* Anonymous types of elements with one name share a table: beside each    *)
(* other, or one inside the other.                                         *)
(***************************************************************************)
Anonymous(children) == XsdType("", <<>>, children, "")
SharedXsd ==
  XsdOf(<<Root("e1", "T1")>>,
        ("T1" :> XsdType("T1", <<>>, <<Opt("e2", "T2"), Rep("e3", "T3")>>, ""))
          @@ ("T2" :> XsdType("T2", <<>>, <<Opt("x", "anonymous1")>>, ""))
          @@ ("T3" :> XsdType("T3", <<>>, <<Opt("x", "anonymous2")>>, ""))
          @@ ("anonymous1" :> Anonymous(<<Rep("a", "string")>>))
          @@ ("anonymous2" :> Anonymous(<<Opt("b", "integer")>>)), NoSettings)
NestedXsd(outer, inner) ==
  XsdOf(<<Root("e1", "T1")>>,
        ("T1" :> XsdType("T1", <<>>, <<outer>>, ""))
          @@ ("anonymous1" :> Anonymous(<<Opt("a", "string"), inner>>))
          @@ ("anonymous2" :> Anonymous(<<Opt("b", "string")>>)), NoSettings)

(***************************************************************************)
(* Names that meet: an elevated element and an underscore; fields elevated *)
(* without a prefix; an element in a type twice; an attribute, a text and  *)
(* an element of one name.                                                 *)
(***************************************************************************)
MeetingXsd(children, inner) ==
  Xsd(<<Root("e1", "T1")>>,
      {XsdType("T1", <<>>, children, ""), XsdType("T2", <<>>, inner, ""),
       XsdType("T3", <<>>, <<Opt("c", "string")>>, "")})
Meetings ==
  {MeetingXsd(<<Opt("a", "T2"), Opt("a_b", "string")>>, <<Opt("b", "string")>>),
   MeetingXsd(<<Opt("a", "T2"), Rep("a_b", "T3")>>, <<Opt("b", "string")>>),
   MeetingXsd(<<Opt("a", "T2"), Rep("b", "T3")>>, <<Rep("b", "T3")>>),
   MeetingXsd(<<Opt("a", "T3"), Rep("a", "T3")>>, <<>>),
   MeetingXsd(<<Opt("a", "string"), Rep("a", "string")>>, <<>>)}
NamedAlike ==
  {Xsd(<<Root("e1", "T1")>>, {XsdType("T1", <<Attr(a, "string")>>, <<Req(e, "string")>>, text)}) :
     a \in {"a", "value"}, e \in {"a", "value"}, text \in {"", "string"}}

(***************************************************************************)
(* Choices, simple types, nested model groups, several roots.              *)
(***************************************************************************)
ChoiceXsd(c, d, max) ==
  Xsd(<<Root("e1", "T1")>>,
      {XsdType("T1", <<>>, <<Child("e2", "T2", 1, max)>>, ""),
       Choice(XsdType("T2", <<>>, <<Req("a", c), Req("b", d), Req("c", "string")>>, ""))})
ChoiceSources ==
  {[xsd |-> ChoiceXsd(c, d, max), cfg |-> Config(transform, NoSettings, NoSettings, choice)] :
     c, d \in {"string", "integer"}, max \in {1, B!Many}, transform \in BOOLEAN,
     choice \in {NoSettings, "e2" :> "true", "e2" :> "false"}}

Simple == [code |-> Enumeration("string", {1, 3}), short |-> Restriction("string", 5),
           mixed |-> UnionOf({"code", "number"}), number |-> Restriction("integer", B!NoLimit),
           codes |-> ListOf("code"), either |-> UnionOf({"code", "short"})]
SimpleXsd ==
  XsdOf(<<Root("e1", "T1"), Root("e2", "T2")>>,
        [T1 |-> WithInner(XsdType("T1", <<Attr("k", "code")>>,
                                  <<Inner(Req("m", "mixed")), Inner(Opt("n", "codes")), Req("i", "either")>>, ""),
                          "sequence", B!Many),
         T2 |-> WithInner(XsdType("T2", <<>>, <<Inner(Req("p", "short")), Inner(Req("q", "T3")), Rep("t", "T1")>>, ""),
                          "choice", 1),
         T3 |-> XsdType("T3", <<>>, <<>>, "number")], Simple)

(***************************************************************************)
(* Settings of a field: refused, or skipped with tables below it.          *)
(***************************************************************************)
LineXsd == TreeXsd({<<1, 2>>, <<2, 3>>, <<3, 4>>}, TRUE, 1, LAMBDA e : e[1] # 2, LAMBDA j : FALSE)
FieldSources ==
  {[xsd |-> LineXsd, cfg |-> Auto(<<"e" \o ToString(i), "e" \o ToString(i + 1)>> :> set)] :
     i \in 1..3, set \in {"skip", "false", "elevate", "elevate_wo_prefix", "join"}}
  \union {[xsd |-> LineXsd, cfg |-> Auto(<<t, "c">> :> set)] :
            t \in {"e1", "e3", "e9"}, set \in {"skip", "join", "elevate"}}

HandSources ==
  {[xsd |-> x, cfg |-> Auto(NoSettings)] :
     x \in Meetings \union NamedAlike \union {SharedXsd, SimpleXsd}
             \union {NestedXsd(o, i) : o \in {Opt("x", "anonymous1"), Rep("x", "anonymous1")},
                                       i \in {Opt("x", "anonymous2"), Rep("x", "anonymous2")}}}

MCSources == PlainSources \union TransformedSources \union HandSources \union ChoiceSources \union FieldSources
MCModelFor(cfg, xsd) == B!SimplifiedModel(cfg, xsd)
MCTypeNames == TreeNames \o <<"e1-flow", "x">>
=============================================================================
