------------------------------ MODULE MCFlatten ------------------------------
(***************************************************************************)
(* Data models built from small XSDs, each with the XML files that may be  *)
(* loaded.                                                                 *)
(***************************************************************************)
EXTENDS Extract, XsdParts

B == INSTANCE Simplify

(***************************************************************************)
(* Orders: a buyer and a seller of one type, each kept in the table of     *)
(* parties; lines with a quantity and tags; reused or duplicated lines.    *)
(***************************************************************************)
Orders(p) ==
  Xsd(<<Root("order", p \o "Order")>>,
      {XsdType(p \o "Order", <<Attr("id", "string")>>,
               <<Opt("buyer", p \o "Party"), Opt("seller", p \o "Party"), Rep("line", p \o "Line")>>, ""),
       XsdType(p \o "Party", <<>>, <<Req("name", "string"), Rep("phone", p \o "Phone")>>, ""),
       XsdType(p \o "Phone", <<>>, <<Req("number", "string")>>, ""),
       XsdType(p \o "Line", <<>>, <<Req("quantity", "integer"), Rep("tag", "string")>>, "")})
KeepParties == (<<"order", "buyer">> :> "false") @@ (<<"order", "seller">> :> "false")

(***************************************************************************)
(* Elements of a file.                                                     *)
(***************************************************************************)
E(tag, children) == [tag |-> tag, attrs |-> <<>>, text |-> NoText, children |-> children]
T(tag, text) == [tag |-> tag, attrs |-> <<>>, text |-> text, children |-> <<>>]
With(e, name, v) == [e EXCEPT !.attrs = Append(@, <<name, v>>)]

Phone(v) == E("phone", <<T("number", v)>>)
Party(tag, phones) == E(tag, <<T("name", "x")>> \o phones)
Line(q, tags) == E("line", <<T("quantity", q)>> \o MapSeq(LAMBDA v : T("tag", v), tags))
Order(children) == With(E("order", children), "id", "x")

PhoneLists == {<<>>, <<Phone("x"), Phone("y")>>, <<Phone("y"), Phone("x")>>}
LineLists == {<<>>, <<Line("1", <<>>), Line("1", <<>>)>>, <<Line("1", <<"x", "y">>)>>,
              <<Line("1", <<"x,y">>), Line("1", <<"x", "y">>)>>, <<Line("1", <<"x", NoText>>)>>}
OrderFiles ==
  {Order(l) : l \in LineLists}
  \union {Order(<<Party("buyer", p), Party("seller", q)>>) :
            p \in PhoneLists, q \in {<<>>, <<Phone("x"), Phone("y")>>}}

(***************************************************************************)
(* A trip between two sites, each an element with a place in it: all       *)
(* elevated, to columns of one table.                                      *)
(***************************************************************************)
Trips ==
  Xsd(<<Root("trip", "Trip")>>,
      {XsdType("Trip", <<>>, <<Opt("from", "Site"), Opt("to", "Site"), Opt("note", "Note")>>, ""),
       XsdType("Site", <<>>, <<Req("place", "Place")>>, ""),
       XsdType("Place", <<>>, <<Opt("street", "string"), Opt("zip", "string")>>, ""),
       XsdType("Note", <<Attr("by", "string")>>, <<Opt("text", "string")>>, "")})
Site(tag, values) == E(tag, <<E("place", values)>>)
Optional(S) == {<<>>} \union {<<x>> : x \in S}
Notes == {E("note", <<>>), With(E("note", <<>>), "by", "x"), With(E("note", <<T("text", "x")>>), "by", "x")}
TripFiles ==
  {E("trip", f \o t) : f \in Optional({Site("from", <<T("street", "x")>>), Site("from", <<>>)}),
                       t \in Optional({Site("to", <<T("street", "y"), T("zip", "1")>>)})}
  \union {E("trip", <<n>>) : n \in Notes}

(***************************************************************************)
(* A book of contacts, each an e-mail address, a number or a fax; its      *)
(* owner is another choice, elevated; its memo is skipped.                 *)
(***************************************************************************)
Words == "Word" :> Restriction("string", 3) @@ "Initial" :> Restriction("string", 1)
Books ==
  [Xsd(<<Root("book", "Book")>>,
      {XsdType("Book", <<>>, <<Req("owner", "Owner"), Rep("contact", "Contact"), Opt("memo", "Memo")>>, ""),
       XsdType("Memo", <<>>, <<Opt("owner", "string")>>, ""),
       Choice(XsdType("Owner", <<>>, <<Req("person", "Initial"), Req("firm", "Word"), Req("club", "Word")>>, "")),
       Choice(XsdType("Contact", <<Attr("use", "Initial")>>,
                      <<Req("mail", "Word"), Req("phone", "Initial"), Rep("fax", "Initial")>>, ""))})
    EXCEPT !.simple = Words]
Contacts == {<<E("contact", <<T("mail", "abc")>>)>>, <<E("contact", <<T("fax", "x"), T("fax", "y")>>)>>,
             <<With(E("contact", <<T("mail", "x")>>), "use", "y")>>, <<E("contact", <<>>)>>,
             <<E("contact", <<T("phone", "x")>>), E("contact", <<T("fax", "x")>>)>>}
Owner == E("owner", <<T("firm", "abc")>>)
BookFiles == {E("book", <<Owner>> \o c) : c \in Contacts}
             \union {E("book", <<Owner, E("memo", <<T("owner", "x")>>)>>)}
SkipMemo == <<"book", "memo">> :> "skip"

(***************************************************************************)
(* A probe: numbers and booleans as attribute, text and elements; a flag   *)
(* that is elevated and another of its type that is kept.                  *)
(***************************************************************************)
Probes ==
  Xsd(<<Root("probe", "Probe")>>,
      {XsdType("Probe", <<Attr("n", "integer")>>,
               <<Rep("level", "decimal"), Opt("state", "Flag"), Opt("was", "Flag"), Opt("size", "Size"),
                 Opt("done", "Done")>>, ""),
       XsdType("Flag", <<>>, <<Opt("on", "boolean")>>, ""),
       XsdType("Size", <<Attr("unit", "string")>>, <<>>, "integer"),
       XsdType("Done", <<Attr("by", "string")>>, <<>>, "boolean")})
KeepWas == <<"probe", "was">> :> "false"
Flag(tag, v) == E(tag, <<T("on", v)>>)
ProbeParts == {<<>>, <<T("level", "1")>>, <<T("level", "1"), T("level", "2")>>, <<Flag("state", "true")>>,
               <<Flag("was", "true")>>, <<Flag("was", "false"), With(T("size", "2"), "unit", "x")>>,
               <<With(T("done", "true"), "by", "x")>>, <<T("level", NoText)>>, <<T("level", "x")>>}
ProbeFiles == {E("probe", c) : c \in ProbeParts} \union {With(E("probe", <<>>), "n", "1")}

(***************************************************************************)
(* A list of steps, each an act and maybe its result: below an element of  *)
(* its own that is elevated, as the content of the root itself, or before  *)
(* another element.                                                        *)
(***************************************************************************)
Step == <<Req("act", "string"), Opt("result", "string")>>
Steps(t) == Repeated(XsdType(t, <<>>, Step, ""))
Log == WithInner(XsdType("Log", <<>>, <<Inner(Step[1]), Inner(Step[2]), Opt("end", "string")>>, ""),
                 "sequence", B!Many)
Plans ==
  Xsd(<<Root("plan", "Plan"), Root("run", "Run"), Root("log", "Log")>>,
      {XsdType("Plan", <<>>, <<Req("steps", "Steps"), Opt("end", "string")>>, ""),
       Steps("Steps"), Steps("Run"), Log})
StepLists == {<<T("act", "x")>>, <<T("act", "x"), T("result", "y")>>,
              <<T("act", "x"), T("result", "1"), T("act", "y"), T("result", "2")>>,
              <<T("act", "x"), T("act", "y"), T("result", "1")>>}
PlanFiles == {E("plan", <<E("steps", l)>> \o e) : l \in StepLists, e \in {<<>>, <<T("end", "x")>>}}
             \union {E("run", l) : l \in StepLists} \union {E("log", l \o <<T("end", "x")>>) : l \in StepLists}

(***************************************************************************)
(* Values.                                                                 *)
(***************************************************************************)
Whole(v) == v \o " (int)"
Bool == "true" :> "True" @@ "false" :> "False"
Boolean(v) == Bool[v] \o " (bool)"
Decimal(v) == v \o ".0 (float)"
Texts == <<"1", "2", "x", "y", "x,y", "abc", "true", "false", "person", "firm", "club", "mail", "phone", "fax",
           "use__attr">>
MCPrinted == [v \in {Whole(n) : n \in {"1", "2"}} |-> CHOOSE n \in {"1", "2"} : Whole(n) = v]
          @@ [v \in {Decimal(n) : n \in {"1", "2"}} |-> CHOOSE n \in {"1", "2"} : Decimal(n) = v]
          @@ (Boolean("true") :> "True") @@ (Boolean("false") :> "False")
MCTyped == [p \in {"integer"} \X {"1", "2"} |-> Whole(p[2])]
        @@ [p \in {"decimal"} \X {"1", "2"} |-> Decimal(p[2])]
        @@ [p \in {"integer"} \X {Whole("1"), Whole("2")} |-> p[2]]
        @@ [p \in {"decimal"} \X {Decimal("1"), Decimal("2")} |-> p[2]]
        @@ [p \in {"boolean"} \X {"true", "false"} |-> Boolean(p[2])]
        @@ [p \in {"boolean"} \X {Boolean("true"), Boolean("false")} |-> Boolean("false")]
MCPieces == "x,y" :> <<"x", "y">>
Numbers == <<Whole("1"), Whole("2"), Decimal("1"), Decimal("2"), Boolean("true"), Boolean("false")>>
Values == Texts \o <<None>> \o Numbers
MCCode == [v \in Range(Values) |-> CHOOSE i \in DOMAIN Values : Values[i] = v]

(***************************************************************************)
(* The data models.                                                        *)
(***************************************************************************)
Sources ==
  {<<Auto(KeepParties), Orders("A"), OrderFiles>>,
   <<Config(TRUE, KeepParties, "line" :> "false", NoSettings), Orders("B"), OrderFiles>>,
   <<Auto(NoSettings), Trips, TripFiles>>,
   <<Auto(SkipMemo), Books, BookFiles>>,
   <<Auto(KeepWas), Probes, ProbeFiles>>,
   <<Auto(NoSettings), Plans, PlanFiles>>}

ModelOf(m, files) ==
  [root |-> m.root, name |-> m.tables[m.root].name, reused |-> m.reused,
   fields |-> [k \in DOMAIN m.tables |-> m.tables[k].fields], transforms |-> m.transforms,
   choices |-> m.choices, virtual |-> {k \in DOMAIN m.tables : m.tables[k].virtual},
   files |-> files]
MCModels == {ModelOf(B!SimplifiedModel(v[1], v[2]), v[3]) : v \in Sources}

(***************************************************************************)
(* Deliveries with two optional contacts of one type and nothing between.  *)
(***************************************************************************)
Deliveries ==
  Xsd(<<Root("delivery", "Delivery")>>,
      {XsdType("Delivery", <<>>, <<Opt("from", "Person"), Opt("to", "Person")>>, ""),
       XsdType("Person", <<>>, <<Req("name", "string")>>, "")})
KeepBoth == (<<"delivery", "from">> :> "false") @@ (<<"delivery", "to">> :> "false")
Person(tag) == E(tag, <<T("name", "x")>>)
DeliveryFiles ==
  {E("delivery", f \o t) : f \in Optional({Person("from")}), t \in Optional({Person("to")})}
DeliveryModels == {ModelOf(B!SimplifiedModel(Auto(KeepBoth), Deliveries), DeliveryFiles)}
=============================================================================
