------------------------------ MODULE XmlOutput ------------------------------
(***************************************************************************)
(* XMLConverter.to_xml: a document tree becomes XML again.  The fields of  *)
(* a table that came from elevated elements are put back below elements    *)
(* that are opened and closed as the chain of names of the next field asks *)
(* for, by means of a stack.                                               *)
(***************************************************************************)
EXTENDS XmlParse

Ungrouped == ""

(***************************************************************************)
(* lxml takes text only, as text, as the value of an attribute and as a    *)
(* child; anything else raises TypeError.  Here it is left in the element. *)
(***************************************************************************)
NoElement == [tag |-> "None", attrs |-> <<>>, text |-> NoText, children |-> <<>>]

RECURSIVE Writable(_)
Writable(e) ==
  /\ e # NoElement
  /\ e.text \notin DOMAIN Printed
  /\ \A a \in Range(e.attrs) : a[2] \notin DOMAIN Printed
  /\ \A c \in Range(e.children) : Writable(c)

OneElement(made) == IF made = <<>> THEN NoElement ELSE made[1]
IsElement(e) == e # NoElement

Element(tag) == [tag |-> tag, attrs |-> <<>>, text |-> NoText, children |-> <<>>]
WithTextOf(tag, v) == [Element(tag) EXCEPT !.text = v]
Empty(e) == e.children = <<>> /\ e.text = NoText /\ e.attrs = <<>>

(***************************************************************************)
(* check_transformed_node: what a completed element of a choice type       *)
(* stands for; a sequence of one element, or none.                         *)
(***************************************************************************)
CheckTransformed(type, e) ==
  LET Last1(tag) == LET found == SelectSeq(e.children, LAMBDA c : c.tag = tag)
                    IN IF found = <<>> THEN <<>> ELSE <<Last(found).text>>
      child == WithTextOf(Last1("type")[1], Last1("value")[1])
  IN IF type \notin ChoiceTypes THEN <<e>>
     ELSE IF Last1("type") = <<>> \/ Last1("value") = <<>> THEN <<>>
     ELSE <<[Element(e.tag) EXCEPT !.children = <<child>>]>>

(***************************************************************************)
(* The stack of elements in progress, [type, element], root first.         *)
(***************************************************************************)
OnTop(stack, elements) == [stack EXCEPT ![Len(stack)].element.children = @ \o elements]

Close(stack, Keep(_)) ==
  LET done == CheckTransformed(Last(stack).type, Last(stack).element)
  IN OnTop(Front(stack), SelectSeq(done, Keep))

CloseByDepth(stack, previous, chain) ==
  IF Len(stack) - 1 > Len(chain) THEN Close(stack, LAMBDA e : ~Empty(e)) ELSE stack
RECURSIVE CloseTo(_, _, _)
CloseTo(stack, previous, chain) ==
  LET i == Len(stack) - 1 \* elements open below the root, as many as names in previous
  IN IF i > 0 /\ (i > Len(chain) \/ chain[i][1] # previous[i][1])
     THEN CloseTo(Close(stack, LAMBDA e : ~Empty(e)), previous, chain)
     ELSE stack

OpenTo(stack, chain) ==
  stack \o [i \in 1..(Len(chain) - Len(stack) + 1) |->
              LET link == chain[Len(stack) - 1 + i] IN [type |-> link[2], element |-> Element(link[1])]]

RECURSIVE CloseAll(_)
CloseAll(stack) ==
  IF Len(stack) = 1 THEN CheckTransformed(stack[1].type, stack[1].element)
  ELSE CloseAll(Close(stack, LAMBDA e : e.children # <<>>))

(***************************************************************************)
(* zip_longest over the lists of elements of one ngroup.                   *)
(***************************************************************************)
ZipLongest(lists, Missing) ==
  LET longest == Max({0} \union {Len(l) : l \in Range(lists)})
      Row(i) == ConcatMap(LAMBDA l : IF i \in DOMAIN l THEN <<l[i]>> ELSE Missing, lists)
  IN FlattenSeq([i \in 1..longest |-> Row(i)])

(***************************************************************************)
(* What a field adds: the values of a column as elements, an attribute or  *)
(* the text.  Of several decimals the first is written.                    *)
(***************************************************************************)
Decimals == {"decimal", "float"}
OutputName(f) ==
  LET name == Last(f.chain)[1]
  IN IF f.role = "attr_suffix" THEN SubSeq(name, 1, Len(name) - Len("_attr")) ELSE name
OutputValues(n, f) ==
  IF f.dtype \in Decimals /\ Content(n, f) # <<>> THEN <<TextOf(Content(n, f)[1])>> ELSE Content(n, f)

SetOn(stack, n, f) ==
  LET vals == OutputValues(n, f)
  IN CASE f.kind = "col" /\ vals # <<>> /\ f.role \in {"attr", "attr_suffix"} ->
            [stack EXCEPT ![Len(stack)].element.attrs = Append(@, <<OutputName(f), vals[1]>>)]
       [] f.kind = "col" /\ vals # <<>> /\ f.role = "content" ->
            [stack EXCEPT ![Len(stack)].element.text = vals[1]]
       [] OTHER -> stack

(***************************************************************************)
(* _make_xml_node: the elements for a node of the tree, one or none.  A    *)
(* child without an element is None, which only the loop that ends a group *)
(* before the last field passes over.                                      *)
(***************************************************************************)
RECURSIVE MakeXmlNode(_, _)
MakeXmlNode(n, tag) ==
  LET Children(f) ==
        IF f.kind # "col" THEN MapSeq(LAMBDA m : OneElement(MakeXmlNode(m, OutputName(f))), Content(n, f))
        ELSE IF f.role # "element" THEN <<>>
        ELSE MapSeq(LAMBDA v : WithTextOf(OutputName(f), TextOf(v)), OutputValues(n, f))
      Add(s, f) ==
        LET chain == Front(f.chain)
            moved == OpenTo(CloseTo(s.stack, s.previous, chain), chain)
            ends == s.ngroup # Ungrouped /\ f.ngroup # s.ngroup
            flushed == IF ends THEN OnTop(moved, SelectSeq(ZipLongest(s.lists, <<>>), IsElement)) ELSE moved
            lists == IF ends THEN <<>> ELSE s.lists
            grouped == f.ngroup # Ungrouped /\ Children(f) # <<>>
        IN [previous |-> chain, ngroup |-> f.ngroup,
            lists |-> IF grouped THEN Append(lists, Children(f)) ELSE lists,
            stack |-> SetOn(IF grouped THEN flushed ELSE OnTop(flushed, Children(f)), n, f)]
      start == [stack |-> <<[type |-> n.type, element |-> Element(tag)]>>,
                previous |-> <<>>, ngroup |-> Ungrouped, lists |-> <<>>]
      end == FoldLeft(Add, start, Fields[n.type])
  IN CloseAll(OnTop(end.stack, ZipLongest(end.lists, <<NoElement>>)))

(***************************************************************************)
(* to_xml: of a virtual root, its first child.                             *)
(***************************************************************************)
ToXml(tree, name) ==
  LET doc == MakeXmlNode(tree, name)
  IN IF tree.type \notin Virtual THEN doc
     ELSE IF doc = <<>> \/ doc[1].children = <<>> THEN <<>> ELSE <<doc[1].children[1]>>

(***************************************************************************)
(* The same XML, but for the order of siblings.                            *)
(***************************************************************************)
RECURSIVE SameXml(_, _)
SameXml(d, e) ==
  /\ d.tag = e.tag /\ d.text = e.text /\ Range(d.attrs) = Range(e.attrs)
  /\ \E match \in Bijection(DOMAIN d.children, DOMAIN e.children) :
       \A i \in DOMAIN match : SameXml(d.children[i], e.children[match[i]])
=============================================================================
