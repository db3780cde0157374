------------------------------ MODULE XmlParse ------------------------------
(***************************************************************************)
(* XMLConverter.parse_xml: the two parsers, one that descends the element  *)
(* tree and one that is driven by start and end events, and what both do   *)
(* to a completed node.                                                    *)
(*                                                                         *)
(* An element is [tag, attrs, text, children]: attrs is a sequence of      *)
(* <<name, value>>, text a value, NoText if there is none.                 *)
(***************************************************************************)
EXTENDS DocumentTree, TLC

CONSTANT Typed \* <<data type, value>> -> the value the parsers convert it to

Transforms == model.transforms
ChoiceTypes == model.choices
Virtual == model.virtual
NoText == ""
Elevations == {"elevate", "elevate_wo_prefix"}
Raised == [type |-> "raised", content |-> <<>>, hash |-> <<>>] \* an exception, among the nodes of a parse
Numeric == {"decimal", "float", "integer", "int", "nonPositiveInteger", "nonNegativeInteger",
            "positiveInteger", "negativeInteger", "short", "byte", "long"}

(***************************************************************************)
(* The content of a node in progress: its keys with their values, in the   *)
(* order in which they came.                                               *)
(***************************************************************************)
Put(entries, key, v) ==
  IF \E i \in DOMAIN entries : entries[i].key = key
  THEN MapSeq(LAMBDA e : IF e.key = key THEN [e EXCEPT !.vals = Append(@, v)] ELSE e, entries)
  ELSE Append(entries, [key |-> key, vals |-> <<v>>])

SetTo(entries, key, v) ==
  IF \E i \in DOMAIN entries : entries[i].key = key
  THEN MapSeq(LAMBDA e : IF e.key = key THEN [e EXCEPT !.vals = <<v>>] ELSE e, entries)
  ELSE Append(entries, [key |-> key, vals |-> <<v>>])

Attributes(e) == MapSeq(LAMBDA a : [key |-> Marked(a[1]), vals |-> <<a[2]>>], e.attrs)
WithText(entries, e) == IF e.text = NoText THEN entries ELSE SetTo(entries, "value", e.text)

(***************************************************************************)
(* _transform_node: the content of elevated children replaces them, under  *)
(* prefixed keys; a choice becomes the key and the values of its first     *)
(* item; values of numeric and boolean columns are converted, column by    *)
(* column.                                                                 *)
(***************************************************************************)
TransformOf(type, key) ==
  IF <<type, key>> \in DOMAIN Transforms THEN Transforms[<<type, key>>][2] ELSE "none"

Elevate(type, entries) ==
  LET Prefixed(key, k) == IF TransformOf(type, key) = "elevate" THEN key \o "_" \o k ELSE k
      Lift(acc, e) ==
        LET child == acc[e.key][1].content
            lifted == {Prefixed(e.key, k) : k \in DOMAIN child}
        IN IF TransformOf(type, e.key) \notin Elevations THEN acc
           ELSE [p \in lifted |-> child[CHOOSE k \in DOMAIN child : Prefixed(e.key, k) = p]]
                @@ Restrict(acc, DOMAIN acc \ {e.key})
      content == FoldLeft(LAMBDA acc, e : (e.key :> e.vals) @@ acc, <<>>, entries)
  IN FoldLeft(Lift, content, entries)

Unconverted(type, content) == content
Convert(type, content) ==
  LET To(d, v) == IF <<d, v>> \in DOMAIN Typed THEN Typed[<<d, v>>]
                  ELSE IF d = "boolean" THEN Typed[<<d, "false">>] ELSE v
      Column(acc, f) ==
        IF f.kind # "col" \/ ContentKey(f) \notin DOMAIN acc THEN acc
        ELSE [acc EXCEPT ![ContentKey(f)] = MapSeq(LAMBDA v : To(f.dtype, v), @)]
  IN FoldLeft(Column, content, Fields[type])

(***************************************************************************)
(* A choice without an item raises IndexError, a value that is no number   *)
(* ValueError, or TypeError if it is None.                                 *)
(***************************************************************************)
EmptyChoice(type, entries) == type \in ChoiceTypes /\ entries = <<>>

NotANumber(type, content) ==
  \E f \in ColumnFields(type) :
    /\ ContentKey(f) \in DOMAIN content /\ f.dtype \in Numeric
    /\ \E v \in Range(content[ContentKey(f)]) : <<f.dtype, v>> \notin DOMAIN Typed

Untyped(type, entries) ==
  IF type \notin ChoiceTypes THEN Elevate(type, entries)
  ELSE IF EmptyChoice(type, entries) THEN <<>>
  ELSE [k \in {"type", "value"} |-> IF k = "type" THEN <<entries[1].key>> ELSE entries[1].vals]

TransformNode(type, entries) ==
  LET content == Untyped(type, entries)
  IN [type |-> type, content |-> IF type \in Type THEN Convert(type, content) ELSE content]

Hashed(node, hashed, maps) ==
  IF hashed THEN Deduplicate(node, maps) ELSE [node |-> node, maps |-> maps]

Raises(type, entries) ==
  EmptyChoice(type, entries) \/ (type \in Type /\ NotANumber(type, Untyped(type, entries)))

Completed(type, entries, hashed, maps) ==
  Hashed(TransformNode(type, entries), hashed,
         IF Raises(type, entries) THEN maps \union {Raised} ELSE maps)

(***************************************************************************)
(* _parse_xml_node: text, then children; an element that is not in the     *)
(* model is skipped, an empty one that would be joined is dropped.         *)
(***************************************************************************)
RECURSIVE ParseXmlNode(_, _, _, _)
ParseXmlNode(type, e, hashed, maps) ==
  LET Child(acc, c) ==
        LET to == Transforms[<<type, c.tag>>]
            below == ParseXmlNode(to[1], c, to[2] \notin Elevations, acc.maps)
        IN IF <<type, c.tag>> \notin DOMAIN Transforms THEN acc
           ELSE IF to[2] = "join"
                THEN IF c.text = NoText THEN acc ELSE [acc EXCEPT !.entries = Put(@, c.tag, c.text)]
           ELSE [entries |-> Put(acc.entries, c.tag, below.node), maps |-> below.maps]
      parsed == FoldLeft(Child, [entries |-> WithText(Attributes(e), e), maps |-> maps], e.children)
  IN Completed(type, parsed.entries, hashed, parsed.maps)

(***************************************************************************)
(* _parse_element_tree, from the root element of a file of the given root  *)
(* table.                                                                  *)
(***************************************************************************)
Wrapped(root, e) ==
  IF root \in Virtual THEN [tag |-> root, attrs |-> <<>>, text |-> NoText, children |-> <<e>>] ELSE e

ParseElementTree(root, e) == ParseXmlNode(root, Wrapped(root, e), TRUE, {})

(***************************************************************************)
(* _parse_iterative: a stack of nodes in progress, below it the container  *)
(* of the root (or the virtual root itself); whether the element just      *)
(* started is to be joined; the depth of skipped elements.  An empty       *)
(* joined element counts, as None; the text of a node comes last.          *)
(***************************************************************************)
RECURSIVE Events(_)
Events(e) == <<[event |-> "start", element |-> e]>> \o ConcatMap(Events, e.children)
               \o <<[event |-> "end", element |-> e]>>

Target(root, type, tag) == IF type = "" THEN <<root, "none">> ELSE Transforms[<<type, tag>>]

StartBare(root, s, e) ==
  LET type == Last(s.stack).type
      to == Target(root, type, e.tag)
  IN IF s.skipped > 0 \/ (type # "" /\ <<type, e.tag>> \notin DOMAIN Transforms)
     THEN [s EXCEPT !.skipped = @ + 1]
     ELSE IF to[2] = "join" THEN [s EXCEPT !.joined = TRUE]
     ELSE [s EXCEPT !.joined = FALSE, !.stack = Append(@, [type |-> to[1], entries |-> <<>>])]
Start(root, s, e) ==
  LET type == Last(s.stack).type
      to == Target(root, type, e.tag)
  IN IF s.skipped > 0 \/ (type # "" /\ <<type, e.tag>> \notin DOMAIN Transforms)
     THEN [s EXCEPT !.skipped = @ + 1]
     ELSE IF to[2] = "join" THEN [s EXCEPT !.joined = TRUE]
     ELSE [s EXCEPT !.joined = FALSE,
                    !.stack = Append(@, [type |-> to[1], entries |-> Attributes(e)])]

End(root, s, e) ==
  LET top == Last(s.stack)
      Add(stack, v) == [stack EXCEPT ![Len(stack)].entries = Put(@, e.tag, v)]
      below == Front(s.stack)
      hashed == Target(root, Last(below).type, e.tag)[2] \notin Elevations
      Done(done) == [s EXCEPT !.stack = Add(below, done.node), !.maps = done.maps]
  IN IF s.skipped > 0 THEN [s EXCEPT !.skipped = @ - 1]
     ELSE IF s.joined
     THEN [s EXCEPT !.joined = FALSE, !.stack = Add(@, IF e.text = NoText THEN None ELSE e.text)]
     ELSE Done(Completed(top.type, WithText(top.entries, e), hashed, s.maps))

RootOf(root, end) ==
  IF root \in Virtual THEN Completed(root, end.stack[1].entries, TRUE, end.maps)
  ELSE [node |-> end.stack[1].entries[1].vals[1], maps |-> end.maps]

ParseIterative(root, e) ==
  LET container == [type |-> IF root \in Virtual THEN root ELSE "", entries |-> <<>>]
  IN RootOf(root, FoldLeft(LAMBDA s, ev : IF ev.event = "start" THEN Start(root, s, ev.element)
                                          ELSE End(root, s, ev.element),
                           [stack |-> <<container>>, joined |-> FALSE, skipped |-> 0, maps |-> {}],
                           Events(e)))
=============================================================================
