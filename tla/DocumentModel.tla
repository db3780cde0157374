---------------------------- MODULE DocumentModel ----------------------------
(***************************************************************************)
(* What Document and XMLConverter read of a DataModel.                     *)
(***************************************************************************)
EXTENDS NodeContent, SequencesExt

CONSTANT Printed \* value that is no text -> its text

(***************************************************************************)
(* The DataModel of the documents:                                         *)
(*   root, name   the type and the name of the root table                  *)
(*   fields       type -> the fields of its table, Simplify's records      *)
(*   reused       the types whose tables are reused                        *)
(*   transforms   fields_transforms: <<type, tag>> -> <<child, transform>> *)
(*   choices      the types that types_transforms marks "choice"           *)
(*   virtual      the types whose table stands for several root elements   *)
(*   files        the XML files that may be loaded                         *)
(***************************************************************************)
VARIABLE model

Fields == model.fields
Type == DOMAIN Fields
RelationFields(t) == {f \in Range(Fields[t]) : f.kind # "col"}
ColumnFields(t) == {f \in Range(Fields[t]) : f.kind = "col"}
Relations(t) == {f.name : f \in RelationFields(t)}

MapSeq(Op(_), s) == [i \in DOMAIN s |-> Op(s[i])]

(***************************************************************************)
(* A node is [type, content, hash]; content holds, for each key that is    *)
(* present, a sequence: the values of a column, the children of a          *)
(* relation.  None is the value of an empty element of a list.             *)
(***************************************************************************)
None == "None"
Content(n, f) == IF ContentKey(f) \in DOMAIN n.content THEN n.content[ContentKey(f)] ELSE <<>>
TextOf(v) == IF v \in DOMAIN Printed THEN Printed[v] ELSE v
=============================================================================
