----------------------------- MODULE NodeContent -----------------------------
(***************************************************************************)
(* The keys under which the content of a node of a document tree holds the *)
(* values of a column: attributes are marked, in place of the suffix that  *)
(* the column has when an element has its name.                            *)
(***************************************************************************)
EXTENDS Integers, Sequences

Marked(name) == name \o "__attr"
ContentKey(f) ==
  CASE f.role = "attr" -> Marked(f.name)
    [] f.role = "attr_suffix" -> Marked(SubSeq(f.name, 1, Len(f.name) - Len("_attr")))
    [] OTHER -> f.name
=============================================================================
